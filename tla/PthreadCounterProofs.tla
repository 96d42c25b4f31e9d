------------------------ MODULE PthreadCounterProofs ------------------------
(***************************************************************************)
(* The counters of semaphores, read/write locks and barriers agree with    *)
(* the threads they count, for any number of threads: no token is made or  *)
(* lost, a writer excludes everyone, nobody leaves a barrier early.        *)
(***************************************************************************)
EXTENDS PthreadSemaphore, FiniteSetTheorems, TLAPS

CONSTANTS Readers, Tries, Timed, MaxUnlocks, NoThread, Rounds

VARIABLES state, waiting_writers, writer, unlocks,
          waiting, generation_word, generation, entered, done

Rwlock == INSTANCE PthreadRwlock
Barrier == INSTANCE PthreadBarrier

-----------------------------------------------------------------------------
\* How many elements of T the function f maps into L.
NumberIn(T, f, L) == Cardinality({u \in T : f[u] \in L})

\* That is a number, no more than T has elements, and 0 if no element is
\* mapped into L.
LEMMA NumberBound ==
  ASSUME NEW T, IsFiniteSet(T), NEW f, NEW L
  PROVE  /\ NumberIn(T, f, L) \in Nat /\ Cardinality(T) \in Nat
         /\ NumberIn(T, f, L) <= Cardinality(T)
         /\ NumberIn(T, f, L) = 0 <=> \A u \in T : f[u] \notin L
         /\ NumberIn(T, f, L) = Cardinality(T) => \A u \in T : f[u] \in L
<1> DEFINE A == {u \in T : f[u] \in L}
<1>1. A \subseteq T /\ NumberIn(T, f, L) = Cardinality(A)
  BY Zenon DEF NumberIn
<1>2. IsFiniteSet(A) /\ Cardinality(A) <= Cardinality(T)
      /\ (Cardinality(A) = Cardinality(T) => A = T)
  BY Zenon, <1>1, FS_Subset
<1>3. Cardinality(A) \in Nat /\ Cardinality(T) \in Nat
  BY Zenon, <1>2, FS_CardinalityType
<1>4. Cardinality(A) = 0 <=> A = {}
  BY Zenon, <1>2, FS_EmptySet
<1>5. A = {} <=> \A u \in T : f[u] \notin L
  OBVIOUS
<1>6. A = T => \A u \in T : f[u] \in L
  OBVIOUS
<1> QED
  BY Zenon, <1>1, <1>2, <1>3, <1>4, <1>5, <1>6

\* A step that moves one element moves the number by what that one did.
LEMMA NumberMove ==
  ASSUME NEW T, IsFiniteSet(T), NEW f, NEW g, NEW L,
         NEW t \in T, \A u \in T \ {t} : g[u] = f[u]
  PROVE  /\ f[t] \in L /\ g[t] \notin L => NumberIn(T, g, L) = NumberIn(T, f, L) - 1
         /\ f[t] \notin L /\ g[t] \in L => NumberIn(T, g, L) = NumberIn(T, f, L) + 1
         /\ (f[t] \in L <=> g[t] \in L) => NumberIn(T, g, L) = NumberIn(T, f, L)
<1> DEFINE A == {u \in T : f[u] \in L}
           B == {u \in T : g[u] \in L}
<1>1. IsFiniteSet(A) /\ IsFiniteSet(B)
  <2>1. A \subseteq T /\ B \subseteq T
    OBVIOUS
  <2> QED
    BY Zenon, <2>1, FS_Subset
<1>2. ASSUME f[t] \in L, g[t] \notin L PROVE Cardinality(B) = Cardinality(A) - 1
  <2>1. B = A \ {t} /\ t \in A
    BY <1>2
  <2> QED
    BY Zenon, <1>1, <2>1, FS_RemoveElement
<1>3. ASSUME f[t] \notin L, g[t] \in L PROVE Cardinality(B) = Cardinality(A) + 1
  <2>1. B = A \cup {t} /\ t \notin A
    BY <1>3
  <2> QED
    BY Zenon, <1>1, <2>1, FS_AddElement
<1>4. ASSUME f[t] \in L <=> g[t] \in L PROVE Cardinality(B) = Cardinality(A)
  <2>1. B = A
    BY <1>4
  <2> QED
    BY Zenon, <2>1
<1> QED
  BY Zenon, <1>2, <1>3, <1>4 DEF NumberIn

\* A step that moves no element of T leaves the number alone.
LEMMA NumberSame ==
  ASSUME NEW T, NEW f, NEW g, NEW L, \A u \in T : g[u] = f[u]
  PROVE  NumberIn(T, g, L) = NumberIn(T, f, L)
<1>1. {u \in T : g[u] \in L} = {u \in T : f[u] \in L}
  OBVIOUS
<1> QED
  BY Zenon, <1>1 DEF NumberIn

\* What a step of one thread t of S does to a number counted over some T of S.
LEMMA NumberStep ==
  ASSUME NEW S, NEW T \in SUBSET S, IsFiniteSet(T), NEW f, NEW g, NEW L, NEW t \in S,
         \A u \in S \ {t} : g[u] = f[u]
  PROVE  /\ NumberIn(T, f, L) \in Nat
         /\ NumberIn(T, g, L) = NumberIn(T, f, L) + (IF t \in T /\ g[t] \in L THEN 1 ELSE 0)
                                                  - (IF t \in T /\ f[t] \in L THEN 1 ELSE 0)
<1>1. NumberIn(T, f, L) \in Nat
  BY Zenon, NumberBound
<1>2. CASE t \in T
  <2>1. \A u \in T \ {t} : g[u] = f[u]
    OBVIOUS
  <2> QED
    BY <1>1, <1>2, <2>1, NumberMove
<1>3. CASE t \notin T
  <2>1. \A u \in T : g[u] = f[u]
    BY Zenon, <1>3
  <2> QED
    BY <1>1, <1>3, <2>1, NumberSame
<1> QED
  BY Zenon, <1>2, <1>3

-----------------------------------------------------------------------------
\* The semaphore.  Where a thread is counted in waiters, and which labels
\* belong to which call.
CountedIn == {"publish", "publish_changes", "enter", "wait", "asleep", "leave", "leave_timeout"}
WaitLabels == {"load", "take", "sequence", "check", "cancelled"} \cup CountedIn
PostLabels == {"post", "bump", "post_wake"}

SemTypes ==
  /\ posts \in Nat /\ gots \in Nat /\ sequence \in Nat
  /\ saw \in [Threads -> Nat]
  /\ pc \in [Threads -> {"user"} \cup WaitLabels \cup PostLabels]
  /\ cancel \in [Threads -> {"no", "pending", "bump", "wake", "done"}]
  /\ how \in [Threads -> {"wait", "try", "timed"}]
  /\ cancel_pending \in [Threads -> BOOLEAN]

\* Each call is made by the threads that make it.
RolesInv ==
  \A t \in Threads : /\ pc[t] \in WaitLabels => t \in Waiters
                     /\ pc[t] \in PostLabels => t \in Posters
                     /\ cancel[t] # "no" => t \in Cancelled

\* A thread that is about to take a token saw one.
ValueInv ==
  /\ value \in 0..SEM_VALUE_MAX
  /\ value = Initial + posts - gots
  /\ \A t \in Threads : pc[t] = "take" => saw[t] > 0

\* waiters counts the threads between the two updates of it.  What the
\* bounds on the calls leave room for: the posts that have passed the bound,
\* and the increments of the sequence that posts and cancellations still owe.
CountInv ==
  /\ waiters = NumberIn(Waiters, pc, CountedIn)
  /\ posts + NumberIn(Posters, pc, {"post"}) <= MaxPosts + Cardinality(Posters)
  /\ sequence + NumberIn(Posters, pc, {"bump"})
       <= posts + NumberIn(Cancelled, cancel, {"wake", "done"})

SemInv == SemTypes /\ RolesInv /\ ValueInv /\ CountInv

\* The three sets that are counted over are finite.
LEMMA SemFinite == IsFiniteSet(Waiters) /\ IsFiniteSet(Posters) /\ IsFiniteSet(Cancelled)
BY Zenon, SemaphoreAssumption, FS_Subset DEF Waiters

\* The slot sem_init() leaves satisfies the invariant.
LEMMA SemInit == Init => SemInv
<1> SUFFICES ASSUME Init PROVE SemInv
  OBVIOUS
<1> USE SemaphoreAssumption DEF Init
<1>1. SemTypes /\ RolesInv
  <2>1. cancel_pending \in [Threads -> BOOLEAN]
    BY Zenon, Zenon
  <2> QED
    BY Zenon, <2>1 DEF SemTypes, RolesInv, WaitLabels, PostLabels, CountedIn
<1>2. ValueInv
  BY DEF ValueInv
<1>3. /\ NumberIn(Waiters, pc, CountedIn) = 0
      /\ NumberIn(Posters, pc, {"post"}) = 0
      /\ NumberIn(Posters, pc, {"bump"}) = 0
      /\ NumberIn(Cancelled, cancel, {"wake", "done"}) \in Nat
      /\ Cardinality(Posters) \in Nat
  BY SemFinite, NumberBound DEF CountedIn, Waiters
<1>4. CountInv
  BY <1>3 DEF CountInv
<1> QED
  BY Zenon, <1>1, <1>2, <1>4 DEF SemInv

\* No step leaves the types or gives a thread a call that is not its own.
LEMMA SemTypesNext == ASSUME SemInv, [Next]_vars PROVE SemTypes' /\ RolesInv'
<1> USE SemaphoreAssumption
    DEF SemInv, SemTypes, RolesInv, ValueInv, WaitLabels, PostLabels, CountedIn, Goto,
        Waiters, slot, local, count, cancelvars
<1>1. CASE UNCHANGED vars
  BY Zenon, <1>1 DEF vars
<1>2. ASSUME NEW t \in Threads, Call(t) PROVE SemTypes' /\ RolesInv'
  BY <1>2 DEF Call
<1>3. ASSUME NEW t \in Threads, LoadValue(t) \/ Take(t) PROVE SemTypes' /\ RolesInv'
  BY <1>3 DEF LoadValue, Take, NoToken
<1>4. ASSUME NEW t \in Threads, LoadSequence(t) \/ TestCancel(t) PROVE SemTypes' /\ RolesInv'
  BY <1>4 DEF LoadSequence, TestCancel
<1>5. ASSUME NEW t \in Threads, PublishAddress(t) \/ PublishChanges(t) \/ EnterWait(t)
      PROVE  SemTypes' /\ RolesInv'
  BY SMTT(30), <1>5 DEF PublishAddress, PublishChanges, EnterWait
<1>6. ASSUME NEW t \in Threads, Wait(t) \/ Woken(t) \/ Interrupted(t) \/ Timeout(t)
      PROVE  SemTypes' /\ RolesInv'
  BY <1>6 DEF Wait, Woken, Interrupted, Timeout
<1>7. ASSUME NEW t \in Threads, Leave(t) PROVE SemTypes' /\ RolesInv'
  BY ZenonT(40), <1>7 DEF Leave
<1>8. ASSUME NEW t \in Threads, PostLoad(t) \/ PostAdd(t) PROVE SemTypes' /\ RolesInv'
  <2>1. CASE PostLoad(t)
    BY <2>1 DEF PostLoad
  <2>2. CASE PostAdd(t)
    <3>1. \/ Goto(t, "user") /\ UNCHANGED <<value, posts, saw>>
          \/ posts' = posts + 1 /\ Goto(t, "bump") /\ UNCHANGED saw
          \/ saw' = [saw EXCEPT ![t] = value] /\ UNCHANGED <<posts, pc>>
      BY Zenon, <2>2 DEF PostAdd
    <3>2. pc[t] = "post" /\ UNCHANGED <<sequence, how, gots, cancel_pending, cancel>>
      BY Zenon, <2>2 DEF PostAdd
    <3> QED
      BY <3>1, <3>2
  <2> QED
    BY Zenon, <1>8, <2>1, <2>2
<1>9. ASSUME NEW t \in Threads, PostBump(t) \/ PostWake(t) PROVE SemTypes' /\ RolesInv'
  BY <1>9 DEF PostBump, PostWake
<1>10. ASSUME NEW t \in Threads, CancelPending(t) PROVE SemTypes' /\ RolesInv'
  BY Zenon, <1>10 DEF CancelPending
<1>11. ASSUME NEW t \in Threads, CancelLoad(t) \/ CancelWake(t) PROVE SemTypes' /\ RolesInv'
  BY <1>11 DEF CancelLoad, CancelWake
<1>12. ASSUME NEW t \in Threads, CancelBump(t) PROVE SemTypes' /\ RolesInv'
  BY <1>12 DEF CancelBump
<1> HIDE DEF SemTypes, RolesInv
<1> QED
  BY ZenonT(40), <1>1, <1>2, <1>3, <1>4, <1>5, <1>6, <1>7, <1>8, <1>9, <1>10, <1>11, <1>12
  DEF Next, WaitStep, PostStep, CancelStep

\* Only the compare-exchanges of Take and PostAdd move the value, and each
\* moves it with its count.
LEMMA SemValueNext == ASSUME SemInv, [Next]_vars PROVE ValueInv'
<1> USE SemaphoreAssumption
    DEF SemInv, SemTypes, ValueInv, WaitLabels, PostLabels, CountedIn, Goto, slot, local, count
<1>1. ASSUME NEW t \in Threads, Take(t) PROVE ValueInv'
  <2>1. CASE value = saw[t]
    <3>1. /\ pc[t] = "take" /\ value' = value - 1 /\ gots' = gots + 1
          /\ pc' = [pc EXCEPT ![t] = "user"] /\ UNCHANGED <<saw, posts>>
      BY Zenon, <1>1, <2>1 DEF Take
    <3> QED
      BY <2>1, <3>1
  <2>2. CASE value # saw[t]
    <3>1. /\ saw' = [saw EXCEPT ![t] = value] /\ UNCHANGED <<value, gots, posts>>
          /\ pc' = [pc EXCEPT ![t] = IF value > 0 THEN "take" ELSE NoToken(t)]
          /\ NoToken(t) # "take"
      BY Zenon, <1>1, <2>2 DEF Take, NoToken
    <3> QED
      BY Zenon, <3>1
  <2> QED
    BY Zenon, <2>1, <2>2
<1>2. ASSUME NEW t \in Threads, LoadValue(t) PROVE ValueInv'
  BY Zenon, <1>2 DEF LoadValue, NoToken
<1>3. ASSUME NEW t \in Threads, PostAdd(t) PROVE ValueInv'
  <2>1. CASE saw[t] # SEM_VALUE_MAX /\ value = saw[t]
    <3>1. /\ value' = value + 1 /\ posts' = posts + 1 /\ UNCHANGED <<gots, saw>>
          /\ pc' = [pc EXCEPT ![t] = "bump"]
      BY Zenon, <1>3, <2>1 DEF PostAdd
    <3> QED
      BY <2>1, <3>1
  <2>2. CASE saw[t] = SEM_VALUE_MAX
    BY Zenon, <1>3, <2>2 DEF PostAdd
  <2>3. CASE saw[t] # SEM_VALUE_MAX /\ value # saw[t]
    <3>1. /\ pc[t] = "post" /\ UNCHANGED <<value, posts, gots, pc>>
          /\ saw' = [saw EXCEPT ![t] = value]
      BY Zenon, <1>3, <2>3 DEF PostAdd
    <3> QED
      BY Zenon, <3>1
  <2> QED
    BY Zenon, <2>1, <2>2, <2>3
<1>4. ASSUME NEW t \in Threads, PostLoad(t) PROVE ValueInv'
  BY Zenon, <1>4 DEF PostLoad
<1>5. ASSUME UNCHANGED <<value, posts, gots, saw>>,
             \A t \in Threads : pc'[t] = "take" => pc[t] = "take"
      PROVE  ValueInv'
  BY Zenon, <1>5
<1>6. ASSUME NEW t \in Threads,
             Call(t) \/ (WaitStep(t) /\ ~LoadValue(t) /\ ~Take(t)) \/ Interrupted(t) \/ Timeout(t)
      PROVE  ValueInv'
  <2>1. UNCHANGED <<value, posts, gots, saw>>
    BY Zenon, <1>6 DEF Call, WaitStep, Interrupted, Timeout, LoadSequence, TestCancel, PublishAddress,
                PublishChanges, EnterWait, Wait, Woken, Leave
  <2>2. \A u \in Threads : pc'[u] = "take" => pc[u] = "take"
    BY ZenonT(40), <1>6 DEF Call, WaitStep, Interrupted, Timeout, LoadSequence, TestCancel, PublishAddress,
                PublishChanges, EnterWait, Wait, Woken, Leave
  <2> QED
    BY Zenon, <1>5, <2>1, <2>2
<1>7. ASSUME NEW t \in Threads, PostBump(t) \/ PostWake(t) PROVE ValueInv'
  BY Zenon, <1>5, <1>7 DEF PostBump, PostWake
<1>8. ASSUME NEW t \in Threads, CancelPending(t) \/ CancelStep(t) PROVE ValueInv'
  BY Zenon, <1>5, <1>8 DEF CancelPending, CancelStep, CancelLoad, CancelBump, CancelWake
<1>9. CASE UNCHANGED vars
  BY Zenon, <1>5, <1>9 DEF vars
<1> HIDE DEF ValueInv
<1> QED
  BY ZenonT(40), <1>1, <1>2, <1>3, <1>4, <1>6, <1>7, <1>8, <1>9 DEF Next, PostStep

\* A step of thread t to label l changes the three numbers of CountInv that
\* depend on pc by what t did.
LEMMA SemMove ==
  ASSUME NEW t \in Threads, NEW l, pc'[t] = l, \A u \in Threads \ {t} : pc'[u] = pc[u]
  PROVE  /\ t \in Waiters =>
              NumberIn(Waiters, pc', CountedIn)
                = NumberIn(Waiters, pc, CountedIn)
                  + (IF l \in CountedIn THEN 1 ELSE 0) - (IF pc[t] \in CountedIn THEN 1 ELSE 0)
         /\ t \in Posters => \A m \in {"post", "bump"} :
              NumberIn(Posters, pc', {m})
                = NumberIn(Posters, pc, {m})
                  + (IF l = m THEN 1 ELSE 0) - (IF pc[t] = m THEN 1 ELSE 0)
         /\ t \in Posters => NumberIn(Waiters, pc', CountedIn) = NumberIn(Waiters, pc, CountedIn)
         /\ t \in Waiters => \A m \in {"post", "bump"} :
              NumberIn(Posters, pc', {m}) = NumberIn(Posters, pc, {m})
<1>1. Posters \subseteq Threads /\ Waiters = Threads \ Posters
  BY Zenon, SemaphoreAssumption DEF Waiters
<1>2. NumberIn(Waiters, pc, CountedIn) \in Nat
  BY Zenon, SemFinite, NumberBound
<1>3. ASSUME t \in Waiters
      PROVE  NumberIn(Waiters, pc', CountedIn)
                = NumberIn(Waiters, pc, CountedIn)
                  + (IF l \in CountedIn THEN 1 ELSE 0) - (IF pc[t] \in CountedIn THEN 1 ELSE 0)
  <2>1. \A u \in Waiters \ {t} : pc'[u] = pc[u]
    BY Zenon, <1>1
  <2>2. /\ pc[t] \in CountedIn /\ pc'[t] \notin CountedIn =>
             NumberIn(Waiters, pc', CountedIn) = NumberIn(Waiters, pc, CountedIn) - 1
        /\ pc[t] \notin CountedIn /\ pc'[t] \in CountedIn =>
             NumberIn(Waiters, pc', CountedIn) = NumberIn(Waiters, pc, CountedIn) + 1
        /\ (pc[t] \in CountedIn <=> pc'[t] \in CountedIn) =>
             NumberIn(Waiters, pc', CountedIn) = NumberIn(Waiters, pc, CountedIn)
    BY SMTT(30), <1>3, <2>1, SemFinite, NumberMove
  <2> QED
    BY <1>1, <1>2, <2>2
<1>4. ASSUME t \in Posters, NEW m \in {"post", "bump"}
      PROVE  NumberIn(Posters, pc', {m})
                = NumberIn(Posters, pc, {m})
                  + (IF l = m THEN 1 ELSE 0) - (IF pc[t] = m THEN 1 ELSE 0)
  <2>1. \A u \in Posters \ {t} : pc'[u] = pc[u]
    BY Zenon, <1>1
  <2>2. /\ pc[t] \in {m} /\ pc'[t] \notin {m} =>
             NumberIn(Posters, pc', {m}) = NumberIn(Posters, pc, {m}) - 1
        /\ pc[t] \notin {m} /\ pc'[t] \in {m} =>
             NumberIn(Posters, pc', {m}) = NumberIn(Posters, pc, {m}) + 1
        /\ (pc[t] \in {m} <=> pc'[t] \in {m}) =>
             NumberIn(Posters, pc', {m}) = NumberIn(Posters, pc, {m})
    BY <1>4, <2>1, SemFinite, NumberMove
  <2>3. NumberIn(Posters, pc, {m}) \in Nat
    BY Zenon, SemFinite, NumberBound
  <2>4. (pc'[t] \in {m} <=> l = m) /\ (pc[t] \in {m} <=> pc[t] = m)
    OBVIOUS
  <2> HIDE <1>4
  <2> QED
    BY <2>2, <2>3, <2>4
<1>5. ASSUME t \in Posters
      PROVE  NumberIn(Waiters, pc', CountedIn) = NumberIn(Waiters, pc, CountedIn)
  BY ZenonT(40), <1>1, <1>5, NumberSame
<1>6. ASSUME t \in Waiters, NEW m \in {"post", "bump"}
      PROVE  NumberIn(Posters, pc', {m}) = NumberIn(Posters, pc, {m})
  BY <1>1, <1>6, NumberSame
<1> QED
  BY Zenon, <1>3, <1>4, <1>5, <1>6

\* Every step keeps the counts.
LEMMA SemCountNext == ASSUME SemInv, [Next]_vars PROVE CountInv'
<1> DEFINE W == NumberIn(Waiters, pc, CountedIn)
           P == NumberIn(Posters, pc, {"post"})
           B == NumberIn(Posters, pc, {"bump"})
           C == NumberIn(Cancelled, cancel, {"wake", "done"})
<1>1. /\ W \in Nat /\ P \in Nat /\ B \in Nat /\ C \in Nat
      /\ P' \in Nat /\ P' <= Cardinality(Posters) /\ Cardinality(Posters) \in Nat
  BY Zenon, SemFinite, NumberBound
<1>2. /\ waiters = W
      /\ posts + P <= MaxPosts + Cardinality(Posters)
      /\ sequence + B <= posts + C
      /\ posts \in Nat /\ sequence \in Nat /\ MaxPosts \in Nat
  BY Zenon, SemaphoreAssumption DEF SemInv, SemTypes, CountInv
<1>3. \A t \in Threads : \A l :
        Goto(t, l) => pc'[t] = l /\ \A u \in Threads \ {t} : pc'[u] = pc[u]
  BY Zenon DEF SemInv, SemTypes, Goto
<1>4. ASSUME NEW t \in Waiters, NEW l, Goto(t, l)
      PROVE  /\ P' = P /\ B' = B
             /\ W' = W + (IF l \in CountedIn THEN 1 ELSE 0)
                       - (IF pc[t] \in CountedIn THEN 1 ELSE 0)
  <2>1. /\ t \in Threads /\ pc'[t] = l
        /\ \A u \in Threads \ {t} : pc'[u] = pc[u]
    BY Zenon, <1>3, <1>4 DEF Waiters
  <2> HIDE <1>4
  <2> QED
    BY Zenon, <2>1, SemMove
<1>5. ASSUME NEW t \in Posters, NEW l, Goto(t, l)
      PROVE  /\ W' = W
             /\ P' = P + (IF l = "post" THEN 1 ELSE 0) - (IF pc[t] = "post" THEN 1 ELSE 0)
             /\ B' = B + (IF l = "bump" THEN 1 ELSE 0) - (IF pc[t] = "bump" THEN 1 ELSE 0)
  <2>1. /\ t \in Threads /\ pc'[t] = l
        /\ \A u \in Threads \ {t} : pc'[u] = pc[u]
    BY Zenon, <1>3, <1>5, SemaphoreAssumption
  <2> HIDE <1>5
  <2> QED
    BY Zenon, <2>1, SemMove
<1>6. UNCHANGED cancel => C' = C
  OBVIOUS
<1>7. \A t \in Threads : /\ pc[t] \in WaitLabels => t \in Waiters
                         /\ pc[t] \in PostLabels => t \in Posters
  BY Zenon DEF SemInv, RolesInv
<1> HIDE DEF W, P, B, C
<1>8. ASSUME NEW t \in Waiters, NEW l, Goto(t, l),
             UNCHANGED <<sequence, posts, cancel>>,
             waiters' = waiters + (IF l \in CountedIn THEN 1 ELSE 0)
                                - (IF pc[t] \in CountedIn THEN 1 ELSE 0)
      PROVE  CountInv'
  <2>1. /\ P' = P /\ B' = B
        /\ W' = W + (IF l \in CountedIn THEN 1 ELSE 0) - (IF pc[t] \in CountedIn THEN 1 ELSE 0)
    BY Zenon, <1>4, <1>8
  <2> QED
    BY Zenon, <1>1, <1>2, <1>6, <1>8, <2>1 DEF CountInv, W, P, B, C
<1>9. ASSUME NEW t \in Threads, Call(t) \/ LoadValue(t) \/ Take(t) \/ LoadSequence(t)
       PROVE  CountInv'
  <2>1. t \in Waiters /\ pc[t] \notin CountedIn
    BY Zenon, <1>7, <1>9 DEF Call, LoadValue, Take, LoadSequence, WaitLabels, CountedIn
  <2>2. UNCHANGED <<sequence, posts, cancel, waiters>>
    BY Zenon, <1>9 DEF Call, LoadValue, Take, LoadSequence, slot, count, cancelvars
  <2>3. \E l \in {"load", "take", "sequence", "user", "check"} : Goto(t, l)
    BY Zenon, <1>9 DEF Call, LoadValue, Take, LoadSequence, NoToken
  <2>4. PICK l \in {"load", "take", "sequence", "user", "check"} : Goto(t, l)
    BY Zenon, <2>3
  <2>5. l \notin CountedIn
    BY Zenon DEF CountedIn
  <2> QED
    BY SMTT(30), <1>1, <1>2, <1>8, <2>1, <2>2, <2>4, <2>5
<1>10. ASSUME NEW t \in Threads, TestCancel(t) PROVE CountInv'
  <2>1. t \in Waiters /\ pc[t] \notin CountedIn
    BY Zenon, <1>7, <1>10 DEF TestCancel, WaitLabels, CountedIn
  <2>2. UNCHANGED <<sequence, posts, cancel>>
    BY Zenon, <1>10 DEF TestCancel, count, cancelvars
  <2>3. CASE cancel_pending[t]
    <3>1. Goto(t, "cancelled") /\ waiters' = waiters
      BY Zenon, <1>10, <2>3 DEF TestCancel
    <3>2. "cancelled" \notin CountedIn
      BY Zenon DEF CountedIn
    <3> QED
      BY SMTT(30), <1>1, <1>2, <1>8, <2>1, <2>2, <3>1, <3>2
  <2>4. CASE ~cancel_pending[t]
    <3>1. Goto(t, "publish") /\ waiters' = waiters + 1
      BY Zenon, <1>10, <2>4 DEF TestCancel
    <3>2. "publish" \in CountedIn
      BY Zenon DEF CountedIn
    <3> QED
      BY SMTT(30), <1>1, <1>2, <1>8, <2>1, <2>2, <3>1, <3>2
  <2> QED
    BY Zenon, <2>3, <2>4
<1>11. ASSUME NEW t \in Threads,
              \/ PublishAddress(t) \/ PublishChanges(t) \/ EnterWait(t)
              \/ Wait(t) \/ Woken(t) \/ Interrupted(t) \/ Timeout(t)
       PROVE  CountInv'
  <2>1. pc[t] \in CountedIn
    BY Zenon, <1>11 DEF PublishAddress, PublishChanges, EnterWait, Wait, Woken, Interrupted, Timeout,
                 CountedIn
  <2>2. UNCHANGED <<sequence, posts, cancel, waiters>>
    BY Zenon, <1>11 DEF PublishAddress, PublishChanges, EnterWait, Wait, Woken, Interrupted, Timeout,
                 slot, count, cancelvars
  <2>3. \E l \in CountedIn : Goto(t, l)
    BY Zenon, <1>11 DEF PublishAddress, PublishChanges, EnterWait, Wait, Woken, Interrupted, Timeout,
                 CountedIn
  <2>4. t \in Waiters
    BY Zenon, <1>7, <2>1 DEF WaitLabels
  <2> QED
    BY SMTT(30), <1>1, <1>2, <1>8, <2>1, <2>2, <2>3, <2>4
<1>12. ASSUME NEW t \in Threads, Leave(t) PROVE CountInv'
  <2>1. t \in Waiters /\ pc[t] \in CountedIn
    BY Zenon, <1>7, <1>12 DEF Leave, WaitLabels, CountedIn
  <2>2. UNCHANGED <<sequence, posts, cancel>> /\ waiters' = waiters - 1
    BY Zenon, <1>12 DEF Leave, count
  <2>3. PICK l \in {"cancelled", "load", "user"} : Goto(t, l)
    BY Zenon, <1>12 DEF Leave
  <2>4. l \notin CountedIn
    BY Zenon DEF CountedIn
  <2> QED
    BY SMTT(30), <1>1, <1>2, <1>8, <2>1, <2>2, <2>3, <2>4
<1>13. ASSUME NEW t \in Threads, PostLoad(t) PROVE CountInv'
  <2>1. /\ t \in Posters /\ pc[t] = "user" /\ posts < MaxPosts
        /\ Goto(t, "post")
        /\ UNCHANGED <<sequence, posts, cancel, waiters>>
    BY Zenon, <1>13 DEF PostLoad, slot, count, cancelvars
  <2>2. W' = W /\ B' = B
    BY <1>1, <1>5, <2>1
  <2> QED
    BY <1>1, <1>2, <1>6, <2>1, <2>2 DEF CountInv, W, P, B, C
<1>14. ASSUME NEW t \in Threads, PostAdd(t) PROVE CountInv'
  <2>1. pc[t] = "post" /\ t \in Posters /\ UNCHANGED <<sequence, cancel, waiters>>
    BY Zenon, <1>7, <1>14 DEF PostAdd, cancelvars, PostLabels
  <2>2. \/ Goto(t, "user") /\ UNCHANGED posts
        \/ Goto(t, "bump") /\ posts' = posts + 1
        \/ UNCHANGED <<pc, posts>>
    BY ZenonT(40), <1>14 DEF PostAdd
  <2>3. CASE Goto(t, "user") /\ UNCHANGED posts
    <3>1. W' = W /\ B' = B /\ P' = P - 1
      BY SMTT(30), <1>1, <1>5, <2>1, <2>3
    <3> QED
      BY SMTT(30), <1>1, <1>2, <1>6, <2>1, <2>3, <3>1 DEF CountInv, W, P, B, C
  <2>4. CASE Goto(t, "bump") /\ posts' = posts + 1
    <3>1. W' = W /\ B' = B + 1 /\ P' = P - 1
      BY <1>1, <1>5, <2>1, <2>4
    <3> QED
      BY SMTT(30), <1>1, <1>2, <1>6, <2>1, <2>4, <3>1 DEF CountInv, W, P, B, C
  <2>5. CASE UNCHANGED <<pc, posts>>
    BY ZenonT(40), <1>2, <2>1, <2>5 DEF CountInv, W, P, B, C
  <2> QED
    BY ZenonT(40), <2>2, <2>3, <2>4, <2>5
<1>15. ASSUME NEW t \in Threads, PostBump(t) PROVE CountInv'
  <2>1. /\ pc[t] = "bump" /\ t \in Posters /\ UNCHANGED <<posts, cancel, waiters>>
        /\ sequence' = sequence + 1 /\ Goto(t, "post_wake")
    BY Zenon, <1>7, <1>15 DEF PostBump, cancelvars, PostLabels, count
  <2>2. W' = W /\ B' = B - 1 /\ P' = P
    BY <1>1, <1>5, <2>1
  <2> QED
    BY <1>1, <1>2, <1>6, <2>1, <2>2 DEF CountInv, W, P, B, C
<1>16. ASSUME NEW t \in Threads, PostWake(t) PROVE CountInv'
  <2>1. /\ pc[t] = "post_wake" /\ t \in Posters /\ UNCHANGED <<sequence, posts, cancel, waiters>>
        /\ Goto(t, "user")
    BY Zenon, <1>7, <1>16 DEF PostWake, cancelvars, PostLabels, count, slot
  <2>2. W' = W /\ B' = B /\ P' = P
    BY <1>1, <1>5, <2>1
  <2> QED
    BY ZenonT(40), <1>1, <1>2, <1>6, <2>1, <2>2 DEF CountInv, W, P, B, C
<1>17. ASSUME NEW t \in Threads, CancelPending(t) \/ CancelStep(t) PROVE CountInv'
  <2> USE DEF CancelPending, CancelStep, CancelLoad, CancelBump, CancelWake
  <2>1. UNCHANGED <<pc, posts, waiters>>
    BY Zenon, <1>17 DEF slot, count
  <2>2. t \in Cancelled
    BY ZenonT(40), <1>17 DEF SemInv, RolesInv
  <2>3. \/ /\ sequence' = sequence + 1
           /\ cancel[t] = "bump" /\ cancel'[t] = "wake"
        \/ /\ sequence' = sequence
           /\ \/ cancel[t] \notin {"wake", "done"}
              \/ cancel[t] = "wake" /\ cancel'[t] = "done"
    BY <1>2, <1>17 DEF slot, SemInv, SemTypes
  <2>4. \A u \in Cancelled \ {t} : cancel'[u] = cancel[u]
    BY ZenonT(40), <1>17, SemaphoreAssumption DEF SemInv, SemTypes
  <2> USE DEF C
  <2>5. /\ cancel[t] \in {"wake", "done"} /\ cancel'[t] \notin {"wake", "done"} => C' = C - 1
        /\ cancel[t] \notin {"wake", "done"} /\ cancel'[t] \in {"wake", "done"} => C' = C + 1
        /\ (cancel[t] \in {"wake", "done"} <=> cancel'[t] \in {"wake", "done"}) => C' = C
    BY SMTT(30), <2>2, <2>4, SemFinite, NumberMove
  <2> HIDE DEF C
  <2>6. W' = W /\ P' = P /\ B' = B
    BY ZenonT(40), <2>1 DEF W, P, B
  <2>7. sequence' + B' <= posts' + C'
    BY SMTT(30), <1>1, <1>2, <2>1, <2>3, <2>5, <2>6
  <2> QED
    BY ZenonT(40), <1>1, <1>2, <2>1, <2>6, <2>7 DEF CountInv, W, P, B, C
<1>18. CASE UNCHANGED vars
  BY Zenon, <1>18 DEF vars, slot, count, cancelvars, SemInv, CountInv
<1> QED
  BY Zenon, <1>9, <1>10, <1>11, <1>12, <1>13, <1>14, <1>15, <1>16, <1>17, <1>18
  DEF Next, WaitStep, PostStep

\* The invariant says what TypeOK says.
LEMMA SemInvTypes == SemInv => TokensConserved
<1> SUFFICES ASSUME SemInv PROVE TokensConserved
  OBVIOUS
<1>1. /\ waiters = NumberIn(Waiters, pc, CountedIn)
      /\ NumberIn(Waiters, pc, CountedIn) \in Nat
      /\ Cardinality(Waiters) \in Nat /\ NumberIn(Waiters, pc, CountedIn) <= Cardinality(Waiters)
  BY ZenonT(40), SemFinite, NumberBound DEF SemInv, CountInv
<1>2. /\ sequence \in Nat
      /\ sequence <= MaxPosts + Cardinality(Posters) + Cardinality(Cancelled)
      /\ MaxPosts \in Nat /\ Cardinality(Posters) \in Nat /\ Cardinality(Cancelled) \in Nat
  <2>1. /\ NumberIn(Posters, pc, {"post"}) \in Nat /\ NumberIn(Posters, pc, {"bump"}) \in Nat
        /\ Cardinality(Posters) \in Nat /\ Cardinality(Cancelled) \in Nat
        /\ NumberIn(Cancelled, cancel, {"wake", "done"}) \in Nat
        /\ NumberIn(Cancelled, cancel, {"wake", "done"}) <= Cardinality(Cancelled)
    BY Zenon, SemFinite, NumberBound
  <2> QED
    BY <2>1, SemaphoreAssumption DEF SemInv, SemTypes, CountInv
<1>3. value \in 0..SEM_VALUE_MAX /\ value = Initial + posts - gots
  BY Zenon DEF SemInv, ValueInv
<1>4. /\ pc \in [Threads -> {"user", "load", "take", "sequence", "check", "publish",
           "publish_changes", "enter", "wait", "asleep", "leave", "leave_timeout",
           "cancelled", "post", "bump", "post_wake"}]
      /\ cancel \in [Threads -> {"no", "pending", "bump", "wake", "done"}]
      /\ how \in [Threads -> {"wait", "try", "timed"}]
      /\ cancel_pending \in [Threads -> BOOLEAN]
  BY Zenon DEF SemInv, SemTypes, WaitLabels, PostLabels, CountedIn
<1>5. /\ waiters \in 0..Cardinality(Waiters)
      /\ sequence \in 0..(MaxPosts + Cardinality(Posters) + Cardinality(Cancelled))
  BY <1>1, <1>2
<1> QED
  BY <1>3, <1>4, <1>5, ZenonT(40) DEF TokensConserved, TypeOK

\* sem_wait(), sem_post(), deadlines and cancellation conserve tokens, for
\* any number of threads and any bounds: the value is what sem_init() gave
\* plus the posts minus the waits that succeeded, it keeps to SEM_VALUE_MAX,
\* and waiters counts the threads that wait.
THEOREM TokensConservedCorrect == Spec => []TokensConserved
<1>1. Init => SemInv
  BY Zenon, SemInit
<1>2. SemInv /\ [Next]_vars => SemInv'
  BY Zenon, SemTypesNext, SemValueNext, SemCountNext DEF SemInv
<1>3. SemInv => TokensConserved
  BY Zenon, SemInvTypes
<1> QED
  BY <1>1, <1>2, <1>3, PTL DEF Spec

-----------------------------------------------------------------------------
\* The barrier.  g is the generation; a thread has entered g rounds, or g + 1
\* once it has counted itself in.
BarrierTypes ==
  /\ waiting \in Nat /\ generation_word \in Nat /\ generation_word <= Rounds
  /\ pc \in [Threads -> {"user", "count", "reset", "open", "wake", "test", "wait", "asleep"}]
  /\ generation \in [Threads -> Nat]
  /\ entered \in [Threads -> Nat]
  /\ done \in [Threads -> Nat]

\* Where a thread is in its round.
BarrierPhase(t) ==
  LET g == generation_word IN
  /\ generation[t] <= g /\ entered[t] <= Rounds
  /\ pc[t] \in {"user", "count"} => entered[t] = g /\ done[t] = g
  /\ pc[t] = "count" => generation[t] = g /\ entered[t] < Rounds
  /\ pc[t] \in {"reset", "open"} => entered[t] = g + 1 /\ done[t] = g
  /\ pc[t] = "wake" => entered[t] = g /\ done[t] + 1 = g
  /\ pc[t] \in {"test", "wait", "asleep"} =>
       /\ entered[t] \in {g, g + 1}
       /\ entered[t] = generation[t] + 1 /\ done[t] = generation[t]

\* A thread that completes the round has everyone with it and is the only
\* one; until it resets waiting, waiting counts who has entered.
BarrierLast ==
  /\ \A t \in Threads : pc[t] \in {"reset", "open"} =>
       /\ \A u \in Threads : entered[u] = generation_word + 1
       /\ \A u \in Threads \ {t} : pc[u] \notin {"reset", "open"}
       /\ pc[t] = "open" => waiting = 0
  /\ (\A t \in Threads : pc[t] # "open") =>
       waiting = NumberIn(Threads, entered, {generation_word + 1})

BarrierInv == BarrierTypes /\ (\A t \in Threads : BarrierPhase(t)) /\ BarrierLast

\* Finite sets and their cardinality mean the same in the instance.
LEMMA BarrierFinite ==
  ASSUME Barrier!BarrierAssumption
  PROVE  /\ IsFiniteSet(Threads) /\ Rounds \in Nat
         /\ Barrier!Count = Cardinality(Threads) /\ Cardinality(Threads) \in Nat
<1>1. \A S : Barrier!IsFiniteSet(S) <=> IsFiniteSet(S)
  BY Zenon DEF Barrier!IsFiniteSet, IsFiniteSet
<1>2. \A S : Barrier!Cardinality(S) = Cardinality(S)
  BY Zenon DEF Barrier!Cardinality, Cardinality
<1> QED
  BY Zenon, <1>1, <1>2, FS_CardinalityType DEF Barrier!BarrierAssumption, Barrier!Count

\* Every step of thread t keeps the types and the phases.
LEMMA BarrierPhaseNext ==
  ASSUME Barrier!BarrierAssumption, BarrierInv, NEW t \in Threads,
         Barrier!Step(t) \/ Barrier!Interrupted(t)
  PROVE  BarrierTypes' /\ \A u \in Threads : BarrierPhase(u)'
<1> USE DEF BarrierInv, BarrierTypes, BarrierPhase, Barrier!Goto, Barrier!slot, Barrier!ghost,
            Barrier!BarrierAssumption
<1>1. CASE Barrier!Arrive(t)
  BY <1>1 DEF Barrier!Arrive
<1>2. CASE Barrier!CountIn(t)
  BY <1>2 DEF Barrier!CountIn
<1>3. CASE Barrier!Reset(t)
  BY ZenonT(40), <1>3 DEF Barrier!Reset
<1>4. CASE Barrier!Open(t)
  <2>1. \A u \in Threads : entered[u] = generation_word + 1
    BY ZenonT(40), <1>4 DEF Barrier!Open, BarrierLast
  <2>2. \A u \in Threads \ {t} : pc[u] \in {"test", "wait", "asleep"}
    BY <1>4, <2>1 DEF Barrier!Open, BarrierLast
  <2> QED
    BY <1>4, <2>1, <2>2 DEF Barrier!Open
<1>5. CASE Barrier!Wake(t)
  BY ZenonT(40), <1>5 DEF Barrier!Wake
<1>6. CASE Barrier!Test(t)
  BY SMTT(30), <1>6 DEF Barrier!Test
<1>7. CASE Barrier!Wait(t) \/ Barrier!Woken(t) \/ Barrier!Interrupted(t)
  BY <1>7 DEF Barrier!Wait, Barrier!Woken, Barrier!Interrupted
<1> QED
  BY ZenonT(40), <1>1, <1>2, <1>3, <1>4, <1>5, <1>6, <1>7 DEF Barrier!Step

\* Every step of thread t keeps the count.
LEMMA BarrierLastNext ==
  ASSUME Barrier!BarrierAssumption, BarrierInv, NEW t \in Threads,
         Barrier!Step(t) \/ Barrier!Interrupted(t)
  PROVE  BarrierLast'
<1> DEFINE N == NumberIn(Threads, entered, {generation_word + 1})
<1>1. N \in Nat /\ Cardinality(Threads) \in Nat
  BY Zenon, NumberBound, BarrierFinite
<1>2. CASE Barrier!CountIn(t)
  <2>1. /\ pc[t] = "count" /\ waiting' = waiting + 1 /\ UNCHANGED generation_word
        /\ entered[t] = generation_word /\ entered'[t] = generation_word + 1
        /\ \A u \in Threads \ {t} : entered'[u] = entered[u] /\ pc'[u] = pc[u]
        /\ pc'[t] = (IF waiting + 1 = Cardinality(Threads) THEN "reset" ELSE "test")
        /\ generation_word \in Nat
    BY ZenonT(40), <1>2, BarrierFinite DEF Barrier!CountIn, Barrier!Goto, BarrierInv, BarrierTypes, BarrierPhase
  <2>2. \A u \in Threads : pc[u] \notin {"reset", "open"}
    BY <2>1 DEF BarrierInv, BarrierLast
  <2>3. waiting = N
    BY Zenon, <2>2 DEF BarrierInv, BarrierLast
  <2>4. N' = N + 1
    <3>1. entered[t] \notin {generation_word + 1} /\ entered'[t] \in {generation_word + 1}
      BY SMTT(30), <2>1
    <3>2. NumberIn(Threads, entered', {generation_word + 1}) = N + 1
      BY <2>1, <3>1, NumberMove, BarrierFinite
    <3> QED
      BY Zenon, <2>1, <3>2
  <2>5. waiting' = N'
    BY ZenonT(40), <2>1, <2>3, <2>4
  <2>6. N' = Cardinality(Threads) => \A u \in Threads : entered'[u] = generation_word' + 1
    <3>1. NumberIn(Threads, entered', {generation_word' + 1}) = Cardinality(Threads)
            => \A u \in Threads : entered'[u] \in {generation_word' + 1}
      BY Zenon, NumberBound, BarrierFinite
    <3> QED
      BY Zenon, <3>1
  <2>7. pc'[t] = "reset" => \A u \in Threads : entered'[u] = generation_word' + 1
    BY ZenonT(40), <2>1, <2>5, <2>6
  <2> HIDE DEF N
  <2>8. \A u \in Threads : pc'[u] # "open" /\ (pc'[u] = "reset" => u = t)
    BY Zenon, <2>1, <2>2
  <2> QED
    BY Zenon, <2>5, <2>7, <2>8 DEF BarrierLast, N
<1>3. CASE Barrier!Reset(t)
  BY Zenon, <1>3 DEF Barrier!Reset, Barrier!Goto, Barrier!ghost, BarrierInv, BarrierTypes, BarrierLast
<1>4. CASE Barrier!Open(t)
  <2>1. /\ pc[t] = "open" /\ UNCHANGED <<waiting, entered>>
        /\ generation_word' = generation_word + 1
        /\ pc'[t] = "wake" /\ \A u \in Threads \ {t} : pc'[u] = pc[u]
    BY Zenon, <1>4 DEF Barrier!Open, Barrier!Goto, Barrier!ghost, BarrierInv, BarrierTypes
  <2>2. /\ waiting = 0
        /\ \A u \in Threads : entered[u] = generation_word + 1
        /\ \A u \in Threads \ {t} : pc[u] \notin {"reset", "open"}
    BY Zenon, <2>1 DEF BarrierInv, BarrierLast
  <2>3. \A u \in Threads : entered'[u] \notin {generation_word' + 1}
    BY <2>1, <2>2 DEF BarrierInv, BarrierTypes
  <2>4. NumberIn(Threads, entered', {generation_word' + 1}) = 0
    BY Zenon, <2>3, NumberBound, BarrierFinite
  <2> QED
    BY Zenon, <2>1, <2>2, <2>4 DEF BarrierLast
<1>5. ASSUME UNCHANGED <<waiting, generation_word, entered>>,
             pc[t] \notin {"reset", "open"}, pc'[t] \notin {"reset", "open"},
             \A u \in Threads \ {t} : pc'[u] = pc[u]
      PROVE  BarrierLast'
  BY Zenon, <1>5 DEF BarrierInv, BarrierLast
<1>6. CASE Barrier!Arrive(t) \/ Barrier!Wake(t) \/ Barrier!Test(t)
  <2> USE DEF Barrier!Arrive, Barrier!Wake, Barrier!Test, Barrier!Goto, Barrier!slot,
              Barrier!ghost, BarrierInv, BarrierTypes
  <2>1. UNCHANGED <<waiting, generation_word, entered>>
    BY Zenon, <1>6
  <2>2. pc[t] \notin {"reset", "open"} /\ pc'[t] \notin {"reset", "open"}
    BY Zenon, <1>6
  <2>3. \A u \in Threads \ {t} : pc'[u] = pc[u]
    BY Zenon, <1>6
  <2> QED
    BY Zenon, <1>5, <2>1, <2>2, <2>3
<1>7. CASE Barrier!Wait(t) \/ Barrier!Woken(t) \/ Barrier!Interrupted(t)
  <2> USE DEF Barrier!Wait, Barrier!Woken, Barrier!Interrupted, Barrier!Goto, Barrier!slot,
              Barrier!ghost, BarrierInv, BarrierTypes
  <2>1. UNCHANGED <<waiting, generation_word, entered>>
    BY Zenon, <1>7
  <2>2. pc[t] \notin {"reset", "open"} /\ pc'[t] \notin {"reset", "open"}
    BY Zenon, <1>7
  <2>3. \A u \in Threads \ {t} : pc'[u] = pc[u]
    BY Zenon, <1>7
  <2> QED
    BY ZenonT(40), <1>5, <2>1, <2>2, <2>3
<1> QED
  BY ZenonT(40), <1>2, <1>3, <1>4, <1>6, <1>7 DEF Barrier!Step

\* pthread_barrier_wait() lets nobody through before everyone has entered
\* the round, for any number of threads and of rounds.
THEOREM BarrierHoldsCorrect ==
  ASSUME Barrier!BarrierAssumption
  PROVE  Barrier!Spec => [](Barrier!TypeOK /\ Barrier!BarrierHolds)
<1>1. Barrier!Init => BarrierInv
  <2> SUFFICES ASSUME Barrier!Init PROVE BarrierInv
    OBVIOUS
  <2>1. BarrierTypes /\ \A t \in Threads : BarrierPhase(t)
    BY DEF Barrier!Init, BarrierTypes, BarrierPhase, Barrier!BarrierAssumption
  <2>2. NumberIn(Threads, entered, {generation_word + 1}) = 0
    BY NumberBound, BarrierFinite DEF Barrier!Init
  <2> QED
    BY Zenon, <2>1, <2>2 DEF Barrier!Init, BarrierInv, BarrierLast
<1>2. BarrierInv /\ [Barrier!Next]_Barrier!vars => BarrierInv'
  <2> SUFFICES ASSUME BarrierInv, [Barrier!Next]_Barrier!vars PROVE BarrierInv'
    OBVIOUS
  <2>1. CASE Barrier!Next
    BY Zenon, <2>1, BarrierPhaseNext, BarrierLastNext DEF Barrier!Next, BarrierInv
  <2>2. CASE UNCHANGED Barrier!vars
    BY Zenon, <2>2 DEF Barrier!vars, Barrier!slot, Barrier!ghost, BarrierInv, BarrierTypes, BarrierPhase,
                BarrierLast
  <2> QED
    BY Zenon, <2>1, <2>2
<1>3. BarrierInv => Barrier!TypeOK /\ Barrier!BarrierHolds
  <2> SUFFICES ASSUME BarrierInv PROVE Barrier!TypeOK /\ Barrier!BarrierHolds
    OBVIOUS
  <2>1. waiting \in 0..Cardinality(Threads)
    BY NumberBound, BarrierFinite DEF BarrierInv, BarrierTypes, BarrierLast
  <2>2. \A t \in Threads : /\ done[t] <= generation_word
                           /\ generation_word <= entered[t] /\ entered[t] <= Rounds
                           /\ generation[t] <= generation_word
    BY DEF BarrierInv, BarrierTypes, BarrierPhase
  <2> QED
    BY <2>1, <2>2, BarrierFinite
    DEF BarrierInv, BarrierTypes, Barrier!TypeOK, Barrier!BarrierHolds
<1> QED
  BY <1>1, <1>2, <1>3, PTL DEF Barrier!Spec

-----------------------------------------------------------------------------
\* The read/write lock.  The labels of a writer inside, of a writer counted
\* in waiting_writers, and of a call that has not unlocked yet.
WriterIn == {"write_in", "writing"}
Announced == {"write", "write_in", "write_out", "load_sequence", "wait", "asleep"}
ReadLabels == {"read", "read_check", "read_enter", "reading"}
InCall == ReadLabels \cup Announced \cup {"writing"}

RwTypes ==
  /\ state \in Int /\ sequence \in Nat /\ unlocks \in Nat
  /\ writer \in Threads \cup {NoThread}
  /\ pc \in [Threads -> InCall \cup {"user", "unlock_bump", "unlock_wake"}]
  /\ saw \in [Threads -> Int]
  /\ \A t \in Threads :
       /\ pc[t] \in ReadLabels => t \in Readers
       /\ pc[t] \in {"write", "write_in", "write_out", "writing"} => t \notin Readers
       /\ pc[t] \in {"read_check", "read_enter"} => saw[t] >= 0

\* state tells who is inside; waiting_writers counts the announced writers;
\* and what the bound on the unlocks leaves room for.
RwCounts ==
  /\ \/ /\ NumberIn(Threads, pc, WriterIn) = 0
        /\ state = NumberIn(Threads, pc, {"reading"})
     \/ /\ NumberIn(Threads, pc, WriterIn) = 1
        /\ NumberIn(Threads, pc, {"reading"}) = 0
        /\ state = -1
  /\ waiting_writers = NumberIn(Threads \ Readers, pc, Announced)
  /\ sequence + NumberIn(Threads, pc, {"unlock_bump"}) <= unlocks
  /\ unlocks + NumberIn(Threads, pc, InCall) <= MaxUnlocks + Cardinality(Threads)

RwInv == RwTypes /\ RwCounts

\* Finite sets and their cardinality mean the same in the instance.
LEMMA RwFinite ==
  ASSUME Rwlock!RwlockAssumption
  PROVE  /\ IsFiniteSet(Threads) /\ IsFiniteSet(Readers) /\ IsFiniteSet(Threads \ Readers)
         /\ Readers \subseteq Threads /\ MaxUnlocks \in Nat
         /\ Cardinality(Threads) \in Nat
         /\ \A S : Rwlock!Cardinality(S) = Cardinality(S)
<1>1. \A S : Rwlock!IsFiniteSet(S) <=> IsFiniteSet(S)
  BY Zenon DEF Rwlock!IsFiniteSet, IsFiniteSet
<1>2. \A S : Rwlock!Cardinality(S) = Cardinality(S)
  BY Zenon DEF Rwlock!Cardinality, Cardinality
<1>3. Threads \ Readers \subseteq Threads
  OBVIOUS
<1> QED
  BY ZenonT(40), <1>1, <1>2, <1>3, FS_CardinalityType, FS_Subset DEF Rwlock!RwlockAssumption

\* Every step of thread t keeps the types.
LEMMA RwTypesNext ==
  ASSUME Rwlock!RwlockAssumption, RwInv, Rwlock!Next
  PROVE  RwTypes'
<1> PICK t \in Threads :
      \/ Rwlock!ReadLoad(t) \/ Rwlock!ReadCheck(t) \/ Rwlock!ReadEnter(t)
      \/ Rwlock!WriteAnnounce(t) \/ Rwlock!WriteEnter(t) \/ Rwlock!WriteIn(t)
      \/ Rwlock!WriteOut(t) \/ Rwlock!LoadSequence(t) \/ Rwlock!Wait(t) \/ Rwlock!Woken(t)
      \/ Rwlock!Interrupted(t) \/ Rwlock!Timeout(t)
      \/ Rwlock!Unlock(t) \/ Rwlock!UnlockBump(t) \/ Rwlock!UnlockWake(t)
  BY ZenonT(40) DEF Rwlock!Next
<1> USE DEF RwInv, RwTypes, InCall, ReadLabels, Announced, Rwlock!Goto, Rwlock!slot, Rwlock!Writers,
            Rwlock!Again
<1>1. CASE Rwlock!ReadLoad(t) \/ Rwlock!ReadCheck(t)
  BY SMTT(30), <1>1 DEF Rwlock!ReadLoad, Rwlock!ReadCheck
<1>2. CASE Rwlock!ReadEnter(t)
  BY SMTT(30), <1>2 DEF Rwlock!ReadEnter
<1>3. CASE Rwlock!WriteAnnounce(t) \/ Rwlock!WriteEnter(t)
  BY <1>3 DEF Rwlock!WriteAnnounce, Rwlock!WriteEnter
<1>4. CASE Rwlock!WriteIn(t) \/ Rwlock!WriteOut(t)
  BY ZenonT(40), <1>4 DEF Rwlock!WriteIn, Rwlock!WriteOut
<1>5. CASE Rwlock!LoadSequence(t) \/ Rwlock!Wait(t) \/ Rwlock!Woken(t)
  BY <1>5 DEF Rwlock!LoadSequence, Rwlock!Wait, Rwlock!Woken
<1>6. CASE Rwlock!Interrupted(t) \/ Rwlock!Timeout(t)
  BY ZenonT(40), <1>6 DEF Rwlock!Interrupted, Rwlock!Timeout
<1>7. CASE Rwlock!Unlock(t)
  BY SMTT(30), <1>7 DEF Rwlock!Unlock
<1>8. CASE Rwlock!UnlockBump(t) \/ Rwlock!UnlockWake(t)
  BY <1>8 DEF Rwlock!UnlockBump, Rwlock!UnlockWake
<1> QED
  BY ZenonT(40), <1>1, <1>2, <1>3, <1>4, <1>5, <1>6, <1>7, <1>8

\* Every step keeps the counts.
LEMMA RwCountsNext ==
  ASSUME Rwlock!RwlockAssumption, RwInv, Rwlock!Next
  PROVE  RwCounts'
<1> DEFINE R == NumberIn(Threads, pc, {"reading"})
           W == NumberIn(Threads, pc, WriterIn)
           A == NumberIn(Threads \ Readers, pc, Announced)
           B == NumberIn(Threads, pc, {"unlock_bump"})
           C == NumberIn(Threads, pc, InCall)
           One(P) == IF P THEN 1 ELSE 0
<1>1. /\ R \in Nat /\ W \in Nat /\ A \in Nat /\ B \in Nat /\ C \in Nat
      /\ C' \in Nat /\ C' <= Cardinality(Threads) /\ Cardinality(Threads) \in Nat
      /\ R = 0 => \A t \in Threads : pc[t] # "reading"
      /\ W = 0 => \A t \in Threads : pc[t] \notin WriterIn
  <2>1. IsFiniteSet(Threads) /\ IsFiniteSet(Threads \ Readers)
    BY Zenon, RwFinite
  <2>2. /\ R \in Nat /\ Cardinality(Threads) \in Nat
        /\ R = 0 => \A t \in Threads : pc[t] \notin {"reading"}
    BY Zenon, <2>1, NumberBound
  <2>3. W \in Nat /\ (W = 0 => \A t \in Threads : pc[t] \notin WriterIn)
    BY Zenon, <2>1, NumberBound
  <2>4. A \in Nat /\ B \in Nat /\ C \in Nat
    BY ZenonT(40), <2>1, NumberBound
  <2>5. C' \in Nat /\ C' <= Cardinality(Threads)
    BY Zenon, <2>1, NumberBound
  <2> QED
    BY ZenonT(40), <2>2, <2>3, <2>4, <2>5
<1>2. /\ (W = 0 /\ state = R) \/ (W = 1 /\ R = 0 /\ state = -1)
      /\ waiting_writers = A
      /\ sequence + B <= unlocks
      /\ unlocks + C <= MaxUnlocks + Cardinality(Threads)
      /\ unlocks \in Nat /\ sequence \in Nat /\ MaxUnlocks \in Nat
  <2>1. MaxUnlocks \in Nat /\ unlocks \in Nat /\ sequence \in Nat
    BY Zenon, RwFinite DEF RwInv, RwTypes
  <2> QED
    BY Zenon, <2>1 DEF RwInv, RwCounts
<1>3. ASSUME NEW t \in Threads, NEW l, Rwlock!Goto(t, l)
      PROVE  /\ R' = R + One(l = "reading") - One(pc[t] = "reading")
             /\ W' = W + One(l \in WriterIn) - One(pc[t] \in WriterIn)
             /\ A' = A + One(t \notin Readers /\ l \in Announced)
                       - One(t \notin Readers /\ pc[t] \in Announced)
             /\ B' = B + One(l = "unlock_bump") - One(pc[t] = "unlock_bump")
             /\ C' = C + One(l \in InCall) - One(pc[t] \in InCall)
  <2>1. pc'[t] = l /\ \A u \in Threads \ {t} : pc'[u] = pc[u]
    BY Zenon, <1>3 DEF Rwlock!Goto, RwInv, RwTypes
  <2>2. /\ Threads \in SUBSET Threads /\ IsFiniteSet(Threads)
        /\ Threads \ Readers \in SUBSET Threads /\ IsFiniteSet(Threads \ Readers)
    BY Zenon, RwFinite
  <2> HIDE <1>3
  <2>3. ASSUME NEW T \in SUBSET Threads, IsFiniteSet(T), NEW L
        PROVE  NumberIn(T, pc', L)
                 = NumberIn(T, pc, L) + One(t \in T /\ l \in L) - One(t \in T /\ pc[t] \in L)
    <3>1. NumberIn(T, pc', L)
            = NumberIn(T, pc, L) + (IF t \in T /\ pc'[t] \in L THEN 1 ELSE 0)
                                 - (IF t \in T /\ pc[t] \in L THEN 1 ELSE 0)
      BY <2>1, <2>3, NumberStep
    <3> QED
      BY ZenonT(40), <2>1, <3>1
  <2>4. R' = R + One(l = "reading") - One(pc[t] = "reading")
    <3>1. R' = R + One(t \in Threads /\ l \in {"reading"})
                 - One(t \in Threads /\ pc[t] \in {"reading"})
      BY ZenonT(40), <2>2, <2>3
    <3> QED
      BY Zenon, <3>1
  <2>5. W' = W + One(l \in WriterIn) - One(pc[t] \in WriterIn)
    <3>1. W' = W + One(t \in Threads /\ l \in WriterIn)
                 - One(t \in Threads /\ pc[t] \in WriterIn)
      BY Zenon, <2>2, <2>3
    <3> QED
      BY Zenon, <3>1
  <2>6. A' = A + One(t \notin Readers /\ l \in Announced)
               - One(t \notin Readers /\ pc[t] \in Announced)
    <3>1. A' = A + One(t \in Threads \ Readers /\ l \in Announced)
                 - One(t \in Threads \ Readers /\ pc[t] \in Announced)
      BY Zenon, <2>2, <2>3
    <3> QED
      BY Zenon, <3>1
  <2>7. B' = B + One(l = "unlock_bump") - One(pc[t] = "unlock_bump")
    <3>1. B' = B + One(t \in Threads /\ l \in {"unlock_bump"})
                 - One(t \in Threads /\ pc[t] \in {"unlock_bump"})
      BY ZenonT(40), <2>2, <2>3
    <3> QED
      BY Zenon, <3>1
  <2>8. C' = C + One(l \in InCall) - One(pc[t] \in InCall)
    <3>1. C' = C + One(t \in Threads /\ l \in InCall) - One(t \in Threads /\ pc[t] \in InCall)
      BY Zenon, <2>2, <2>3
    <3> QED
      BY Zenon, <3>1
  <2> QED
    BY ZenonT(40), <2>4, <2>5, <2>6, <2>7, <2>8
<1> SUFFICES /\ (W' = 0 /\ state' = R') \/ (W' = 1 /\ R' = 0 /\ state' = -1)
             /\ waiting_writers' = A'
             /\ sequence' + B' <= unlocks'
             /\ unlocks' + C' <= MaxUnlocks + Cardinality(Threads)
  BY ZenonT(40) DEF RwCounts
<1> HIDE DEF R, W, A, B, C
<1> PICK t \in Threads :
      \/ Rwlock!ReadLoad(t) \/ Rwlock!ReadCheck(t) \/ Rwlock!ReadEnter(t)
      \/ Rwlock!WriteAnnounce(t) \/ Rwlock!WriteEnter(t) \/ Rwlock!WriteIn(t)
      \/ Rwlock!WriteOut(t) \/ Rwlock!LoadSequence(t) \/ Rwlock!Wait(t) \/ Rwlock!Woken(t)
      \/ Rwlock!Interrupted(t) \/ Rwlock!Timeout(t)
      \/ Rwlock!Unlock(t) \/ Rwlock!UnlockBump(t) \/ Rwlock!UnlockWake(t)
  BY Zenon DEF Rwlock!Next
<1>4. ASSUME NEW l, Rwlock!Goto(t, l), UNCHANGED <<state, sequence, unlocks>>,
             {l, pc[t]} \cap (WriterIn \cup {"reading", "unlock_bump"}) = {},
             pc[t] \in InCall \/ l \notin InCall \/ unlocks < MaxUnlocks,
             waiting_writers' = waiting_writers + One(t \notin Readers /\ l \in Announced)
                                                - One(t \notin Readers /\ pc[t] \in Announced)
      PROVE  /\ (W' = 0 /\ state' = R') \/ (W' = 1 /\ R' = 0 /\ state' = -1)
             /\ waiting_writers' = A'
             /\ sequence' + B' <= unlocks'
             /\ unlocks' + C' <= MaxUnlocks + Cardinality(Threads)
  <2>1. R' = R /\ W' = W /\ B' = B /\ waiting_writers' = A'
    BY SMTT(30), <1>1, <1>2, <1>3, <1>4
  <2>2. C' <= C \/ unlocks < MaxUnlocks
    BY <1>1, <1>3, <1>4
  <2> QED
    BY SMTT(30), <1>1, <1>2, <1>4, <2>1, <2>2
<1> USE DEF Rwlock!slot, Rwlock!Writers, Rwlock!Again
<1>5. CASE Rwlock!ReadLoad(t) \/ Rwlock!ReadCheck(t)
  <2>1. PICK l \in {"read_check", "user", "load_sequence", "read_enter"} : Rwlock!Goto(t, l)
    BY Zenon, <1>5 DEF Rwlock!ReadLoad, Rwlock!ReadCheck
  <2>2. UNCHANGED <<state, sequence, unlocks, waiting_writers>>
    BY Zenon, <1>5 DEF Rwlock!ReadLoad, Rwlock!ReadCheck
  <2>3. /\ pc[t] \in {"user", "read", "read_check"} /\ t \in Readers
        /\ pc[t] = "user" => unlocks < MaxUnlocks
    BY Zenon, <1>5 DEF RwInv, RwTypes, ReadLabels, Rwlock!ReadLoad, Rwlock!ReadCheck
  <2>4. /\ pc[t] \in InCall \/ pc[t] = "user"
        /\ {l, pc[t]} \cap (WriterIn \cup {"reading", "unlock_bump"}) = {}
    BY ZenonT(40), <2>1, <2>3 DEF InCall, ReadLabels, WriterIn
  <2>5. waiting_writers' = waiting_writers + One(t \notin Readers /\ l \in Announced)
                                           - One(t \notin Readers /\ pc[t] \in Announced)
    <3>1. One(t \notin Readers /\ l \in Announced) = 0
          /\ One(t \notin Readers /\ pc[t] \in Announced) = 0
      BY ZenonT(40), <2>3
    <3> HIDE DEF One
    <3> QED
      BY SMTT(30), <1>1, <1>2, <2>2, <3>1
  <2> QED
    BY ZenonT(40), <1>4, <2>1, <2>2, <2>3, <2>4, <2>5
<1>6. CASE Rwlock!ReadEnter(t) /\ state = saw[t]
  <2>1. /\ pc[t] = "read_enter" /\ state' = state + 1 /\ Rwlock!Goto(t, "reading")
        /\ UNCHANGED <<sequence, unlocks, waiting_writers>>
    BY Zenon, <1>6 DEF Rwlock!ReadEnter
  <2>2. state >= 0 /\ t \in Readers
    BY ZenonT(40), <1>6, <2>1 DEF RwInv, RwTypes, ReadLabels
  <2>3. R' = R + 1 /\ W' = W /\ A' = A /\ B' = B /\ C' = C
    BY SMTT(30), <1>1, <1>3, <2>1, <2>2 DEF WriterIn, Announced, InCall, ReadLabels
  <2> QED
    BY SMTT(30), <1>1, <1>2, <2>1, <2>2, <2>3
<1>7. CASE \/ Rwlock!ReadEnter(t) /\ state # saw[t]
           \/ Rwlock!WriteEnter(t) /\ state # 0
           \/ Rwlock!LoadSequence(t) \/ Rwlock!Wait(t)
  <2>1. /\ UNCHANGED <<state, sequence, unlocks, waiting_writers>>
        /\ pc[t] \in {"read_enter", "write", "load_sequence", "wait"}
        /\ pc[t] = "read_enter" => t \in Readers
    BY Zenon, <1>7
    DEF RwInv, RwTypes, ReadLabels, Rwlock!ReadEnter, Rwlock!WriteEnter, Rwlock!LoadSequence, Rwlock!Wait
  <2>2. PICK l \in {"read", "write", "write_out", "load_sequence", "wait", "asleep"} :
          Rwlock!Goto(t, l) /\ (l = "read" => t \in Readers)
    BY ZenonT(40), <1>7, <2>1 DEF Rwlock!ReadEnter, Rwlock!WriteEnter, Rwlock!LoadSequence, Rwlock!Wait
  <2>3. /\ pc[t] \in InCall
        /\ {l, pc[t]} \cap (WriterIn \cup {"reading", "unlock_bump"}) = {}
        /\ t \notin Readers => l \in Announced /\ pc[t] \in Announced
    BY ZenonT(40), <2>1, <2>2 DEF InCall, ReadLabels, WriterIn, Announced
  <2>4. waiting_writers' = waiting_writers + One(t \notin Readers /\ l \in Announced)
                                           - One(t \notin Readers /\ pc[t] \in Announced)
    <3>1. One(t \notin Readers /\ l \in Announced) = One(t \notin Readers /\ pc[t] \in Announced)
          /\ One(t \notin Readers /\ pc[t] \in Announced) \in {0, 1}
      BY ZenonT(40), <2>3
    <3> HIDE DEF One
    <3> QED
      BY SMTT(30), <1>1, <1>2, <2>1, <3>1
  <2> QED
    BY ZenonT(40), <1>4, <2>1, <2>2, <2>3, <2>4
<1>8. CASE Rwlock!Woken(t) \/ Rwlock!Interrupted(t) \/ Rwlock!Timeout(t)
  <2>1. UNCHANGED <<state, sequence, unlocks, waiting_writers>> /\ pc[t] = "asleep"
    BY Zenon, <1>8 DEF Rwlock!Woken, Rwlock!Interrupted, Rwlock!Timeout
  <2>2. PICK l \in {"read", "write", "write_out", "user"} :
          Rwlock!Goto(t, l) /\ (l \in {"read", "user"} => t \in Readers)
    BY Zenon, <1>8 DEF Rwlock!Woken, Rwlock!Interrupted, Rwlock!Timeout
  <2>3. /\ pc[t] \in InCall
        /\ {l, pc[t]} \cap (WriterIn \cup {"reading", "unlock_bump"}) = {}
        /\ t \notin Readers => l \in Announced /\ pc[t] \in Announced
    BY ZenonT(40), <2>1, <2>2 DEF InCall, ReadLabels, WriterIn, Announced
  <2>4. waiting_writers' = waiting_writers + One(t \notin Readers /\ l \in Announced)
                                           - One(t \notin Readers /\ pc[t] \in Announced)
    <3>1. One(t \notin Readers /\ l \in Announced) = One(t \notin Readers /\ pc[t] \in Announced)
          /\ One(t \notin Readers /\ pc[t] \in Announced) \in {0, 1}
      BY ZenonT(40), <2>3
    <3> HIDE DEF One
    <3> QED
      BY SMTT(30), <1>1, <1>2, <2>1, <3>1
  <2> QED
    BY ZenonT(40), <1>4, <2>1, <2>2, <2>3, <2>4
<1>9. CASE Rwlock!WriteAnnounce(t)
  <2>1. /\ pc[t] = "user" /\ t \notin Readers /\ unlocks < MaxUnlocks
        /\ waiting_writers' = waiting_writers + 1 /\ Rwlock!Goto(t, "write")
        /\ UNCHANGED <<state, sequence, unlocks>>
    BY ZenonT(40), <1>9 DEF Rwlock!WriteAnnounce
  <2>2. R' = R /\ W' = W /\ A' = A + 1 /\ B' = B
    BY SMTT(30), <1>1, <1>3, <2>1 DEF WriterIn, Announced
  <2> QED
    BY SMTT(30), <1>1, <1>2, <2>1, <2>2
<1>10. CASE Rwlock!WriteEnter(t) /\ state = 0
  <2>1. /\ pc[t] = "write" /\ state' = -1 /\ Rwlock!Goto(t, "write_in")
        /\ UNCHANGED <<sequence, unlocks, waiting_writers>>
    BY ZenonT(40), <1>10 DEF Rwlock!WriteEnter
  <2>2. R' = R /\ W' = W + 1 /\ A' = A /\ B' = B /\ C' = C
    BY SMTT(30), <1>1, <1>3, <2>1 DEF WriterIn, Announced, InCall
  <2> QED
    BY SMTT(30), <1>1, <1>2, <1>10, <2>1, <2>2
<1>11. CASE Rwlock!WriteIn(t)
  <2>1. /\ pc[t] = "write_in" /\ t \notin Readers /\ Rwlock!Goto(t, "writing")
        /\ waiting_writers' = waiting_writers - 1 /\ UNCHANGED <<state, sequence, unlocks>>
    BY ZenonT(40), <1>11 DEF Rwlock!WriteIn, RwInv, RwTypes
  <2>2. R' = R /\ W' = W /\ A' = A - 1 /\ B' = B /\ C' = C
    BY SMTT(30), <1>1, <1>3, <2>1 DEF WriterIn, Announced, InCall
  <2> QED
    BY ZenonT(40), <1>1, <1>2, <2>1, <2>2
<1>12. CASE Rwlock!WriteOut(t)
  <2>1. /\ pc[t] = "write_out" /\ t \notin Readers /\ Rwlock!Goto(t, "user")
        /\ waiting_writers' = waiting_writers - 1 /\ UNCHANGED <<state, sequence, unlocks>>
    BY ZenonT(40), <1>12 DEF Rwlock!WriteOut, RwInv, RwTypes
  <2>2. R' = R /\ W' = W /\ A' = A - 1 /\ B' = B /\ C' = C - 1
    BY SMTT(30), <1>1, <1>3, <2>1 DEF WriterIn, Announced, InCall, ReadLabels
  <2> QED
    BY SMTT(30), <1>1, <1>2, <2>1, <2>2
<1>13. CASE Rwlock!Unlock(t)
  <2>1. /\ pc[t] \in {"reading", "writing"} /\ Rwlock!Goto(t, "unlock_bump")
        /\ unlocks' = unlocks + 1 /\ UNCHANGED <<sequence, waiting_writers>>
        /\ state' = IF state = -1 THEN 0 ELSE state - 1
    BY ZenonT(40), <1>13 DEF Rwlock!Unlock
  <2>2. A' = A /\ B' = B + 1 /\ C' = C - 1
    BY SMTT(30), <1>1, <1>3, <2>1 DEF Announced, InCall, ReadLabels
  <2>3. CASE pc[t] = "reading"
    <3>1. R' = R - 1 /\ W' = W /\ R # 0
      BY SMTT(30), <1>1, <1>3, <2>1, <2>3 DEF WriterIn
    <3> QED
      BY SMTT(30), <1>1, <1>2, <2>1, <2>2, <3>1
  <2>4. CASE pc[t] = "writing"
    <3>1. pc[t] \in WriterIn /\ "unlock_bump" \notin WriterIn
      BY ZenonT(40), <2>4 DEF WriterIn
    <3>2. R' = R /\ W' = W - 1 /\ W # 0
      BY SMTT(30), <1>1, <1>3, <2>1, <2>4, <3>1
    <3>3. W = 1 /\ R = 0 /\ state = -1
      BY ZenonT(40), <1>2, <3>2
    <3> QED
      BY SMTT(30), <1>1, <1>2, <2>1, <2>2, <3>2, <3>3
  <2> QED
    BY ZenonT(40), <2>1, <2>3, <2>4
<1>14. CASE Rwlock!UnlockBump(t)
  <2>1. /\ pc[t] = "unlock_bump" /\ Rwlock!Goto(t, "unlock_wake")
        /\ sequence' = sequence + 1 /\ UNCHANGED <<state, unlocks, waiting_writers>>
    BY ZenonT(40), <1>14 DEF Rwlock!UnlockBump
  <2>2. R' = R /\ W' = W /\ A' = A /\ B' = B - 1 /\ C' = C
    BY SMTT(30), <1>1, <1>3, <2>1 DEF WriterIn, Announced, InCall, ReadLabels
  <2> QED
    BY SMTT(30), <1>1, <1>2, <2>1, <2>2
<1>15. CASE Rwlock!UnlockWake(t)
  <2>1. /\ pc[t] = "unlock_wake" /\ Rwlock!Goto(t, "user")
        /\ UNCHANGED <<state, sequence, unlocks, waiting_writers>>
    BY ZenonT(40), <1>15 DEF Rwlock!UnlockWake
  <2>2. R' = R /\ W' = W /\ A' = A /\ B' = B /\ C' = C
    BY SMTT(30), <1>1, <1>3, <2>1 DEF WriterIn, Announced, InCall, ReadLabels
  <2> QED
    BY ZenonT(40), <1>1, <1>2, <2>1, <2>2
<1> QED
  BY ZenonT(40), <1>5, <1>6, <1>7, <1>8, <1>9, <1>10, <1>11, <1>12, <1>13, <1>14, <1>15

\* The invariant says what the three properties say.
LEMMA RwInvImplies ==
  ASSUME Rwlock!RwlockAssumption, RwInv
  PROVE  Rwlock!TypeOK /\ Rwlock!RwExclusion /\ Rwlock!WaitingWritersExact
<1>1. /\ NumberIn(Threads, pc, {"reading"}) = Cardinality(Rwlock!Reading)
      /\ NumberIn(Threads, pc, WriterIn) = Cardinality(Rwlock!Writing)
      /\ NumberIn(Threads \ Readers, pc, Announced)
           = Cardinality({t \in Threads \ Readers : pc[t] \in Announced})
  <2>1. {t \in Threads : pc[t] \in {"reading"}} = Rwlock!Reading
    BY Zenon DEF Rwlock!Reading
  <2>2. {t \in Threads : pc[t] \in WriterIn} = Rwlock!Writing
    BY Zenon DEF Rwlock!Writing, WriterIn
  <2> QED
    BY Zenon, <2>1, <2>2 DEF NumberIn
<1>2. /\ IsFiniteSet(Rwlock!Reading) /\ IsFiniteSet(Rwlock!Writing)
      /\ Rwlock!Reading \subseteq Readers
  <2>1. Rwlock!Reading \subseteq Threads /\ Rwlock!Writing \subseteq Threads
    BY Zenon DEF Rwlock!Reading, Rwlock!Writing
  <2>2. Rwlock!Reading \subseteq Readers
    BY Zenon DEF Rwlock!Reading, RwInv, RwTypes, ReadLabels
  <2> QED
    BY ZenonT(40), <2>1, <2>2, RwFinite, FS_Subset
<1>3. /\ Cardinality(Rwlock!Reading) \in Nat /\ Cardinality(Rwlock!Writing) \in Nat
      /\ Cardinality(Rwlock!Reading) = 0 <=> Rwlock!Reading = {}
      /\ Cardinality(Rwlock!Writing) = 0 <=> Rwlock!Writing = {}
  BY ZenonT(40), <1>2, FS_CardinalityType, FS_EmptySet
<1>4. Rwlock!RwExclusion
  BY <1>1, <1>3, RwFinite DEF Rwlock!RwExclusion, RwInv, RwCounts
<1>5. Rwlock!WaitingWritersExact
  BY ZenonT(40), <1>1, RwFinite DEF Rwlock!WaitingWritersExact, Rwlock!Writers, RwInv, RwCounts, Announced
<1>6. state \in -1..Cardinality(Readers)
  <2>1. Cardinality(Rwlock!Reading) <= Cardinality(Readers) /\ Cardinality(Readers) \in Nat
    BY ZenonT(40), <1>2, RwFinite, FS_Subset, FS_CardinalityType
  <2> QED
    BY SMTT(30), <1>1, <1>3, <2>1 DEF RwInv, RwCounts
<1>7. sequence \in 0..(MaxUnlocks + Cardinality(Threads))
  <2>1. /\ NumberIn(Threads, pc, {"unlock_bump"}) \in Nat
        /\ NumberIn(Threads, pc, InCall) \in Nat
    BY ZenonT(40), RwFinite, NumberBound
  <2> QED
    BY <2>1, RwFinite DEF RwInv, RwTypes, RwCounts
<1>8. waiting_writers \in 0..Cardinality(Threads \ Readers)
  BY RwFinite, NumberBound DEF RwInv, RwCounts
<1>9. Rwlock!TypeOK
  BY ZenonT(40), <1>6, <1>7, <1>8, RwFinite
  DEF Rwlock!TypeOK, Rwlock!Writers, RwInv, RwTypes, InCall, ReadLabels, Announced
<1> QED
  BY ZenonT(40), <1>4, <1>5, <1>9

\* For any number of readers and writers, with or without deadlines: a writer
\* inside excludes everyone, state counts who is inside, and waiting_writers
\* the writers that readers stand back for.
THEOREM RwExclusionCorrect ==
  ASSUME Rwlock!RwlockAssumption
  PROVE  Rwlock!Spec =>
           [](Rwlock!TypeOK /\ Rwlock!RwExclusion /\ Rwlock!WaitingWritersExact)
<1>1. Rwlock!Init => RwInv
  <2> SUFFICES ASSUME Rwlock!Init PROVE RwInv
    OBVIOUS
  <2>1. RwTypes
    BY DEF Rwlock!Init, RwTypes, ReadLabels
  <2>2. \A t \in Threads : pc[t] = "user"
    BY ZenonT(40) DEF Rwlock!Init
  <2>3. /\ NumberIn(Threads, pc, WriterIn) = 0 /\ NumberIn(Threads, pc, {"reading"}) = 0
        /\ NumberIn(Threads \ Readers, pc, Announced) = 0
        /\ NumberIn(Threads, pc, {"unlock_bump"}) = 0 /\ NumberIn(Threads, pc, InCall) = 0
    BY SMTT(30), <2>2, RwFinite, NumberBound DEF WriterIn, Announced, InCall, ReadLabels
  <2>4. RwCounts
    BY SMTT(30), <2>3, RwFinite DEF Rwlock!Init, RwCounts
  <2> QED
    BY ZenonT(40), <2>1, <2>4 DEF RwInv
<1>2. RwInv /\ [Rwlock!Next]_Rwlock!vars => RwInv'
  <2> SUFFICES ASSUME RwInv, [Rwlock!Next]_Rwlock!vars PROVE RwInv'
    OBVIOUS
  <2>1. CASE Rwlock!Next
    BY ZenonT(40), <2>1, RwTypesNext, RwCountsNext DEF RwInv
  <2>2. CASE UNCHANGED Rwlock!vars
    BY Zenon, <2>2 DEF Rwlock!vars, Rwlock!slot, RwInv, RwTypes, RwCounts
  <2> QED
    BY Zenon, <2>1, <2>2
<1>3. RwInv => Rwlock!TypeOK /\ Rwlock!RwExclusion /\ Rwlock!WaitingWritersExact
  BY Zenon, RwInvImplies
<1> QED
  BY <1>1, <1>2, <1>3, PTL DEF Rwlock!Spec
=============================================================================

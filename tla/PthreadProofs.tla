--------------------------- MODULE PthreadProofs ---------------------------
(***************************************************************************)
(* The mutex of PthreadMutex excludes, strands no sleeper and keeps its    *)
(* robust state, for any number of threads, any type and any recursion     *)
(* limit.  The condition variable of PthreadCond loses no wake-up, for any *)
(* number of producers and consumers.  The threads of PthreadThread free   *)
(* every control block once and under nobody's feet, and wake every        *)
(* joiner, for any number of threads and any size of the table.            *)
(***************************************************************************)
EXTENDS PthreadCond, FiniteSetTheorems, TLAPS

-----------------------------------------------------------------------------
(* The threads of PthreadThread.                                           *)
CONSTANTS Children, Attrs, TableSize, Cancelled
VARIABLES thread_table, known, detached, joined, finished, alive_tid, freed, destroys, control

Thread == INSTANCE PthreadThread

(* The inductive invariant: where threads may be, who holds which block    *)
(* there, and what the words of a block say about its thread.              *)
ThreadLabels == {"unborn", "user", "create", "create destroy", "detach", "detach destroy",
                 "destroy", "clone", "store tid", "join finished", "join alive", "join remove",
                 "exit", "exit wake", "thread_exit", "thread_exit wake", "gone"}

\* Where a thread uses a control block that is in the table, and where it is
\* about to free the one it took out.
Using == {"clone", "store tid", "join finished", "join alive", "join remove"}
Freeing == {"create destroy", "detach destroy", "destroy"}

\* The types, and that only created threads exit.
ThreadPlaces ==
  /\ thread_table \subseteq Children /\ known \subseteq Children
  /\ detached \subseteq Children /\ joined \subseteq Children
  /\ finished \subseteq Children /\ alive_tid \subseteq Children /\ freed \subseteq Children
  /\ pc \in [Threads -> ThreadLabels]
  /\ control \in [Threads -> Children \cup {Thread!NoControl}]
  /\ destroys \in [Children -> Nat]
  /\ futex_wait_address = [t \in Threads |-> futex_wait_address[t]]
  /\ \A t \in Threads \ Children :
       pc[t] \notin {"unborn", "exit", "exit wake", "thread_exit", "thread_exit wake", "gone"}

\* A block has one holder at a time.
HeldWhere == \A t \in Threads : pc[t] \in Using \cup Freeing <=> control[t] # Thread!NoControl
OneHolder ==
  \A t, u \in Threads : control[t] = control[u] /\ control[t] # Thread!NoControl => t = u

\* It is in the table as long as it is used, and its thread is gone, or was
\* never there, when somebody is about to free it.
UsedInTable == \A t \in Threads : pc[t] \in Using => control[t] \in thread_table
FreeingUnused ==
  \A t \in Threads : pc[t] \in Freeing => control[t] \notin thread_table \cup alive_tid

\* A freed block is freed once, for good, and nobody's.
FreedOnce ==
  /\ freed \cap (thread_table \cup alive_tid) = {}
  /\ \A t \in Threads : control[t] \notin freed
  /\ \A c \in Children : destroys[c] = IF c \in freed THEN 1 ELSE 0

\* What the words of a control block say about its thread.
AliveWord == \A c \in Children : c \in alive_tid <=> Thread!OnItsStack(c)
FinishedWord ==
  \A c \in Children : c \in finished <=>
    pc[c] \in {"exit wake", "thread_exit", "thread_exit wake", "gone"}
Marks ==
  /\ known \subseteq alive_tid \cup finished
  /\ detached \subseteq known /\ joined \subseteq known /\ detached \cap joined = {}

\* A creator's block is unknown to others until its tid is stored; a
\* joiner's block is marked joined, and its thread is as far as the loops say.
HoldersKnow ==
  \A t \in Threads :
    /\ pc[t] = "clone" => control[t] \notin alive_tid \cup finished
    /\ pc[t] = "store tid" => control[t] \in alive_tid \cup finished
    /\ pc[t] \in {"clone", "store tid"} => control[t] \notin known
    /\ pc[t] \in {"join finished", "join alive", "join remove"} => control[t] \in joined
    /\ pc[t] \in {"join alive", "join remove"} => control[t] \in finished
    /\ pc[t] = "join remove" => control[t] \notin alive_tid

\* Who sleeps does so in a join, on a word of the block it holds.
JoinersAsleep ==
  \A t \in Threads : Thread!Asleep(t) =>
    \/ pc[t] = "join finished" /\ futex_wait_address[t] = <<"finished", control[t]>>
    \/ pc[t] = "join alive" /\ futex_wait_address[t] = <<"alive", control[t]>>

ThreadInv ==
  /\ ThreadPlaces /\ HeldWhere /\ OneHolder /\ UsedInTable /\ FreeingUnused /\ FreedOnce
  /\ AliveWord /\ FinishedWord /\ Marks /\ HoldersKnow /\ JoinersAsleep /\ Thread!JoinerWoken

\* What the proofs of threads assume: no thread is created detached.
OnlyJoinable == Thread!ThreadAssumption /\ Attrs \subseteq {"joinable"}

\* Before the first pthread_create there is no control block.
LEMMA ThreadInit == ASSUME OnlyJoinable PROVE Thread!Init => ThreadInv
<1> SUFFICES ASSUME Thread!Init PROVE ThreadInv
  OBVIOUS
<1> USE DEF Thread!Init, Thread!FutexInit, OnlyJoinable, Thread!ThreadAssumption, Thread!NoControl
<1>1. ThreadPlaces
  BY Zenon DEF ThreadPlaces, ThreadLabels
<1>2. HeldWhere /\ OneHolder /\ UsedInTable /\ FreeingUnused
  BY Zenon DEF HeldWhere, OneHolder, UsedInTable, FreeingUnused, Using, Freeing
<1>3. FreedOnce /\ AliveWord /\ FinishedWord /\ Marks
  BY Zenon DEF FreedOnce, AliveWord, FinishedWord, Marks, Thread!OnItsStack
<1>4. HoldersKnow
  BY Zenon DEF HoldersKnow
<1>5. JoinersAsleep /\ Thread!JoinerWoken
  BY Zenon DEF JoinersAsleep, Thread!JoinerWoken, Thread!Asleep
<1> QED
  BY <1>1, <1>2, <1>3, <1>4, <1>5, ZenonT(40) DEF ThreadInv

\* The words of the blocks have addresses of their own.
LEMMA AddressesDiffer ==
  ASSUME NEW c, NEW d
  PROVE  /\ <<"finished", c>> = <<"finished", d>> => c = d
         /\ <<"alive", c>> = <<"alive", d>> => c = d
         /\ <<"finished", c>> # <<"alive", d>>
OBVIOUS

\* The first free of a block is counted as one.
LEMMA OneMore ==
  ASSUME NEW n, n = 0
  PROVE  n + 1 = 1 /\ 1 # 0
OBVIOUS

\* The instance counts as this module does.
LEMMA SameCount ==
  ASSUME NEW S
  PROVE  Thread!Cardinality(S) = Cardinality(S) /\ (Thread!IsFiniteSet(S) <=> IsFiniteSet(S))
BY Zenon DEF Thread!Cardinality, Cardinality, Thread!IsFiniteSet, IsFiniteSet

\* There is a thread.
LEMMA SomeThreads ==
  ASSUME OnlyJoinable, NEW t \in Threads
  PROVE  Thread!Cardinality(Threads) # 0
<1>1. IsFiniteSet(Threads)
  BY SameCount, Zenon DEF OnlyJoinable, Thread!ThreadAssumption
<1> QED
  BY <1>1, SameCount, FS_EmptySet, Zenon

\* FUTEX_WAKE of an address on which at most one thread sleeps leaves no
\* thread asleep there, however few it may wake.
LEMMA LoneSleeperWoken ==
  ASSUME NEW a, NEW max, max # 0, Thread!FutexWake(a, max),
         \A u, w \in Threads : futex_wait_address[u] = a /\ futex_wait_address[w] = a => u = w
  PROVE  futex_wait_address' = [u \in Threads |->
           IF futex_wait_address[u] = a THEN NoAddr ELSE futex_wait_address[u]]
<1>1. PICK S \in SUBSET Thread!Sleepers(a) :
        /\ Thread!Cardinality(S) = max \/ S = Thread!Sleepers(a)
        /\ futex_wait_address' = [u \in Threads |->
             IF u \in S THEN NoAddr ELSE futex_wait_address[u]]
  BY Zenon DEF Thread!FutexWake
<1>2. S # {} \/ S = Thread!Sleepers(a)
  BY <1>1, SameCount, FS_EmptySet, Zenon
<1>3. S = Thread!Sleepers(a)
  BY <1>1, <1>2, Zenon DEF Thread!Sleepers
<1> QED
  BY <1>1, <1>3, Zenon DEF Thread!Sleepers

\* Who sleeps on a word of a block is in the loop that tests it, and holds
\* the block.
LEMMA SleepsOn ==
  ASSUME OnlyJoinable, ThreadInv, NEW u \in Threads, NEW c \in Children
  PROVE  /\ futex_wait_address[u] = <<"finished", c>> => pc[u] = "join finished" /\ control[u] = c
         /\ futex_wait_address[u] = <<"alive", c>> => pc[u] = "join alive" /\ control[u] = c
<1>1. futex_wait_address[u] \in {<<"finished", c>>, <<"alive", c>>} => Thread!Asleep(u)
  BY Zenon DEF OnlyJoinable, Thread!ThreadAssumption, Thread!Asleep
<1>2. Thread!Asleep(u) =>
        \/ pc[u] = "join finished" /\ futex_wait_address[u] = <<"finished", control[u]>>
        \/ pc[u] = "join alive" /\ futex_wait_address[u] = <<"alive", control[u]>>
  BY Zenon DEF ThreadInv, JoinersAsleep
<1> QED
  BY <1>1, <1>2, AddressesDiffer, ZenonT(40)

\* Nobody holds a block that can be looked up and is not being joined: its
\* creator has let go of it, and no joiner has it.
LEMMA NotHeld ==
  ASSUME OnlyJoinable, ThreadInv, NEW c \in Children, c \in thread_table \cap known, c \notin joined
  PROVE  \A u \in Threads : control[u] # c
<1> SUFFICES ASSUME NEW u \in Threads, control[u] = c
             PROVE  FALSE
  OBVIOUS
<1>1. pc[u] \in Using \cup Freeing
  BY Zenon DEF OnlyJoinable, Thread!ThreadAssumption, ThreadInv, HeldWhere
<1>2. pc[u] \notin Freeing
  BY Zenon DEF ThreadInv, FreeingUnused
<1>3. pc[u] \notin {"clone", "store tid"}
  BY Zenon DEF ThreadInv, HoldersKnow
<1>4. pc[u] \notin {"join finished", "join alive", "join remove"}
  BY Zenon DEF ThreadInv, HoldersKnow
<1> QED
  BY <1>1, <1>2, <1>3, <1>4, Zenon DEF Using

\* The reaper takes a detached block out of the table.
LEMMA ReapKeeps ==
  ASSUME OnlyJoinable, ThreadInv, NEW t \in Threads, Thread!Reap(t)
  PROVE  ThreadInv'
<1> USE DEF OnlyJoinable, Thread!ThreadAssumption, Thread!NoControl, ThreadInv, ThreadPlaces
<1>a. PICK c \in Children, l \in {"create destroy", "detach destroy"} :
        /\ c \in thread_table \cap detached \cap finished /\ c \notin alive_tid
        /\ thread_table' = thread_table \ {c}
        /\ pc' = [pc EXCEPT ![t] = l] /\ control' = [control EXCEPT ![t] = c]
  BY Zenon DEF Thread!Reap, Thread!Reapable, Thread!Goto, Thread!Use
<1>b. pc[t] \in {"create", "detach"}
      /\ UNCHANGED <<known, detached, joined, finished, alive_tid, freed, destroys, futex_wait_address>>
  BY Zenon DEF Thread!Reap
<1>c. c \in known /\ c \notin joined
  BY <1>a, Zenon DEF Marks
<1>d. \A u \in Threads : control[u] # c
  BY Zenon, <1>a, <1>c, NotHeld
<1>1. ThreadPlaces'
  BY <1>a, <1>b, <1>d, Zenon DEF ThreadLabels, HeldWhere, Using, Freeing
<1>2. HeldWhere'
  BY <1>a, <1>b, <1>d, Zenon DEF HeldWhere, Using, Freeing
<1>3. OneHolder'
  BY <1>a, <1>b, <1>d, Zenon DEF OneHolder, HeldWhere, Using, Freeing
<1>4. UsedInTable'
  BY <1>a, <1>b, <1>d, Zenon DEF UsedInTable, OneHolder, HeldWhere, Using, Freeing
<1>5. FreeingUnused'
  BY <1>a, <1>b, <1>d, Zenon DEF FreeingUnused, OneHolder, HeldWhere, Using, Freeing
<1>6. FreedOnce'
  BY <1>a, <1>b, <1>d, Zenon DEF FreedOnce, HeldWhere, Using, Freeing
<1>7. AliveWord'
  BY <1>a, <1>b, <1>d, Zenon DEF AliveWord, Thread!OnItsStack, HeldWhere, Using
<1>8. FinishedWord'
  BY <1>a, <1>b, <1>d, Zenon DEF FinishedWord, HeldWhere, Using
<1>9. Marks'
  BY <1>a, <1>b, <1>d, Zenon DEF Marks, HeldWhere, Using
<1>10. HoldersKnow'
  BY <1>a, <1>b, <1>d, Zenon DEF HoldersKnow, HeldWhere, OneHolder, Using
<1>11. JoinersAsleep'
  BY <1>a, <1>b, <1>d, ZenonT(40) DEF JoinersAsleep, Thread!Asleep, HeldWhere, Using
<1>12. Thread!JoinerWoken'
  BY <1>a, <1>b, <1>d, ZenonT(40) DEF Thread!JoinerWoken, HeldWhere, Using
<1> QED
  BY ZenonT(40), <1>1, <1>2, <1>3, <1>4, <1>5, <1>6, <1>7, <1>8, <1>9, <1>10, <1>11, <1>12

\* The block is freed, by the one thread that holds it.
LEMMA Thread_control_destroyKeeps ==
  ASSUME OnlyJoinable, ThreadInv, NEW t \in Threads, Thread!thread_control_destroy(t)
  PROVE  ThreadInv'
<1> USE DEF OnlyJoinable, Thread!ThreadAssumption, Thread!NoControl, ThreadInv, ThreadPlaces
<1> DEFINE c == control[t]
<1>a. PICK l \in {"create", "detach", "user"} :
        pc' = [pc EXCEPT ![t] = l] /\ control' = [control EXCEPT ![t] = Thread!NoControl]
  BY Zenon DEF Thread!thread_control_destroy, Thread!AfterDestroy, Thread!Goto, Thread!Use
<1>b. /\ pc[t] \in {"create destroy", "detach destroy", "destroy"}
      /\ UNCHANGED <<thread_table, known, detached, joined, finished, alive_tid, futex_wait_address>>
  BY Zenon DEF Thread!thread_control_destroy, Thread!AfterDestroy
<1>c. c \in Children /\ c \notin thread_table \cup alive_tid \cup freed /\ destroys[c] = 0
  BY <1>b, Zenon DEF HeldWhere, FreeingUnused, FreedOnce, Freeing
<1>f. freed' = freed \cup {c} /\ destroys' = [destroys EXCEPT ![c] = destroys[c] + 1]
  BY Zenon DEF Thread!thread_control_destroy
<1>g. destroys[c] + 1 = 1
  BY Zenon, <1>c, OneMore
<1>e. freed' = freed \cup {c} /\ destroys' = [destroys EXCEPT ![c] = 1]
  BY Zenon, <1>f, <1>g
<1>d. \A u \in Threads : u # t => control[u] # c
  BY <1>c, Zenon DEF OneHolder
<1> HIDE DEF c
<1>1. ThreadPlaces'
  <2>1. destroys' \in [Children -> Nat]
    BY Zenon, <1>c, <1>e
  <2>2. pc' \in [Threads -> ThreadLabels] /\ control' \in [Threads -> Children \cup {Thread!NoControl}]
    BY <1>a, Zenon DEF ThreadLabels
  <2>3. \A u \in Threads \ Children :
          pc'[u] \notin {"unborn", "exit", "exit wake", "thread_exit", "thread_exit wake", "gone"}
    BY Zenon, <1>a
  <2> QED
    BY ZenonT(40), <1>b, <1>c, <1>e, <2>1, <2>2, <2>3
<1>2. HeldWhere'
  BY <1>a, <1>b, Zenon DEF HeldWhere, Using, Freeing
<1>3. OneHolder'
  BY <1>a, <1>b, ZenonT(40) DEF OneHolder, HeldWhere, Using, Freeing
<1>4. UsedInTable'
  BY <1>a, <1>b, Zenon DEF UsedInTable, OneHolder, HeldWhere, Using, Freeing
<1>5. FreeingUnused'
  BY <1>a, <1>b, ZenonT(40) DEF FreeingUnused, OneHolder, HeldWhere, Using, Freeing
<1>6. FreedOnce'
  <2>1. freed' \cap (thread_table \cup alive_tid)' = {}
    BY <1>b, <1>c, <1>e, ZenonT(40) DEF FreedOnce
  <2>2. \A u \in Threads : control'[u] \notin freed'
    BY <1>a, <1>c, <1>d, <1>e, Zenon DEF FreedOnce
  <2>3. \A d \in Children : destroys'[d] = IF d \in freed' THEN 1 ELSE 0
    <3>1. SUFFICES ASSUME NEW d \in Children
                   PROVE  destroys'[d] = IF d \in freed' THEN 1 ELSE 0
      BY Zenon
    <3>2. CASE d = c
      BY Zenon, <1>c, <1>e, <3>2
    <3>3. CASE d # c
      BY <1>c, <1>e, <3>3, Zenon DEF FreedOnce
    <3> QED
      BY Zenon, <3>2, <3>3
  <2> QED
    BY <2>1, <2>2, <2>3, Zenon DEF FreedOnce
<1>7. AliveWord'
  BY <1>a, <1>b, Zenon DEF AliveWord, Thread!OnItsStack, HeldWhere, Using
<1>8. FinishedWord'
  BY <1>a, <1>b, Zenon DEF FinishedWord, HeldWhere, Using
<1>9. Marks'
  BY <1>a, <1>b, Zenon DEF Marks, HeldWhere, Using
<1>10. HoldersKnow'
  BY <1>a, <1>b, ZenonT(40) DEF HoldersKnow, HeldWhere, OneHolder, Using
<1>11. JoinersAsleep'
  BY <1>a, <1>b, Zenon DEF JoinersAsleep, Thread!Asleep, HeldWhere, Using
<1>12. Thread!JoinerWoken'
  BY <1>a, <1>b, Zenon DEF Thread!JoinerWoken, HeldWhere, Using
<1> QED
  BY ZenonT(40), <1>1, <1>2, <1>3, <1>4, <1>5, <1>6, <1>7, <1>8, <1>9, <1>10, <1>11, <1>12

\* A new block, that nobody knows of yet.
LEMMA InsertKeeps ==
  ASSUME OnlyJoinable, ThreadInv, NEW t \in Threads, Thread!Insert(t)
  PROVE  ThreadInv'
<1> USE DEF OnlyJoinable, Thread!ThreadAssumption, Thread!NoControl, ThreadInv, ThreadPlaces
<1>a. PICK c \in Thread!Fresh, l \in {"clone", "destroy"} :
        /\ pc' = [pc EXCEPT ![t] = l] /\ control' = [control EXCEPT ![t] = c]
        /\ \/ l = "clone" /\ thread_table' = thread_table \cup {c}
           \/ l = "destroy" /\ thread_table' = thread_table
  BY Zenon DEF Thread!Insert, Thread!Goto, Thread!Use
<1>b. /\ pc[t] = "create" /\ detached' = detached
      /\ UNCHANGED <<known, joined, finished, alive_tid, freed, destroys, futex_wait_address>>
  BY Zenon DEF Thread!Insert
<1>c. /\ c \in Children /\ pc[c] = "unborn" /\ c \notin thread_table \cup freed
      /\ \A u \in Threads : control[u] # c
  BY <1>a, Zenon DEF Thread!Fresh
<1>d. c \notin alive_tid \cup finished \cup known
  BY <1>c, Zenon DEF AliveWord, FinishedWord, Marks, Thread!OnItsStack
<1>e. thread_table' \subseteq thread_table \cup {c}
  BY Zenon, <1>a
<1>1. ThreadPlaces'
  BY <1>a, <1>b, <1>c, <1>d, Zenon DEF ThreadLabels, HeldWhere, Using, Freeing
<1>2. HeldWhere'
  BY <1>a, <1>b, <1>c, <1>d, ZenonT(40) DEF HeldWhere, Using, Freeing
<1>3. OneHolder'
  BY <1>a, <1>b, <1>c, <1>d, ZenonT(40) DEF OneHolder, HeldWhere, Using, Freeing
<1>4. UsedInTable'
  BY <1>a, <1>b, <1>c, <1>d, ZenonT(40) DEF UsedInTable, OneHolder, HeldWhere, Using, Freeing
<1>5. FreeingUnused'
  BY <1>a, <1>b, <1>c, <1>d, ZenonT(40) DEF FreeingUnused, OneHolder, HeldWhere, Using, Freeing
<1>6. FreedOnce'
  <2>1. freed' \cap (thread_table \cup alive_tid)' = {}
    BY <1>b, <1>c, <1>e, ZenonT(40) DEF FreedOnce
  <2>2. \A u \in Threads : control'[u] \notin freed'
    BY <1>a, <1>b, <1>c, Zenon DEF FreedOnce
  <2>3. \A d \in Children : destroys'[d] = IF d \in freed' THEN 1 ELSE 0
    BY <1>a, <1>b, Zenon DEF FreedOnce
  <2> QED
    BY <2>1, <2>2, <2>3, Zenon DEF FreedOnce
<1>7. AliveWord'
  BY <1>a, <1>b, <1>c, <1>d, Zenon DEF AliveWord, Thread!OnItsStack, HeldWhere, Using
<1>8. FinishedWord'
  BY <1>a, <1>b, <1>c, <1>d, Zenon DEF FinishedWord, HeldWhere, Using
<1>9. Marks'
  BY <1>a, <1>b, <1>c, <1>d, Zenon DEF Marks, HeldWhere, Using
<1>10. HoldersKnow'
  BY <1>a, <1>b, <1>c, <1>d, Zenon DEF HoldersKnow, HeldWhere, OneHolder, Using
<1>11. JoinersAsleep'
  BY <1>a, <1>b, <1>c, <1>d, ZenonT(40) DEF JoinersAsleep, Thread!Asleep, HeldWhere, Using
<1>12. Thread!JoinerWoken'
  BY <1>a, <1>b, <1>c, <1>d, ZenonT(40) DEF Thread!JoinerWoken, HeldWhere, Using
<1> QED
  BY ZenonT(40), <1>1, <1>2, <1>3, <1>4, <1>5, <1>6, <1>7, <1>8, <1>9, <1>10, <1>11, <1>12

\* The thread is born.
LEMMA CloneKeeps ==
  ASSUME OnlyJoinable, ThreadInv, NEW t \in Threads, Thread!Clone(t)
  PROVE  ThreadInv'
<1> USE DEF OnlyJoinable, Thread!ThreadAssumption, Thread!NoControl, ThreadInv, ThreadPlaces
<1> DEFINE c == control[t]
<1>a. /\ pc[t] = "clone" /\ pc' = [pc EXCEPT ![t] = "store tid", ![c] = "user"]
      /\ alive_tid' = alive_tid \cup {c}
      /\ UNCHANGED <<thread_table, known, detached, joined, finished, freed, destroys, control, futex_wait_address>>
  BY Zenon DEF Thread!Clone
<1>b. c \in Children /\ c \in thread_table /\ c \notin alive_tid \cup finished \cup known \cup freed
  BY <1>a, Zenon DEF HeldWhere, UsedInTable, HoldersKnow, FreedOnce, Using
<1>c. c \in Threads /\ pc[c] = "unborn" /\ c # t
  BY <1>a, <1>b, Zenon DEF AliveWord, FinishedWord, Thread!OnItsStack, ThreadLabels
<1>d. \A u \in Threads : u # t => control[u] # c
  BY <1>b, Zenon DEF OneHolder
<1>e. control[c] = Thread!NoControl /\ ~Thread!Asleep(c)
  BY <1>c, Zenon DEF HeldWhere, Using, Freeing, JoinersAsleep
<1>f. c = control[t]
  BY Zenon
<1> HIDE DEF c
<1>1. ThreadPlaces'
  BY <1>a, <1>b, <1>c, <1>d, <1>e, <1>f, ZenonT(40) DEF ThreadLabels, HeldWhere, Using, Freeing
<1>2. HeldWhere'
  BY <1>a, <1>b, <1>c, <1>d, <1>e, <1>f, ZenonT(40) DEF HeldWhere, Using, Freeing
<1>3. OneHolder'
  BY <1>a, <1>b, <1>c, <1>d, <1>e, <1>f, ZenonT(40) DEF OneHolder, HeldWhere, Using, Freeing
<1>4. UsedInTable'
  BY <1>a, <1>b, <1>c, <1>d, <1>e, <1>f, ZenonT(40) DEF UsedInTable, OneHolder, HeldWhere, Using, Freeing
<1>5. FreeingUnused'
  BY <1>a, <1>b, <1>c, <1>d, <1>e, <1>f, ZenonT(40) DEF FreeingUnused, OneHolder, HeldWhere, Using, Freeing
<1>6. FreedOnce'
  <2>1. freed' \cap (thread_table \cup alive_tid)' = {}
    BY <1>a, <1>b, <1>c, ZenonT(40) DEF FreedOnce
  <2>2. \A u \in Threads : control'[u] \notin freed'
    BY <1>a, <1>b, <1>c, Zenon DEF FreedOnce
  <2>3. \A d \in Children : destroys'[d] = IF d \in freed' THEN 1 ELSE 0
    BY <1>a, <1>b, Zenon DEF FreedOnce
  <2> QED
    BY <2>1, <2>2, <2>3, Zenon DEF FreedOnce
<1>7. AliveWord'
  BY <1>a, <1>b, <1>c, <1>d, <1>e, <1>f, Zenon DEF AliveWord, Thread!OnItsStack, HeldWhere, Using
<1>8. FinishedWord'
  BY <1>a, <1>b, <1>c, <1>d, <1>e, <1>f, Zenon DEF FinishedWord, HeldWhere, Using
<1>9. Marks'
  BY <1>a, <1>b, <1>c, <1>d, <1>e, <1>f, ZenonT(40) DEF Marks, HeldWhere, Using
<1>10. HoldersKnow'
  BY <1>a, <1>b, <1>c, <1>d, <1>e, <1>f, ZenonT(40) DEF HoldersKnow, HeldWhere, OneHolder, Using
<1>11. JoinersAsleep'
  BY <1>a, <1>b, <1>c, <1>d, <1>e, <1>f, ZenonT(40) DEF JoinersAsleep, Thread!Asleep, HeldWhere, Using
<1>12. Thread!JoinerWoken'
  BY <1>a, <1>b, <1>c, <1>d, <1>e, <1>f, ZenonT(40) DEF Thread!JoinerWoken, HeldWhere, Using
<1> QED
  BY ZenonT(40), <1>1, <1>2, <1>3, <1>4, <1>5, <1>6, <1>7, <1>8, <1>9, <1>10, <1>11, <1>12

\* A pass of the first loop of pthread_join().
LEMMA JoinFinishedKeeps ==
  ASSUME OnlyJoinable, ThreadInv, NEW t \in Threads, Thread!JoinFinished(t)
  PROVE  ThreadInv'
<1> USE DEF OnlyJoinable, Thread!ThreadAssumption, Thread!NoControl, ThreadInv, ThreadPlaces
<1> DEFINE c == control[t]
<1>a. /\ pc[t] = "join finished" /\ ~Thread!Asleep(t)
      /\ UNCHANGED <<thread_table, known, detached, joined, finished, alive_tid, freed, destroys,
                     control>>
  BY Zenon DEF Thread!JoinFinished, Thread!WaitFor, Thread!blocks
<1>b. \/ /\ c \in finished /\ pc' = [pc EXCEPT ![t] = "join alive"] /\ UNCHANGED futex_wait_address
      \/ /\ ~(c \in finished) /\ UNCHANGED pc
         /\ futex_wait_address' = [futex_wait_address EXCEPT ![t] = <<"finished", c>>]
  BY Zenon DEF Thread!JoinFinished, Thread!WaitFor, Thread!FutexSleep, Thread!Goto
<1>c. c \in Children /\ c \in Threads
  BY <1>a, ZenonT(40) DEF HeldWhere, Using
<1>d. c = control[t]
  BY Zenon
<1> HIDE DEF c
<1>1. CASE c \in finished /\ pc' = [pc EXCEPT ![t] = "join alive"] /\ UNCHANGED futex_wait_address
  <2>1. ThreadPlaces'
    BY <1>a, <1>c, <1>d, <1>1, Zenon DEF ThreadLabels, HeldWhere, Using, Freeing
  <2>2. HeldWhere'
    BY <1>a, <1>c, <1>d, <1>1, Zenon DEF HeldWhere, Using, Freeing
  <2>3. OneHolder'
    BY <1>a, <1>c, <1>d, <1>1, Zenon DEF OneHolder, HeldWhere, Using, Freeing
  <2>4. UsedInTable'
    BY <1>a, <1>c, <1>d, <1>1, Zenon DEF UsedInTable, OneHolder, HeldWhere, Using, Freeing
  <2>5. FreeingUnused'
    BY <1>a, <1>c, <1>d, <1>1, Zenon DEF FreeingUnused, OneHolder, HeldWhere, Using, Freeing
  <2>6. FreedOnce'
    BY <1>a, <1>c, <1>d, <1>1, Zenon DEF FreedOnce, HeldWhere, Using, Freeing
  <2>7. AliveWord'
    BY <1>a, <1>c, <1>d, <1>1, Zenon DEF AliveWord, Thread!OnItsStack, HeldWhere, Using
  <2>8. FinishedWord'
    BY <1>a, <1>c, <1>d, <1>1, Zenon DEF FinishedWord, HeldWhere, Using
  <2>9. Marks'
    BY <1>a, <1>c, <1>d, <1>1, Zenon DEF Marks, HeldWhere, Using
  <2>10. HoldersKnow'
    BY <1>a, <1>c, <1>d, <1>1, Zenon DEF HoldersKnow, HeldWhere, OneHolder, Using
  <2>11. JoinersAsleep'
    BY <1>a, <1>c, <1>d, <1>1, Zenon DEF JoinersAsleep, Thread!Asleep, HeldWhere, Using
  <2>12. Thread!JoinerWoken'
    BY <1>a, <1>c, <1>d, <1>1, ZenonT(40) DEF Thread!JoinerWoken, HeldWhere, Using
  <2> QED
    BY Zenon, <2>1, <2>2, <2>3, <2>4, <2>5, <2>6, <2>7, <2>8, <2>9, <2>10, <2>11, <2>12
<1>2. CASE /\ ~(c \in finished) /\ UNCHANGED pc
           /\ futex_wait_address' = [futex_wait_address EXCEPT ![t] = <<"finished", c>>]
  <2>a. /\ \A u \in Threads : u # t => futex_wait_address'[u] = futex_wait_address[u]
        /\ futex_wait_address'[t] = <<"finished", c>>
        /\ futex_wait_address' = [u \in Threads |-> futex_wait_address'[u]]
    BY Zenon, <1>2
  <2>1. ThreadPlaces'
    BY Zenon, <1>a, <1>2, <2>a
  <2>2. HeldWhere'
    BY <1>a, <1>2, Zenon DEF HeldWhere
  <2>3. OneHolder'
    BY <1>a, <1>2, Zenon DEF OneHolder
  <2>4. UsedInTable'
    BY <1>a, <1>2, Zenon DEF UsedInTable
  <2>5. FreeingUnused'
    BY <1>a, <1>2, Zenon DEF FreeingUnused
  <2>6. FreedOnce'
    BY <1>a, <1>2, Zenon DEF FreedOnce
  <2>7. AliveWord'
    BY <1>a, <1>2, Zenon DEF AliveWord, Thread!OnItsStack
  <2>8. FinishedWord'
    BY <1>a, <1>2, Zenon DEF FinishedWord
  <2>9. Marks'
    BY <1>a, <1>2, Zenon DEF Marks
  <2>10. HoldersKnow'
    BY <1>a, <1>2, Zenon DEF HoldersKnow
  <2>11. JoinersAsleep'
    BY <1>a, <1>2, <1>d, <2>a, Zenon DEF JoinersAsleep, Thread!Asleep
  <2>12. Thread!JoinerWoken'
    <3>1. SUFFICES ASSUME NEW u \in Threads, NEW d \in Children
                   PROVE  /\ futex_wait_address'[u] = <<"finished", d>> =>
                               pc[d] \notin {"thread_exit", "thread_exit wake", "gone"}
                          /\ futex_wait_address'[u] = <<"alive", d>> => pc[d] # "gone"
      BY <1>2, Zenon DEF Thread!JoinerWoken
    <3>2. CASE u = t
      <4>1. futex_wait_address'[u] = <<"finished", d>> => d = c
        BY Zenon, <2>a, <3>2, AddressesDiffer
      <4>2. futex_wait_address'[u] # <<"alive", d>>
        BY Zenon, <2>a, <3>2, AddressesDiffer
      <4> QED
        BY <1>2, <1>c, <4>1, <4>2, Zenon DEF FinishedWord, AliveWord, Thread!OnItsStack
    <3>3. CASE u # t
      BY <2>a, <3>3, ZenonT(40) DEF Thread!JoinerWoken
    <3> QED
      BY Zenon, <3>2, <3>3
  <2> QED
    BY Zenon, <2>1, <2>2, <2>3, <2>4, <2>5, <2>6, <2>7, <2>8, <2>9, <2>10, <2>11, <2>12
<1> QED
  BY Zenon, <1>b, <1>1, <1>2

\* A pass of its second loop.
LEMMA JoinAliveKeeps ==
  ASSUME OnlyJoinable, ThreadInv, NEW t \in Threads, Thread!JoinAlive(t)
  PROVE  ThreadInv'
<1> USE DEF OnlyJoinable, Thread!ThreadAssumption, Thread!NoControl, ThreadInv, ThreadPlaces
<1> DEFINE c == control[t]
<1>a. /\ pc[t] = "join alive" /\ ~Thread!Asleep(t)
      /\ UNCHANGED <<thread_table, known, detached, joined, finished, alive_tid, freed, destroys,
                     control>>
  BY Zenon DEF Thread!JoinAlive, Thread!WaitFor, Thread!blocks
<1>b. \/ /\ c \notin alive_tid /\ pc' = [pc EXCEPT ![t] = "join remove"] /\ UNCHANGED futex_wait_address
      \/ /\ ~(c \notin alive_tid) /\ UNCHANGED pc
         /\ futex_wait_address' = [futex_wait_address EXCEPT ![t] = <<"alive", c>>]
  BY Zenon DEF Thread!JoinAlive, Thread!WaitFor, Thread!FutexSleep, Thread!Goto
<1>c. c \in Children /\ c \in Threads
  BY <1>a, Zenon DEF HeldWhere, Using
<1>d. c = control[t]
  BY Zenon
<1> HIDE DEF c
<1>1. CASE c \notin alive_tid /\ pc' = [pc EXCEPT ![t] = "join remove"] /\ UNCHANGED futex_wait_address
  <2>1. ThreadPlaces'
    BY <1>a, <1>c, <1>d, <1>1, Zenon DEF ThreadLabels, HeldWhere, Using, Freeing
  <2>2. HeldWhere'
    BY <1>a, <1>c, <1>d, <1>1, Zenon DEF HeldWhere, Using, Freeing
  <2>3. OneHolder'
    BY <1>a, <1>c, <1>d, <1>1, Zenon DEF OneHolder, HeldWhere, Using, Freeing
  <2>4. UsedInTable'
    BY <1>a, <1>c, <1>d, <1>1, Zenon DEF UsedInTable, OneHolder, HeldWhere, Using, Freeing
  <2>5. FreeingUnused'
    BY <1>a, <1>c, <1>d, <1>1, Zenon DEF FreeingUnused, OneHolder, HeldWhere, Using, Freeing
  <2>6. FreedOnce'
    BY <1>a, <1>c, <1>d, <1>1, Zenon DEF FreedOnce, HeldWhere, Using, Freeing
  <2>7. AliveWord'
    BY <1>a, <1>c, <1>d, <1>1, Zenon DEF AliveWord, Thread!OnItsStack, HeldWhere, Using
  <2>8. FinishedWord'
    BY <1>a, <1>c, <1>d, <1>1, Zenon DEF FinishedWord, HeldWhere, Using
  <2>9. Marks'
    BY <1>a, <1>c, <1>d, <1>1, Zenon DEF Marks, HeldWhere, Using
  <2>10. HoldersKnow'
    BY <1>a, <1>c, <1>d, <1>1, Zenon DEF HoldersKnow, HeldWhere, OneHolder, Using
  <2>11. JoinersAsleep'
    BY <1>a, <1>c, <1>d, <1>1, Zenon DEF JoinersAsleep, Thread!Asleep, HeldWhere, Using
  <2>12. Thread!JoinerWoken'
    BY <1>a, <1>c, <1>d, <1>1, ZenonT(40) DEF Thread!JoinerWoken, HeldWhere, Using
  <2> QED
    BY Zenon, <2>1, <2>2, <2>3, <2>4, <2>5, <2>6, <2>7, <2>8, <2>9, <2>10, <2>11, <2>12
<1>2. CASE /\ ~(c \notin alive_tid) /\ UNCHANGED pc
           /\ futex_wait_address' = [futex_wait_address EXCEPT ![t] = <<"alive", c>>]
  <2>a. /\ \A u \in Threads : u # t => futex_wait_address'[u] = futex_wait_address[u]
        /\ futex_wait_address'[t] = <<"alive", c>>
        /\ futex_wait_address' = [u \in Threads |-> futex_wait_address'[u]]
    BY Zenon, <1>2
  <2>1. ThreadPlaces'
    BY Zenon, <1>a, <1>2, <2>a
  <2>2. HeldWhere'
    BY <1>a, <1>2, Zenon DEF HeldWhere
  <2>3. OneHolder'
    BY <1>a, <1>2, Zenon DEF OneHolder
  <2>4. UsedInTable'
    BY <1>a, <1>2, Zenon DEF UsedInTable
  <2>5. FreeingUnused'
    BY <1>a, <1>2, Zenon DEF FreeingUnused
  <2>6. FreedOnce'
    BY <1>a, <1>2, Zenon DEF FreedOnce
  <2>7. AliveWord'
    BY <1>a, <1>2, Zenon DEF AliveWord, Thread!OnItsStack
  <2>8. FinishedWord'
    BY <1>a, <1>2, Zenon DEF FinishedWord
  <2>9. Marks'
    BY <1>a, <1>2, Zenon DEF Marks
  <2>10. HoldersKnow'
    BY <1>a, <1>2, Zenon DEF HoldersKnow
  <2>11. JoinersAsleep'
    BY <1>a, <1>2, <1>d, <2>a, ZenonT(40) DEF JoinersAsleep, Thread!Asleep
  <2>12. Thread!JoinerWoken'
    <3>1. SUFFICES ASSUME NEW u \in Threads, NEW d \in Children
                   PROVE  /\ futex_wait_address'[u] = <<"finished", d>> =>
                               pc[d] \notin {"thread_exit", "thread_exit wake", "gone"}
                          /\ futex_wait_address'[u] = <<"alive", d>> => pc[d] # "gone"
      BY <1>2, Zenon DEF Thread!JoinerWoken
    <3>2. CASE u = t
      <4>1. futex_wait_address'[u] = <<"alive", d>> => d = c
        BY Zenon, <2>a, <3>2, AddressesDiffer
      <4>2. futex_wait_address'[u] # <<"finished", d>>
        BY Zenon, <2>a, <3>2, AddressesDiffer
      <4> QED
        BY <1>2, <1>c, <4>1, <4>2, Zenon DEF FinishedWord, AliveWord, Thread!OnItsStack
    <3>3. CASE u # t
      BY <2>a, <3>3, ZenonT(40) DEF Thread!JoinerWoken
    <3> QED
      BY Zenon, <3>2, <3>3
  <2> QED
    BY Zenon, <2>1, <2>2, <2>3, <2>4, <2>5, <2>6, <2>7, <2>8, <2>9, <2>10, <2>11, <2>12
<1> QED
  BY Zenon, <1>b, <1>1, <1>2

\* From here on others can look the thread up.
LEMMA StoreTidKeeps ==
  ASSUME OnlyJoinable, ThreadInv, NEW t \in Threads, Thread!StoreTid(t)
  PROVE  ThreadInv'
<1> USE DEF OnlyJoinable, Thread!ThreadAssumption, Thread!NoControl, ThreadInv, ThreadPlaces
<1> DEFINE c == control[t]
<1>a. /\ pc[t] = "store tid" /\ pc' = [pc EXCEPT ![t] = "user"]
      /\ control' = [control EXCEPT ![t] = Thread!NoControl] /\ known' = known \cup {c}
      /\ UNCHANGED <<thread_table, detached, joined, finished, alive_tid, freed, destroys, futex_wait_address>>
  BY Zenon DEF Thread!StoreTid, Thread!Goto, Thread!Use
<1>b. c \in Children /\ c \in alive_tid \cup finished
  BY <1>a, Zenon DEF HeldWhere, HoldersKnow, Using
<1>c. \A u \in Threads : u # t => control[u] # c
  BY <1>b, Zenon DEF OneHolder
<1> HIDE DEF c
<1>1. ThreadPlaces'
  BY <1>a, <1>b, <1>c, Zenon DEF ThreadLabels, HeldWhere, Using, Freeing
<1>2. HeldWhere'
  BY <1>a, <1>b, <1>c, ZenonT(40) DEF HeldWhere, Using, Freeing
<1>3. OneHolder'
  BY <1>a, <1>b, <1>c, Zenon DEF OneHolder, HeldWhere, Using, Freeing
<1>4. UsedInTable'
  BY <1>a, <1>b, <1>c, Zenon DEF UsedInTable, OneHolder, HeldWhere, Using, Freeing
<1>5. FreeingUnused'
  BY <1>a, <1>b, <1>c, Zenon DEF FreeingUnused, OneHolder, HeldWhere, Using, Freeing
<1>6. FreedOnce'
  BY <1>a, <1>b, <1>c, Zenon DEF FreedOnce, HeldWhere, Using, Freeing
<1>7. AliveWord'
  BY <1>a, <1>b, <1>c, Zenon DEF AliveWord, Thread!OnItsStack, HeldWhere, Using
<1>8. FinishedWord'
  BY <1>a, <1>b, <1>c, Zenon DEF FinishedWord, HeldWhere, Using
<1>9. Marks'
  BY <1>a, <1>b, <1>c, Zenon DEF Marks, HeldWhere, Using
<1>10. HoldersKnow'
  BY <1>a, <1>b, <1>c, Zenon DEF HoldersKnow, HeldWhere, OneHolder, Using
<1>11. JoinersAsleep'
  BY <1>a, <1>b, <1>c, Zenon DEF JoinersAsleep, Thread!Asleep, HeldWhere, Using
<1>12. Thread!JoinerWoken'
  BY <1>a, <1>b, <1>c, ZenonT(40) DEF Thread!JoinerWoken, HeldWhere, Using
<1> QED
  BY Zenon, <1>1, <1>2, <1>3, <1>4, <1>5, <1>6, <1>7, <1>8, <1>9, <1>10, <1>11, <1>12

\* pthread_exit() stores the result and the flag.
LEMMA ExitFinishedKeeps ==
  ASSUME OnlyJoinable, ThreadInv, NEW t \in Threads, Thread!ExitFinished(t)
  PROVE  ThreadInv'
<1> USE DEF OnlyJoinable, Thread!ThreadAssumption, Thread!NoControl, ThreadInv, ThreadPlaces
<1>a. /\ pc[t] = "exit" /\ pc' = [pc EXCEPT ![t] = "exit wake"]
      /\ finished' = finished \cup {t}
      /\ UNCHANGED <<thread_table, known, detached, joined, alive_tid, freed, destroys, control, futex_wait_address>>
  BY Zenon DEF Thread!ExitFinished, Thread!Goto
<1>b. t \in Children
  BY Zenon, <1>a
<1>1. ThreadPlaces'
  BY <1>a, <1>b, Zenon DEF ThreadLabels, HeldWhere, Using, Freeing
<1>2. HeldWhere'
  BY <1>a, <1>b, Zenon DEF HeldWhere, Using, Freeing
<1>3. OneHolder'
  BY <1>a, <1>b, Zenon DEF OneHolder, HeldWhere, Using, Freeing
<1>4. UsedInTable'
  BY <1>a, <1>b, Zenon DEF UsedInTable, OneHolder, HeldWhere, Using, Freeing
<1>5. FreeingUnused'
  BY <1>a, <1>b, Zenon DEF FreeingUnused, OneHolder, HeldWhere, Using, Freeing
<1>6. FreedOnce'
  BY <1>a, <1>b, Zenon DEF FreedOnce, HeldWhere, Using, Freeing
<1>7. AliveWord'
  BY <1>a, <1>b, Zenon DEF AliveWord, Thread!OnItsStack, HeldWhere, Using
<1>8. FinishedWord'
  BY <1>a, <1>b, Zenon DEF FinishedWord, HeldWhere, Using
<1>9. Marks'
  BY <1>a, <1>b, Zenon DEF Marks, HeldWhere, Using
<1>10. HoldersKnow'
  BY <1>a, <1>b, ZenonT(40) DEF HoldersKnow, HeldWhere, OneHolder, Using, AliveWord, Thread!OnItsStack
<1>11. JoinersAsleep'
  BY <1>a, <1>b, Zenon DEF JoinersAsleep, Thread!Asleep, HeldWhere, Using
<1>12. Thread!JoinerWoken'
  BY <1>a, <1>b, Zenon DEF Thread!JoinerWoken, HeldWhere, Using
<1> QED
  BY Zenon, <1>1, <1>2, <1>3, <1>4, <1>5, <1>6, <1>7, <1>8, <1>9, <1>10, <1>11, <1>12

\* The thread is claimed by one joiner.
LEMMA Pthread_joinKeeps ==
  ASSUME OnlyJoinable, ThreadInv, NEW t \in Threads, NEW c \in Children, Thread!pthread_join(t, c)
  PROVE  ThreadInv'
<1> USE DEF OnlyJoinable, Thread!ThreadAssumption, Thread!NoControl, ThreadInv, ThreadPlaces
<1>a. /\ pc[t] = "user" /\ pc' = [pc EXCEPT ![t] = "join finished"]
      /\ control' = [control EXCEPT ![t] = c]
      /\ c \in thread_table \cap known /\ c \notin detached \cup joined
      /\ joined' = joined \cup {c}
      /\ UNCHANGED <<thread_table, known, detached, finished, alive_tid, freed, destroys, futex_wait_address>>
  BY Zenon DEF Thread!pthread_join, Thread!Found, Thread!Goto, Thread!Use
<1>b. \A u \in Threads : control[u] # c
  BY Zenon, <1>a, NotHeld
<1>c. c \notin freed
  BY <1>a, Zenon DEF FreedOnce
<1>1. ThreadPlaces'
  BY <1>a, <1>b, <1>c, ZenonT(40) DEF ThreadLabels, HeldWhere, Using, Freeing
<1>2. HeldWhere'
  BY <1>a, <1>b, <1>c, ZenonT(40) DEF HeldWhere, Using, Freeing
<1>3. OneHolder'
  BY <1>a, <1>b, <1>c, ZenonT(40) DEF OneHolder, HeldWhere, Using, Freeing
<1>4. UsedInTable'
  BY <1>a, <1>b, <1>c, Zenon DEF UsedInTable, OneHolder, HeldWhere, Using, Freeing
<1>5. FreeingUnused'
  BY <1>a, <1>b, <1>c, Zenon DEF FreeingUnused, OneHolder, HeldWhere, Using, Freeing
<1>6. FreedOnce'
  BY <1>a, <1>b, <1>c, Zenon DEF FreedOnce, HeldWhere, Using, Freeing
<1>7. AliveWord'
  BY <1>a, <1>b, <1>c, Zenon DEF AliveWord, Thread!OnItsStack, HeldWhere, Using
<1>8. FinishedWord'
  BY <1>a, <1>b, <1>c, Zenon DEF FinishedWord, HeldWhere, Using
<1>9. Marks'
  BY <1>a, <1>b, <1>c, ZenonT(40) DEF Marks, HeldWhere, Using
<1>10. HoldersKnow'
  BY <1>a, <1>b, <1>c, Zenon DEF HoldersKnow, HeldWhere, OneHolder, Using
<1>11. JoinersAsleep'
  BY <1>a, <1>b, <1>c, Zenon DEF JoinersAsleep, Thread!Asleep, HeldWhere, Using
<1>12. Thread!JoinerWoken'
  BY <1>a, <1>b, <1>c, Zenon DEF Thread!JoinerWoken, HeldWhere, Using
<1> QED
  BY ZenonT(40), <1>1, <1>2, <1>3, <1>4, <1>5, <1>6, <1>7, <1>8, <1>9, <1>10, <1>11, <1>12

\* pthread_exit() wakes the joiner in the first loop.
LEMMA ExitWakeKeeps ==
  ASSUME OnlyJoinable, ThreadInv, NEW t \in Threads, Thread!ExitWake(t)
  PROVE  ThreadInv'
<1> USE DEF OnlyJoinable, Thread!ThreadAssumption, Thread!NoControl, ThreadInv, ThreadPlaces
<1>a. /\ pc[t] = "exit wake" /\ pc' = [pc EXCEPT ![t] = "thread_exit"]
      /\ Thread!FutexWake(<<"finished", t>>, Thread!Cardinality(Threads))
      /\ UNCHANGED <<thread_table, known, detached, joined, finished, alive_tid, freed, destroys, control>>
  BY Zenon DEF Thread!ExitWake, Thread!Goto, Thread!blocks
<1>b. t \in Children
  BY Zenon, <1>a
<1>c. Thread!Cardinality(Threads) # 0
  BY Zenon, SomeThreads
<1>g. \A u \in Threads : futex_wait_address[u] = <<"finished", t>> => control[u] = t
  BY Zenon, <1>b, SleepsOn
<1>h. \A u, w \in Threads : control[u] = t /\ control[w] = t => u = w
  BY <1>b, ZenonT(40) DEF OneHolder
<1>d. \A u, w \in Threads :
        futex_wait_address[u] = <<"finished", t>> /\ futex_wait_address[w] = <<"finished", t>> => u = w
  BY <1>g, <1>h, Zenon
<1>e. futex_wait_address' = [u \in Threads |->
        IF futex_wait_address[u] = <<"finished", t>> THEN NoAddr ELSE futex_wait_address[u]]
  BY ZenonT(40), <1>a, <1>c, <1>d, LoneSleeperWoken
<1>f. \A u \in Threads :
        \/ futex_wait_address'[u] = NoAddr
        \/ futex_wait_address'[u] = futex_wait_address[u] /\ futex_wait_address[u] # <<"finished", t>>
  BY Zenon, <1>e
<1>1. ThreadPlaces'
  <2>1. futex_wait_address' = [u \in Threads |-> futex_wait_address'[u]]
    BY Zenon, <1>e
  <2> QED
    BY <1>a, <1>b, <2>1, Zenon DEF ThreadLabels
<1>2. HeldWhere'
  BY <1>a, <1>b, Zenon DEF HeldWhere, Using, Freeing
<1>3. OneHolder'
  BY <1>a, <1>b, Zenon DEF OneHolder, HeldWhere, Using, Freeing
<1>4. UsedInTable'
  BY <1>a, <1>b, Zenon DEF UsedInTable, OneHolder, HeldWhere, Using, Freeing
<1>5. FreeingUnused'
  BY <1>a, <1>b, Zenon DEF FreeingUnused, OneHolder, HeldWhere, Using, Freeing
<1>6. FreedOnce'
  BY <1>a, <1>b, Zenon DEF FreedOnce, HeldWhere, Using, Freeing
<1>7. AliveWord'
  BY <1>a, <1>b, Zenon DEF AliveWord, Thread!OnItsStack, HeldWhere, Using
<1>8. FinishedWord'
  BY <1>a, <1>b, Zenon DEF FinishedWord, HeldWhere, Using
<1>9. Marks'
  BY <1>a, <1>b, Zenon DEF Marks, HeldWhere, Using
<1>10. HoldersKnow'
  BY <1>a, <1>b, Zenon DEF HoldersKnow, HeldWhere, OneHolder, Using
<1>11. JoinersAsleep'
  BY <1>a, <1>f, Zenon DEF JoinersAsleep, Thread!Asleep
<1>12. Thread!JoinerWoken'
  <2>1. SUFFICES ASSUME NEW u \in Threads, NEW c \in Children
                 PROVE  /\ futex_wait_address'[u] = <<"finished", c>> =>
                             pc'[c] \notin {"thread_exit", "thread_exit wake", "gone"}
                        /\ futex_wait_address'[u] = <<"alive", c>> => pc'[c] # "gone"
    BY Zenon DEF Thread!JoinerWoken
  <2>2. /\ futex_wait_address'[u] = <<"finished", c>> => futex_wait_address[u] = <<"finished", c>>
        /\ futex_wait_address'[u] = <<"alive", c>> => futex_wait_address[u] = <<"alive", c>>
        /\ futex_wait_address'[u] = <<"finished", c>> => c # t
    BY ZenonT(40), <1>f
  <2> QED
    BY <1>a, <1>b, <2>2, Zenon DEF Thread!JoinerWoken
<1> QED
  BY Zenon, <1>1, <1>2, <1>3, <1>4, <1>5, <1>6, <1>7, <1>8, <1>9, <1>10, <1>11, <1>12

\* sys_thread_exit() wakes the one in the second.
LEMMA ThreadExitWakeKeeps ==
  ASSUME OnlyJoinable, ThreadInv, NEW t \in Threads, Thread!ThreadExitWake(t)
  PROVE  ThreadInv'
<1> USE DEF OnlyJoinable, Thread!ThreadAssumption, Thread!NoControl, ThreadInv, ThreadPlaces
<1>a. /\ pc[t] = "thread_exit wake" /\ pc' = [pc EXCEPT ![t] = "gone"]
      /\ Thread!FutexWake(<<"alive", t>>, 1)
      /\ UNCHANGED <<thread_table, known, detached, joined, finished, alive_tid, freed, destroys, control>>
  BY Zenon DEF Thread!ThreadExitWake, Thread!Goto, Thread!blocks
<1>b. t \in Children
  BY Zenon, <1>a
<1>c. 1 # 0
  BY Zenon, OneMore
<1>g. \A u \in Threads : futex_wait_address[u] = <<"alive", t>> => control[u] = t
  BY Zenon, <1>b, SleepsOn
<1>h. \A u, w \in Threads : control[u] = t /\ control[w] = t => u = w
  BY <1>b, Zenon DEF OneHolder
<1>d. \A u, w \in Threads :
        futex_wait_address[u] = <<"alive", t>> /\ futex_wait_address[w] = <<"alive", t>> => u = w
  BY <1>g, <1>h, Zenon
<1>e. futex_wait_address' = [u \in Threads |->
        IF futex_wait_address[u] = <<"alive", t>> THEN NoAddr ELSE futex_wait_address[u]]
  BY ZenonT(40), <1>a, <1>c, <1>d, LoneSleeperWoken
<1>f. \A u \in Threads :
        \/ futex_wait_address'[u] = NoAddr
        \/ futex_wait_address'[u] = futex_wait_address[u] /\ futex_wait_address[u] # <<"alive", t>>
  BY Zenon, <1>e
<1>1. ThreadPlaces'
  <2>1. futex_wait_address' = [u \in Threads |-> futex_wait_address'[u]]
    BY Zenon, <1>e
  <2> QED
    BY <1>a, <1>b, <2>1, Zenon DEF ThreadLabels
<1>2. HeldWhere'
  BY <1>a, <1>b, Zenon DEF HeldWhere, Using, Freeing
<1>3. OneHolder'
  BY <1>a, <1>b, Zenon DEF OneHolder, HeldWhere, Using, Freeing
<1>4. UsedInTable'
  BY <1>a, <1>b, Zenon DEF UsedInTable, OneHolder, HeldWhere, Using, Freeing
<1>5. FreeingUnused'
  BY <1>a, <1>b, Zenon DEF FreeingUnused, OneHolder, HeldWhere, Using, Freeing
<1>6. FreedOnce'
  BY <1>a, <1>b, Zenon DEF FreedOnce, HeldWhere, Using, Freeing
<1>7. AliveWord'
  BY <1>a, <1>b, Zenon DEF AliveWord, Thread!OnItsStack, HeldWhere, Using
<1>8. FinishedWord'
  BY <1>a, <1>b, Zenon DEF FinishedWord, HeldWhere, Using
<1>9. Marks'
  BY <1>a, <1>b, Zenon DEF Marks, HeldWhere, Using
<1>10. HoldersKnow'
  BY <1>a, <1>b, Zenon DEF HoldersKnow, HeldWhere, OneHolder, Using
<1>11. JoinersAsleep'
  BY <1>a, <1>f, Zenon DEF JoinersAsleep, Thread!Asleep
<1>12. Thread!JoinerWoken'
  <2>1. SUFFICES ASSUME NEW u \in Threads, NEW c \in Children
                 PROVE  /\ futex_wait_address'[u] = <<"finished", c>> =>
                             pc'[c] \notin {"thread_exit", "thread_exit wake", "gone"}
                        /\ futex_wait_address'[u] = <<"alive", c>> => pc'[c] # "gone"
    BY Zenon DEF Thread!JoinerWoken
  <2>2. /\ futex_wait_address'[u] = <<"finished", c>> => futex_wait_address[u] = <<"finished", c>>
        /\ futex_wait_address'[u] = <<"alive", c>> => futex_wait_address[u] = <<"alive", c>>
        /\ futex_wait_address'[u] = <<"alive", c>> => c # t
    BY ZenonT(40), <1>f
  <2> QED
    BY <1>a, <1>b, <2>2, ZenonT(40) DEF Thread!JoinerWoken
<1> QED
  BY Zenon, <1>1, <1>2, <1>3, <1>4, <1>5, <1>6, <1>7, <1>8, <1>9, <1>10, <1>11, <1>12

\* The call of pthread_create().
LEMMA Pthread_createKeeps ==
  ASSUME OnlyJoinable, ThreadInv, NEW t \in Threads, Thread!pthread_create(t)
  PROVE  ThreadInv'
<1> USE DEF OnlyJoinable, Thread!ThreadAssumption, Thread!NoControl, ThreadInv, ThreadPlaces
<1>1. ThreadPlaces'
  BY Zenon DEF Thread!pthread_create, Thread!Goto, Thread!Use, Thread!blocks, ThreadLabels, HeldWhere,
         Using, Freeing
<1>2. HeldWhere'
  BY Zenon DEF Thread!pthread_create, Thread!Goto, Thread!Use, Thread!blocks, HeldWhere, Using,
         Freeing
<1>3. OneHolder'
  BY Zenon DEF Thread!pthread_create, Thread!Goto, Thread!Use, Thread!blocks, OneHolder, HeldWhere,
         Using, Freeing
<1>4. UsedInTable'
  BY Zenon DEF Thread!pthread_create, Thread!Goto, Thread!Use, Thread!blocks, UsedInTable, OneHolder,
         HeldWhere, Using, Freeing
<1>5. FreeingUnused'
  BY Zenon DEF Thread!pthread_create, Thread!Goto, Thread!Use, Thread!blocks, FreeingUnused,
         OneHolder, HeldWhere, Using, Freeing
<1>6. FreedOnce'
  BY Zenon DEF Thread!pthread_create, Thread!Goto, Thread!Use, Thread!blocks, FreedOnce, HeldWhere,
         Using, Freeing
<1>7. AliveWord'
  BY Zenon DEF Thread!pthread_create, Thread!Goto, Thread!Use, Thread!blocks, AliveWord,
         Thread!OnItsStack, HeldWhere, Using
<1>8. FinishedWord'
  BY Zenon DEF Thread!pthread_create, Thread!Goto, Thread!Use, Thread!blocks, FinishedWord, HeldWhere,
         Using
<1>9. Marks'
  BY Zenon DEF Thread!pthread_create, Thread!Goto, Thread!Use, Thread!blocks, Marks, HeldWhere, Using
<1>10. HoldersKnow'
  BY Zenon DEF Thread!pthread_create, Thread!Goto, Thread!Use, Thread!blocks, HoldersKnow, HeldWhere,
         OneHolder, Using
<1>11. JoinersAsleep'
  BY Zenon DEF Thread!pthread_create, Thread!Goto, Thread!Use, Thread!blocks, JoinersAsleep,
         Thread!Asleep, HeldWhere, Using
<1>12. Thread!JoinerWoken'
  BY ZenonT(40) DEF Thread!pthread_create, Thread!Goto, Thread!Use, Thread!blocks, Thread!JoinerWoken,
         HeldWhere, Using
<1> QED
  BY Zenon, <1>1, <1>2, <1>3, <1>4, <1>5, <1>6, <1>7, <1>8, <1>9, <1>10, <1>11, <1>12

\* The reaper finds nothing more.
LEMMA ReapedKeeps ==
  ASSUME OnlyJoinable, ThreadInv, NEW t \in Threads, Thread!Reaped(t)
  PROVE  ThreadInv'
<1> USE DEF OnlyJoinable, Thread!ThreadAssumption, Thread!NoControl, ThreadInv, ThreadPlaces
<1>1. ThreadPlaces'
  BY Zenon DEF Thread!Reaped, Thread!Goto, Thread!Use, Thread!blocks, ThreadLabels, HeldWhere, Using,
         Freeing
<1>2. HeldWhere'
  BY Zenon DEF Thread!Reaped, Thread!Goto, Thread!Use, Thread!blocks, HeldWhere, Using, Freeing
<1>3. OneHolder'
  BY Zenon DEF Thread!Reaped, Thread!Goto, Thread!Use, Thread!blocks, OneHolder, HeldWhere, Using,
         Freeing
<1>4. UsedInTable'
  BY Zenon DEF Thread!Reaped, Thread!Goto, Thread!Use, Thread!blocks, UsedInTable, OneHolder,
         HeldWhere, Using, Freeing
<1>5. FreeingUnused'
  BY Zenon DEF Thread!Reaped, Thread!Goto, Thread!Use, Thread!blocks, FreeingUnused, OneHolder,
         HeldWhere, Using, Freeing
<1>6. FreedOnce'
  BY Zenon DEF Thread!Reaped, Thread!Goto, Thread!Use, Thread!blocks, FreedOnce, HeldWhere, Using,
         Freeing
<1>7. AliveWord'
  BY Zenon DEF Thread!Reaped, Thread!Goto, Thread!Use, Thread!blocks, AliveWord, Thread!OnItsStack,
         HeldWhere, Using
<1>8. FinishedWord'
  BY Zenon DEF Thread!Reaped, Thread!Goto, Thread!Use, Thread!blocks, FinishedWord, HeldWhere, Using
<1>9. Marks'
  BY Zenon DEF Thread!Reaped, Thread!Goto, Thread!Use, Thread!blocks, Marks, HeldWhere, Using
<1>10. HoldersKnow'
  BY Zenon DEF Thread!Reaped, Thread!Goto, Thread!Use, Thread!blocks, HoldersKnow, HeldWhere,
         OneHolder, Using
<1>11. JoinersAsleep'
  BY Zenon DEF Thread!Reaped, Thread!Goto, Thread!Use, Thread!blocks, JoinersAsleep, Thread!Asleep,
         HeldWhere, Using
<1>12. Thread!JoinerWoken'
  BY ZenonT(40) DEF Thread!Reaped, Thread!Goto, Thread!Use, Thread!blocks, Thread!JoinerWoken, HeldWhere,
         Using
<1> QED
  BY Zenon, <1>1, <1>2, <1>3, <1>4, <1>5, <1>6, <1>7, <1>8, <1>9, <1>10, <1>11, <1>12

\* clone() fails, and the block leaves the table again.
LEMMA CloneFailsKeeps ==
  ASSUME OnlyJoinable, ThreadInv, NEW t \in Threads, Thread!CloneFails(t)
  PROVE  ThreadInv'
<1> USE DEF OnlyJoinable, Thread!ThreadAssumption, Thread!NoControl, ThreadInv, ThreadPlaces
<1>1. ThreadPlaces'
  BY Zenon DEF Thread!CloneFails, Thread!Goto, Thread!Use, Thread!blocks, ThreadLabels, HeldWhere,
         Using, Freeing
<1>2. HeldWhere'
  BY Zenon DEF Thread!CloneFails, Thread!Goto, Thread!Use, Thread!blocks, HeldWhere, Using, Freeing
<1>3. OneHolder'
  BY Zenon DEF Thread!CloneFails, Thread!Goto, Thread!Use, Thread!blocks, OneHolder, HeldWhere, Using,
         Freeing
<1>4. UsedInTable'
  BY ZenonT(40) DEF Thread!CloneFails, Thread!Goto, Thread!Use, Thread!blocks, UsedInTable, OneHolder,
         HeldWhere, Using, Freeing
<1>5. FreeingUnused'
  BY Zenon DEF Thread!CloneFails, Thread!Goto, Thread!Use, Thread!blocks, FreeingUnused, OneHolder,
         HeldWhere, Using, Freeing, HoldersKnow
<1>6. FreedOnce'
  BY Zenon DEF Thread!CloneFails, Thread!Goto, Thread!Use, Thread!blocks, FreedOnce, HeldWhere, Using,
         Freeing
<1>7. AliveWord'
  BY Zenon DEF Thread!CloneFails, Thread!Goto, Thread!Use, Thread!blocks, AliveWord,
         Thread!OnItsStack, HeldWhere, Using
<1>8. FinishedWord'
  BY Zenon DEF Thread!CloneFails, Thread!Goto, Thread!Use, Thread!blocks, FinishedWord, HeldWhere,
         Using
<1>9. Marks'
  BY Zenon DEF Thread!CloneFails, Thread!Goto, Thread!Use, Thread!blocks, Marks, HeldWhere, Using
<1>10. HoldersKnow'
  BY ZenonT(40) DEF Thread!CloneFails, Thread!Goto, Thread!Use, Thread!blocks, HoldersKnow, HeldWhere,
         OneHolder, Using
<1>11. JoinersAsleep'
  BY Zenon DEF Thread!CloneFails, Thread!Goto, Thread!Use, Thread!blocks, JoinersAsleep,
         Thread!Asleep, HeldWhere, Using
<1>12. Thread!JoinerWoken'
  BY ZenonT(40) DEF Thread!CloneFails, Thread!Goto, Thread!Use, Thread!blocks, Thread!JoinerWoken,
         HeldWhere, Using
<1> QED
  BY Zenon, <1>1, <1>2, <1>3, <1>4, <1>5, <1>6, <1>7, <1>8, <1>9, <1>10, <1>11, <1>12

\* The joiner takes the block of the thread that is gone out of the table.
LEMMA JoinRemoveKeeps ==
  ASSUME OnlyJoinable, ThreadInv, NEW t \in Threads, Thread!JoinRemove(t)
  PROVE  ThreadInv'
<1> USE DEF OnlyJoinable, Thread!ThreadAssumption, Thread!NoControl, ThreadInv, ThreadPlaces
<1>1. ThreadPlaces'
  BY Zenon DEF Thread!JoinRemove, Thread!Goto, Thread!Use, Thread!blocks, ThreadLabels, HeldWhere,
         Using, Freeing
<1>2. HeldWhere'
  BY Zenon DEF Thread!JoinRemove, Thread!Goto, Thread!Use, Thread!blocks, HeldWhere, Using, Freeing
<1>3. OneHolder'
  BY Zenon DEF Thread!JoinRemove, Thread!Goto, Thread!Use, Thread!blocks, OneHolder, HeldWhere, Using,
         Freeing
<1>4. UsedInTable'
  BY Zenon DEF Thread!JoinRemove, Thread!Goto, Thread!Use, Thread!blocks, UsedInTable, OneHolder,
         HeldWhere, Using, Freeing
<1>5. FreeingUnused'
  BY Zenon DEF Thread!JoinRemove, Thread!Goto, Thread!Use, Thread!blocks, FreeingUnused, OneHolder,
         HeldWhere, Using, Freeing, HoldersKnow
<1>6. FreedOnce'
  BY Zenon DEF Thread!JoinRemove, Thread!Goto, Thread!Use, Thread!blocks, FreedOnce, HeldWhere, Using,
         Freeing
<1>7. AliveWord'
  BY Zenon DEF Thread!JoinRemove, Thread!Goto, Thread!Use, Thread!blocks, AliveWord,
         Thread!OnItsStack, HeldWhere, Using
<1>8. FinishedWord'
  BY Zenon DEF Thread!JoinRemove, Thread!Goto, Thread!Use, Thread!blocks, FinishedWord, HeldWhere,
         Using
<1>9. Marks'
  BY Zenon DEF Thread!JoinRemove, Thread!Goto, Thread!Use, Thread!blocks, Marks, HeldWhere, Using
<1>10. HoldersKnow'
  BY Zenon DEF Thread!JoinRemove, Thread!Goto, Thread!Use, Thread!blocks, HoldersKnow, HeldWhere,
         OneHolder, Using
<1>11. JoinersAsleep'
  BY Zenon DEF Thread!JoinRemove, Thread!Goto, Thread!Use, Thread!blocks, JoinersAsleep,
         Thread!Asleep, HeldWhere, Using
<1>12. Thread!JoinerWoken'
  BY ZenonT(40) DEF Thread!JoinRemove, Thread!Goto, Thread!Use, Thread!blocks, Thread!JoinerWoken,
         HeldWhere, Using
<1> QED
  BY Zenon, <1>1, <1>2, <1>3, <1>4, <1>5, <1>6, <1>7, <1>8, <1>9, <1>10, <1>11, <1>12

\* A cancelled joiner lets go of the block; in its first loop another may join the thread.
LEMMA JoinCancelledKeeps ==
  ASSUME OnlyJoinable, ThreadInv, NEW t \in Threads, Thread!JoinCancelled(t)
  PROVE  ThreadInv'
<1> USE DEF OnlyJoinable, Thread!ThreadAssumption, Thread!NoControl, ThreadInv, ThreadPlaces
<1>1. ThreadPlaces'
  BY Zenon DEF Thread!JoinCancelled, Thread!Goto, Thread!Use, Thread!blocks, ThreadLabels, HeldWhere,
         Using, Freeing
<1>2. HeldWhere'
  BY Zenon DEF Thread!JoinCancelled, Thread!Goto, Thread!Use, Thread!blocks, HeldWhere, Using, Freeing
<1>3. OneHolder'
  BY Zenon DEF Thread!JoinCancelled, Thread!Goto, Thread!Use, Thread!blocks, OneHolder, HeldWhere,
         Using, Freeing
<1>4. UsedInTable'
  BY Zenon DEF Thread!JoinCancelled, Thread!Goto, Thread!Use, Thread!blocks, UsedInTable, OneHolder,
         HeldWhere, Using, Freeing
<1>5. FreeingUnused'
  BY Zenon DEF Thread!JoinCancelled, Thread!Goto, Thread!Use, Thread!blocks, FreeingUnused, OneHolder,
         HeldWhere, Using, Freeing
<1>6. FreedOnce'
  BY Zenon DEF Thread!JoinCancelled, Thread!Goto, Thread!Use, Thread!blocks, FreedOnce, HeldWhere,
         Using, Freeing
<1>7. AliveWord'
  BY Zenon DEF Thread!JoinCancelled, Thread!Goto, Thread!Use, Thread!blocks, AliveWord,
         Thread!OnItsStack, HeldWhere, Using
<1>8. FinishedWord'
  BY Zenon DEF Thread!JoinCancelled, Thread!Goto, Thread!Use, Thread!blocks, FinishedWord, HeldWhere,
         Using
<1>9. Marks'
  BY Zenon DEF Thread!JoinCancelled, Thread!Goto, Thread!Use, Thread!blocks, Marks, HeldWhere, Using,
         HoldersKnow
<1>10. HoldersKnow'
  BY ZenonT(40) DEF Thread!JoinCancelled, Thread!Goto, Thread!Use, Thread!blocks, HoldersKnow, HeldWhere,
         OneHolder, Using
<1>11. JoinersAsleep'
  BY Zenon DEF Thread!JoinCancelled, Thread!Goto, Thread!Use, Thread!blocks, JoinersAsleep,
         Thread!Asleep, HeldWhere, Using
<1>12. Thread!JoinerWoken'
  BY ZenonT(40) DEF Thread!JoinCancelled, Thread!Goto, Thread!Use, Thread!blocks, Thread!JoinerWoken,
         HeldWhere, Using
<1> QED
  BY Zenon, <1>1, <1>2, <1>3, <1>4, <1>5, <1>6, <1>7, <1>8, <1>9, <1>10, <1>11, <1>12

\* A thread returns or calls pthread_exit().
LEMMA Pthread_exitKeeps ==
  ASSUME OnlyJoinable, ThreadInv, NEW t \in Threads, Thread!pthread_exit(t)
  PROVE  ThreadInv'
<1> USE DEF OnlyJoinable, Thread!ThreadAssumption, Thread!NoControl, ThreadInv, ThreadPlaces
<1>1. ThreadPlaces'
  BY ZenonT(40) DEF Thread!pthread_exit, Thread!Goto, Thread!Use, Thread!blocks, ThreadLabels, HeldWhere,
         Using, Freeing
<1>2. HeldWhere'
  BY Zenon DEF Thread!pthread_exit, Thread!Goto, Thread!Use, Thread!blocks, HeldWhere, Using, Freeing
<1>3. OneHolder'
  BY Zenon DEF Thread!pthread_exit, Thread!Goto, Thread!Use, Thread!blocks, OneHolder, HeldWhere,
         Using, Freeing
<1>4. UsedInTable'
  BY Zenon DEF Thread!pthread_exit, Thread!Goto, Thread!Use, Thread!blocks, UsedInTable, OneHolder,
         HeldWhere, Using, Freeing
<1>5. FreeingUnused'
  BY Zenon DEF Thread!pthread_exit, Thread!Goto, Thread!Use, Thread!blocks, FreeingUnused, OneHolder,
         HeldWhere, Using, Freeing
<1>6. FreedOnce'
  BY Zenon DEF Thread!pthread_exit, Thread!Goto, Thread!Use, Thread!blocks, FreedOnce, HeldWhere,
         Using, Freeing
<1>7. AliveWord'
  BY Zenon DEF Thread!pthread_exit, Thread!Goto, Thread!Use, Thread!blocks, AliveWord,
         Thread!OnItsStack, HeldWhere, Using
<1>8. FinishedWord'
  BY Zenon DEF Thread!pthread_exit, Thread!Goto, Thread!Use, Thread!blocks, FinishedWord, HeldWhere,
         Using
<1>9. Marks'
  BY Zenon DEF Thread!pthread_exit, Thread!Goto, Thread!Use, Thread!blocks, Marks, HeldWhere, Using
<1>10. HoldersKnow'
  BY Zenon DEF Thread!pthread_exit, Thread!Goto, Thread!Use, Thread!blocks, HoldersKnow, HeldWhere,
         OneHolder, Using
<1>11. JoinersAsleep'
  BY Zenon DEF Thread!pthread_exit, Thread!Goto, Thread!Use, Thread!blocks, JoinersAsleep,
         Thread!Asleep, HeldWhere, Using
<1>12. Thread!JoinerWoken'
  BY ZenonT(40) DEF Thread!pthread_exit, Thread!Goto, Thread!Use, Thread!blocks, Thread!JoinerWoken,
         HeldWhere, Using
<1> QED
  BY Zenon, <1>1, <1>2, <1>3, <1>4, <1>5, <1>6, <1>7, <1>8, <1>9, <1>10, <1>11, <1>12

\* sys_thread_exit() clears alive_tid: the thread is off its stack.
LEMMA ThreadExitKeeps ==
  ASSUME OnlyJoinable, ThreadInv, NEW t \in Threads, Thread!ThreadExit(t)
  PROVE  ThreadInv'
<1> USE DEF OnlyJoinable, Thread!ThreadAssumption, Thread!NoControl, ThreadInv, ThreadPlaces
<1>1. ThreadPlaces'
  BY Zenon DEF Thread!ThreadExit, Thread!Goto, Thread!Use, Thread!blocks, ThreadLabels, HeldWhere,
         Using, Freeing
<1>2. HeldWhere'
  BY Zenon DEF Thread!ThreadExit, Thread!Goto, Thread!Use, Thread!blocks, HeldWhere, Using, Freeing
<1>3. OneHolder'
  BY Zenon DEF Thread!ThreadExit, Thread!Goto, Thread!Use, Thread!blocks, OneHolder, HeldWhere, Using,
         Freeing
<1>4. UsedInTable'
  BY Zenon DEF Thread!ThreadExit, Thread!Goto, Thread!Use, Thread!blocks, UsedInTable, OneHolder,
         HeldWhere, Using, Freeing
<1>5. FreeingUnused'
  BY Zenon DEF Thread!ThreadExit, Thread!Goto, Thread!Use, Thread!blocks, FreeingUnused, OneHolder,
         HeldWhere, Using, Freeing
<1>6. FreedOnce'
  BY Zenon DEF Thread!ThreadExit, Thread!Goto, Thread!Use, Thread!blocks, FreedOnce, HeldWhere, Using,
         Freeing
<1>7. AliveWord'
  BY Zenon DEF Thread!ThreadExit, Thread!Goto, Thread!Use, Thread!blocks, AliveWord,
         Thread!OnItsStack, HeldWhere, Using
<1>8. FinishedWord'
  BY Zenon DEF Thread!ThreadExit, Thread!Goto, Thread!Use, Thread!blocks, FinishedWord, HeldWhere,
         Using
<1>9. Marks'
  BY Zenon DEF Thread!ThreadExit, Thread!Goto, Thread!Use, Thread!blocks, Marks, HeldWhere, Using,
         FinishedWord
<1>10. HoldersKnow'
  BY ZenonT(40) DEF Thread!ThreadExit, Thread!Goto, Thread!Use, Thread!blocks, HoldersKnow, HeldWhere,
         OneHolder, Using, FinishedWord
<1>11. JoinersAsleep'
  BY Zenon DEF Thread!ThreadExit, Thread!Goto, Thread!Use, Thread!blocks, JoinersAsleep,
         Thread!Asleep, HeldWhere, Using
<1>12. Thread!JoinerWoken'
  BY ZenonT(40) DEF Thread!ThreadExit, Thread!Goto, Thread!Use, Thread!blocks, Thread!JoinerWoken,
         HeldWhere, Using
<1> QED
  BY Zenon, <1>1, <1>2, <1>3, <1>4, <1>5, <1>6, <1>7, <1>8, <1>9, <1>10, <1>11, <1>12

\* A known thread that nobody joins is detached.
LEMMA Pthread_detachKeeps ==
  ASSUME OnlyJoinable, ThreadInv, NEW t \in Threads, NEW c \in Children, Thread!pthread_detach(t, c)
  PROVE  ThreadInv'
<1> USE DEF OnlyJoinable, Thread!ThreadAssumption, Thread!NoControl, ThreadInv, ThreadPlaces
<1>1. ThreadPlaces'
  BY Zenon DEF Thread!pthread_detach, Thread!Goto, Thread!Use, Thread!blocks, ThreadLabels, HeldWhere,
         Using, Freeing
<1>2. HeldWhere'
  BY Zenon DEF Thread!pthread_detach, Thread!Goto, Thread!Use, Thread!blocks, HeldWhere, Using,
         Freeing
<1>3. OneHolder'
  BY Zenon DEF Thread!pthread_detach, Thread!Goto, Thread!Use, Thread!blocks, OneHolder, HeldWhere,
         Using, Freeing
<1>4. UsedInTable'
  BY Zenon DEF Thread!pthread_detach, Thread!Goto, Thread!Use, Thread!blocks, UsedInTable, OneHolder,
         HeldWhere, Using, Freeing
<1>5. FreeingUnused'
  BY Zenon DEF Thread!pthread_detach, Thread!Goto, Thread!Use, Thread!blocks, FreeingUnused,
         OneHolder, HeldWhere, Using, Freeing
<1>6. FreedOnce'
  BY Zenon DEF Thread!pthread_detach, Thread!Goto, Thread!Use, Thread!blocks, FreedOnce, HeldWhere,
         Using, Freeing
<1>7. AliveWord'
  BY Zenon DEF Thread!pthread_detach, Thread!Goto, Thread!Use, Thread!blocks, AliveWord,
         Thread!OnItsStack, HeldWhere, Using
<1>8. FinishedWord'
  BY Zenon DEF Thread!pthread_detach, Thread!Goto, Thread!Use, Thread!blocks, FinishedWord, HeldWhere,
         Using
<1>9. Marks'
  BY ZenonT(40) DEF Thread!pthread_detach, Thread!Goto, Thread!Use, Thread!blocks, Marks, HeldWhere, Using
<1>10. HoldersKnow'
  BY Zenon DEF Thread!pthread_detach, Thread!Goto, Thread!Use, Thread!blocks, HoldersKnow, HeldWhere,
         OneHolder, Using, Marks
<1>11. JoinersAsleep'
  BY ZenonT(40) DEF Thread!pthread_detach, Thread!Goto, Thread!Use, Thread!blocks, JoinersAsleep,
         Thread!Asleep, HeldWhere, Using
<1>12. Thread!JoinerWoken'
  BY Zenon DEF Thread!pthread_detach, Thread!Goto, Thread!Use, Thread!blocks, Thread!JoinerWoken,
         HeldWhere, Using
<1> QED
  BY Zenon, <1>1, <1>2, <1>3, <1>4, <1>5, <1>6, <1>7, <1>8, <1>9, <1>10, <1>11, <1>12

\* Every step of the threads keeps the invariant.
LEMMA ThreadNext ==
  ASSUME OnlyJoinable, ThreadInv, [Thread!Next]_Thread!vars
  PROVE  ThreadInv'
<1>1. CASE UNCHANGED Thread!vars
  <2>a. UNCHANGED <<thread_table, known, detached, joined, finished, alive_tid, freed, destroys,
                    pc, control, futex_wait_address>>
    BY <1>1, Zenon DEF Thread!vars, Thread!blocks
  <2>1. ThreadPlaces'
    BY <2>a, Zenon DEF ThreadInv, ThreadPlaces
  <2>2. HeldWhere'
    BY <2>a, Zenon DEF ThreadInv, HeldWhere
  <2>3. OneHolder'
    BY <2>a, Zenon DEF ThreadInv, OneHolder
  <2>4. UsedInTable'
    BY <2>a, Zenon DEF ThreadInv, UsedInTable
  <2>5. FreeingUnused'
    BY <2>a, Zenon DEF ThreadInv, FreeingUnused
  <2>6. FreedOnce'
    BY <2>a, Zenon DEF ThreadInv, FreedOnce
  <2>7. AliveWord'
    BY <2>a, Zenon DEF ThreadInv, AliveWord, Thread!OnItsStack
  <2>8. FinishedWord'
    BY <2>a, Zenon DEF ThreadInv, FinishedWord
  <2>9. Marks'
    BY <2>a, Zenon DEF ThreadInv, Marks
  <2>10. HoldersKnow'
    BY <2>a, Zenon DEF ThreadInv, HoldersKnow
  <2>11. JoinersAsleep'
    BY <2>a, Zenon DEF ThreadInv, JoinersAsleep, Thread!Asleep
  <2>12. Thread!JoinerWoken'
    BY <2>a, Zenon DEF ThreadInv, Thread!JoinerWoken
  <2> QED
    BY <2>1, <2>2, <2>3, <2>4, <2>5, <2>6, <2>7, <2>8, <2>9, <2>10, <2>11, <2>12, Zenon DEF ThreadInv
<1>2. CASE Thread!Next
  <2>1. PICK t \in Threads :
          \/ Thread!pthread_create(t) \/ Thread!Reap(t) \/ Thread!Reaped(t)
          \/ Thread!thread_control_destroy(t) \/ Thread!Insert(t) \/ Thread!Clone(t)
          \/ Thread!CloneFails(t) \/ Thread!StoreTid(t)
          \/ \E c \in Children : Thread!pthread_join(t, c) \/ Thread!pthread_detach(t, c)
          \/ Thread!JoinFinished(t) \/ Thread!JoinAlive(t) \/ Thread!JoinRemove(t)
          \/ Thread!JoinCancelled(t) \/ Thread!pthread_exit(t) \/ Thread!ExitFinished(t)
          \/ Thread!ExitWake(t) \/ Thread!ThreadExit(t) \/ Thread!ThreadExitWake(t)
    BY <1>2, Zenon DEF Thread!Next
  <2> QED
    BY <2>1, ZenonT(40), Pthread_createKeeps, ReapKeeps, ReapedKeeps, Thread_control_destroyKeeps,
       InsertKeeps, CloneKeeps, CloneFailsKeeps, StoreTidKeeps, Pthread_joinKeeps,
       Pthread_detachKeeps, JoinFinishedKeeps, JoinAliveKeeps, JoinRemoveKeeps,
       JoinCancelledKeeps, Pthread_exitKeeps, ExitFinishedKeeps, ExitWakeKeeps,
       ThreadExitKeeps, ThreadExitWakeKeeps
<1> QED
  BY <1>1, <1>2, Zenon

\* However many threads are created, joined, detached, cancelled and ended at
\* once: nobody uses a control block, or the stack in it, after it was freed;
\* no block is freed twice; and no joiner sleeps on the word of a thread
\* that has passed the wake.
THEOREM JoinsSafeCorrect ==
  ASSUME OnlyJoinable
  PROVE  Thread!Spec => [](Thread!TypeOK /\ Thread!ControlsLive /\ Thread!JoinerWoken)
<1>1. Thread!Init => ThreadInv
  BY Zenon, ThreadInit
<1>2. ThreadInv /\ [Thread!Next]_Thread!vars => ThreadInv'
  BY Zenon, ThreadNext
<1>3. ThreadInv => Thread!TypeOK
  BY Zenon DEF ThreadInv, ThreadPlaces, JoinersAsleep, Thread!TypeOK
<1>4. ThreadInv => Thread!ControlsLive
  <2>1. SUFFICES ASSUME ThreadInv PROVE Thread!ControlsLive
    OBVIOUS
  <2>2. \A c \in freed : ~Thread!OnItsStack(c) /\ destroys[c] = 1
    BY <2>1, Zenon DEF ThreadInv, ThreadPlaces, FreedOnce, AliveWord
  <2> QED
    BY <2>1, <2>2, Zenon DEF Thread!ControlsLive, ThreadInv, FreedOnce
<1>5. ThreadInv => Thread!JoinerWoken
  BY Zenon DEF ThreadInv
<1> QED
  BY <1>1, <1>2, <1>3, <1>4, <1>5, PTL DEF Thread!Spec

-----------------------------------------------------------------------------
(* The mutex of PthreadMutex.                                              *)
USE MutexAssumption

\* FUTEX_WAKE takes threads off the address and puts none to sleep; if any
\* sleeper is left, it woke at least one, provided it may wake one at all.
LEMMA WakeEffect ==
  ASSUME TypeOK,
         NEW max \in Nat, max > 0,
         FutexWake("word", max)
  PROVE  /\ futex_wait_address' \in [Threads -> {"word", NoAddr}]
         /\ \A t \in Threads : Asleep(t)' => Asleep(t)
         /\ Sleepers("word")' # {} => \E t \in Threads : Asleep(t) /\ ~Asleep(t)'
<1>1. PICK S \in SUBSET Sleepers("word") :
        /\ Cardinality(S) <= max
        /\ Cardinality(S) = max \/ S = Sleepers("word")
        /\ futex_wait_address' = [t \in Threads |->
             IF t \in S THEN NoAddr ELSE futex_wait_address[t]]
  BY Zenon DEF FutexWake
<1>2. futex_wait_address' \in [Threads -> {"word", NoAddr}]
  BY Zenon, <1>1 DEF TypeOK
<1>3. \A t \in Threads : Asleep(t)' => Asleep(t)
  BY Zenon, <1>1 DEF TypeOK, Asleep
<1>4. ASSUME Sleepers("word")' # {}
      PROVE  \E t \in Threads : Asleep(t) /\ ~Asleep(t)'
  <2>1. S # Sleepers("word")
    BY Zenon, <1>1, <1>4 DEF Sleepers, TypeOK
  <2>2. Cardinality(S) = max
    BY Zenon, <1>1, <2>1
  <2>3. S # {}
    BY <2>2, FS_EmptySet
  <2> QED
    BY Zenon, <1>1, <2>3 DEF Sleepers, Asleep, TypeOK
<1> QED
  BY ZenonT(40), <1>2, <1>3, <1>4

\* The slot mutex_allocate() hands out satisfies the invariant.
LEMMA InitInv == Init => MutexInv
<1> SUFFICES ASSUME Init PROVE MutexInv
  OBVIOUS
<1> USE DEF Init, MutexInit, FutexInit
<1>1. TypeOK
  <2>1. MutexTypeOK
    <3>1. owner_dead \in BOOLEAN /\ inconsistent \in BOOLEAN /\ not_recoverable \in BOOLEAN
      BY Zenon
    <3>2. word \in 0..2 /\ recursion \in 0..MaxDepth /\ depth \in [Threads -> 0..MaxDepth]
      OBVIOUS
    <3>3. how \in [Threads -> {"lock", "try", "timed"}] /\ owner \in Threads \cup {NoThread}
      OBVIOUS
    <3> QED
      BY <3>1, <3>2, <3>3, Zenon DEF MutexTypeOK
  <2>2. pc \in [Threads -> Labels] /\ ret \in [Threads -> {"user"}]
    BY Zenon DEF Labels
  <2>3. futex_wait_address \in [Threads -> {"word", NoAddr}]
    OBVIOUS
  <2> QED
    BY ZenonT(40), <2>1, <2>2, <2>3 DEF TypeOK
<1>2. Exclusion
  BY Zenon DEF Exclusion, Holds
<1>3. SleepersCovered /\ OneHeir
  BY Zenon DEF SleepersCovered, OneHeir, Sleepers
<1> QED
  BY Zenon, <1>1, <1>2, <1>3 DEF MutexInv, Asleep

\* The inductive step, one case for each action.
LEMMA StepInv == MutexInv /\ [Next]_mutexvars => MutexInv'
<1> SUFFICES ASSUME MutexInv, [Next]_mutexvars
             PROVE  MutexInv'
  OBVIOUS
<1> USE DEF MutexInv, TypeOK, MutexTypeOK, Labels, Exclusion, SleepersCovered, OneHeir,
            Holds, Sleepers, Asleep, slotvars, flags, Goto, Return
<1>1. CASE UNCHANGED mutexvars
  BY SMTT(30), <1>1 DEF mutexvars
<1>2. ASSUME NEW t \in Threads, FirstTry(t) PROVE MutexInv'
  BY SMTT(30), <1>2 DEF FirstTry
<1>3. ASSUME NEW t \in Threads, Exchange(t) PROVE MutexInv'
  BY SMTT(30), <1>3 DEF Exchange
<1>4. ASSUME NEW t \in Threads, MutexWait(t) PROVE MutexInv'
  BY SMTT(30), <1>4 DEF MutexWait, FutexMatches, FutexSleep
<1>5. ASSUME NEW t \in Threads, MutexWoken(t) PROVE MutexInv'
  BY SMTT(30), <1>5 DEF MutexWoken
<1>6. ASSUME NEW t \in Threads, Taken(t) PROVE MutexInv'
  BY SMTT(30), <1>6 DEF Taken
<1>7. ASSUME NEW t \in Threads, Release(t) PROVE MutexInv'
  BY SMTT(30), <1>7 DEF Release
<1>8. ASSUME NEW t \in Threads, WakeOne(t) PROVE MutexInv'
  BY SMTT(30), <1>8, WakeEffect DEF WakeOne
<1>9. ASSUME NEW t \in Threads, DieRelease(t) PROVE MutexInv'
  BY SMTT(30), <1>9 DEF DieRelease
<1>10. ASSUME NEW t \in Threads, DieWake(t) PROVE MutexInv'
  <2>1. Cardinality(Threads) \in Nat /\ Cardinality(Threads) > 0
    BY SMTT(30), FS_CardinalityType, FS_EmptySet
  <2> QED
    BY SMTT(30), <1>10, <2>1, WakeEffect DEF DieWake
<1>11. ASSUME NEW t \in Threads, MutexInterrupted(t) PROVE MutexInv'
  BY SMTT(30), <1>11 DEF MutexInterrupted, FutexLeave
<1>12. ASSUME NEW t \in Threads, MutexTimeout(t) PROVE MutexInv'
  BY SMTT(30), <1>12 DEF MutexTimeout, FutexLeave
<1>13. ASSUME NEW t \in Threads, NEW call \in {"lock", "try", "timed"},
              LockEnter(t, call, "user", "user")
       PROVE  MutexInv'
  BY SMTT(30), <1>13 DEF LockEnter
<1>14. ASSUME NEW t \in Threads, Relock(t) PROVE MutexInv'
  BY SMTT(30), <1>14 DEF Relock
<1>15. ASSUME NEW t \in Threads, Unlock(t, "user", "user") PROVE MutexInv'
  BY SMTT(30), <1>15 DEF Unlock
<1>16. ASSUME NEW t \in Threads, pthread_mutex_consistent(t) PROVE MutexInv'
  BY <1>16, ZenonT(30) DEF pthread_mutex_consistent
<1>17. ASSUME NEW t \in Threads, depth[t] = 0 \/ Robust, ReleaseRobust(t)
       PROVE  MutexInv'
  <2>1. CASE Robust /\ owner = t
    <3>1. owner_dead' \in BOOLEAN /\ inconsistent' \in BOOLEAN /\ ~inconsistent'
      BY <1>17, <2>1, ZenonT(40) DEF ReleaseRobust
    <3>2. /\ pc' = [pc EXCEPT ![t] = "die_release"]
          /\ depth' = [depth EXCEPT ![t] = 0]
          /\ owner' = NoThread /\ recursion' = 0
          /\ UNCHANGED <<word, not_recoverable, how, ret, futex_wait_address>>
      BY ZenonT(40), <1>17, <2>1 DEF ReleaseRobust
    <3> QED
      BY SMTT(30), <2>1, <3>1, <3>2
  <2>2. CASE ~(Robust /\ owner = t)
    <3>1. owner # t
      BY SMTT(30), <1>17, <2>2
    <3> QED
      BY SMTT(30), <1>17, <2>2, <3>1 DEF ReleaseRobust
  <2> QED
    BY <2>1, <2>2
<1> HIDE DEF MutexInv
<1> QED
  BY ZenonT(40), <1>1, <1>2, <1>3, <1>4, <1>5, <1>6, <1>7, <1>8, <1>9, <1>10, <1>11, <1>12, <1>13,
     <1>14, <1>15, <1>16, <1>17 DEF Next, MutexAct, MutexStep, Call

\* The whole invariant: whatever the threads do, in any order.
THEOREM MutexCorrect == Spec => []MutexInv
BY InitInv, StepInv, PTL DEF Spec

\* At most one thread has the mutex, and the word and the owner field tell
\* the truth about it (mutex_lock_common, pthread_mutex_unlock,
\* __armos_pthread_release_robust).
THEOREM ExclusionCorrect == Spec => []Exclusion
<1>1. MutexInv => Exclusion
  BY ZenonT(40) DEF MutexInv
<1> QED
  BY MutexCorrect, <1>1, PTL

\* No thread sleeps in mutex_take_word() without someone bound to wake it.
THEOREM SleepersCoveredCorrect == Spec => []SleepersCovered
<1>1. MutexInv => SleepersCovered
  BY ZenonT(40) DEF MutexInv
<1> QED
  BY MutexCorrect, <1>1, PTL

\* The state a dead owner leaves has one heir, the current owner.
THEOREM OneHeirCorrect == Spec => []OneHeir
<1>1. MutexInv => OneHeir
  BY Zenon DEF MutexInv
<1> QED
  BY MutexCorrect, <1>1, PTL

\* A robust mutex declared unrecoverable stays so and is never granted again.
THEOREM NeverRecoveredCorrect == Spec => NeverRecovered
<1> DEFINE Kept == not_recoverable =>
             /\ not_recoverable'
             /\ \A t \in Threads : depth'[t] <= depth[t]
<1>1. MutexInv /\ [Next]_mutexvars => [Kept]_mutexvars
  <2> SUFFICES ASSUME MutexInv, Next, not_recoverable
               PROVE  Kept
    BY Zenon DEF mutexvars
  <2> PICK t \in Threads :
        MutexStep(t) \/ MutexInterrupted(t) \/ MutexTimeout(t) \/ Call(t)
    BY Zenon DEF Next, MutexAct
  <2> USE DEF MutexInv, TypeOK, MutexTypeOK, slotvars, flags
  <2>1. CASE MutexStep(t)
    <3>1. CASE Taken(t)
      BY SMTT(30), <3>1 DEF Taken
    <3>2. CASE ~Taken(t)
      <4>1. UNCHANGED <<flags, depth>>
        BY Zenon, <2>1, <3>2, ZenonT(30) DEF MutexStep, FirstTry, Exchange, MutexWait, MutexWoken, Release,
                          WakeOne, DieRelease, DieWake
      <4> QED
        BY <4>1, SMTT(30)
    <3> QED
      BY ZenonT(40), <3>1, <3>2
  <2>2. CASE MutexInterrupted(t) \/ MutexTimeout(t)
    <3>1. UNCHANGED <<flags, depth>>
      BY Zenon, <2>2, ZenonT(30) DEF MutexInterrupted, MutexTimeout
    <3> QED
      BY <3>1
  <2>3. CASE Call(t)
    <3>1. CASE \E call \in {"lock", "try", "timed"} : LockEnter(t, call, "user", "user")
      BY <3>1 DEF LockEnter
    <3>2. CASE Unlock(t, "user", "user")
      BY Zenon, <3>2 DEF Unlock
    <3>3. CASE pthread_mutex_consistent(t)
      BY ZenonT(40), <3>3 DEF pthread_mutex_consistent
    <3>4. CASE ReleaseRobust(t)
      BY <3>4 DEF ReleaseRobust
    <3>5. CASE Relock(t)
      BY ZenonT(40), <3>5 DEF Relock
    <3> QED
      BY ZenonT(40), <2>3, <3>1, <3>2, <3>3, <3>4, <3>5 DEF Call
  <2> QED
    BY ZenonT(40), <2>1, <2>2, <2>3
<1> QED
  BY MutexCorrect, <1>1, PTL DEF Spec, NeverRecovered
-----------------------------------------------------------------------------
\* Condition variables.  Who is bound to wake a sleeper or is past its own
\* wait: producers from the item to the end of their notification, and the
\* consumers that are neither asleep on the condition nor leaving.
Bound(t) ==
  \/ pc[t] \in {"notify", "cond_wake"}
  \/ pc[t] \in {"release", "wake"} /\ ret[t] = "notify"
  \/ t \in Consumers /\ pc[t] # "dead" /\ ret[t] # "dead" /\ t \notin Sleepers("sequence")

\* The producers that have not moved the sequence for their item yet.
Unannounced(t) ==
  pc[t] = "notify" \/ (pc[t] \in {"release", "wake"} /\ ret[t] = "notify")

\* The consumers that gave the mutex back to wait, and would still sleep.
GoingToSleep(t) ==
  /\ pc[t] = "cond_wait" \/ (pc[t] \in {"release", "wake"} /\ ret[t] = "cond_wait")
  /\ seen[t] = sequence

BoundSet == {t \in Threads : Bound(t)}
UnannouncedSet == {t \in Threads : Unannounced(t)}

CondLabels == {"user", "first", "slow", "wait", "asleep", "taken", "release", "wake",
               "cond_wait", "cond_asleep", "cond_relock", "notify", "cond_wake", "dead"}

\* Where the threads of a monitor can be: only consumers wait, only
\* producers notify, and a thread asleep on the condition is in its wait.
CondPlaces ==
  /\ pc \in [Threads -> CondLabels]
  /\ ret \in [Threads -> {"user", "notify", "dead", "cond_wait"}]
  /\ futex_wait_address \in [Threads -> {"word", "sequence", NoAddr}]
  /\ sequence \in Nat /\ items \in Nat
  /\ seen \in [Threads -> Nat]
  /\ made \subseteq Producers
  /\ \A t \in Threads :
       /\ seen[t] <= sequence
       /\ t \in Consumers => pc[t] \notin {"notify", "cond_wake"} /\ ret[t] # "notify"
       /\ t \in Producers => pc[t] \notin {"cond_wait", "cond_asleep", "cond_relock"}
                             /\ ret[t] # "cond_wait"
       /\ pc[t] \in {"cond_wait", "cond_asleep", "cond_relock"} => ret[t] = "cond_wait"
       /\ pc[t] \in {"first", "slow", "wait", "asleep", "taken"} => ret[t] = "user"
       /\ t \in Consumers /\ pc[t] = "user" => ret[t] # "dead"
       /\ futex_wait_address[t] = "sequence" => pc[t] = "cond_asleep"

\* One bound thread per item.  NoSleepBesideItem does not say how many there
\* are, and a consumer that takes its item leaves one less behind.
OnePerItem == Sleepers("sequence") # {} => items <= Cardinality(BoundSet)

\* A consumer found no item when it decided to wait, so every item there is
\* now came later, from a producer that has not moved the sequence since.
NewItemsUnannounced ==
  \A t \in Threads : GoingToSleep(t) => items <= Cardinality(UnannouncedSet)

CondInv == CondPlaces /\ OnePerItem /\ NewItemsUnannounced

\* A step that takes no item, puts nobody to sleep on the condition and
\* leaves everybody bound who was.
Calm ==
  /\ items' = items
  /\ \A u \in Threads :
       /\ futex_wait_address'[u] = "sequence" => futex_wait_address[u] = "sequence"
       /\ Bound(u) => Bound(u)'
       /\ Unannounced(u) => Unannounced(u)'
       /\ GoingToSleep(u)' => GoingToSleep(u)

\* The two sets of threads the invariant counts are finite, and the second
\* is part of the first.
LEMMA CountedSets ==
  /\ IsFiniteSet(BoundSet) /\ Cardinality(BoundSet) \in Nat
  /\ IsFiniteSet(UnannouncedSet) /\ Cardinality(UnannouncedSet) \in Nat
  /\ Cardinality(UnannouncedSet) <= Cardinality(BoundSet)
<1>1. BoundSet \subseteq Threads /\ UnannouncedSet \subseteq BoundSet
  BY Zenon DEF BoundSet, UnannouncedSet, Bound, Unannounced
<1> QED
  BY ZenonT(40), <1>1, FS_Subset, FS_CardinalityType

\* The same of the state after a step.
LEMMA CountedSetsNext ==
  /\ IsFiniteSet(BoundSet') /\ Cardinality(BoundSet') \in Nat
  /\ IsFiniteSet(UnannouncedSet') /\ Cardinality(UnannouncedSet') \in Nat
  /\ Cardinality(UnannouncedSet') <= Cardinality(BoundSet')
<1>1. BoundSet' \subseteq Threads /\ UnannouncedSet' \subseteq BoundSet'
  BY Zenon DEF BoundSet, UnannouncedSet, Bound, Unannounced
<1> QED
  BY ZenonT(40), <1>1, FS_Subset, FS_CardinalityType

\* A calm step disturbs neither count.
LEMMA CalmKeeps ==
  ASSUME CondInv, CondPlaces', Calm
  PROVE  CondInv'
<1>1. BoundSet \subseteq BoundSet' /\ UnannouncedSet \subseteq UnannouncedSet'
  BY Zenon DEF Calm, BoundSet, UnannouncedSet
<1>2. /\ Cardinality(BoundSet) <= Cardinality(BoundSet')
      /\ Cardinality(UnannouncedSet) <= Cardinality(UnannouncedSet')
  BY ZenonT(40), <1>1, CountedSetsNext, FS_Subset
<1>3. items \in Nat /\ items' = items
  BY Zenon DEF CondInv, CondPlaces, Calm
<1>4. OnePerItem'
  <2>1. Sleepers("sequence")' # {} => Sleepers("sequence") # {}
    BY Zenon DEF Calm, Sleepers
  <2> QED
    BY SMTT(30), <1>2, <1>3, <2>1, CountedSets, CountedSetsNext DEF CondInv, OnePerItem
<1>5. NewItemsUnannounced'
  <2> SUFFICES ASSUME NEW u \in Threads, GoingToSleep(u)'
               PROVE  items' <= Cardinality(UnannouncedSet')
    BY Zenon DEF NewItemsUnannounced
  <2>1. GoingToSleep(u)
    BY Zenon DEF Calm
  <2>2. items <= Cardinality(UnannouncedSet)
    BY Zenon, <2>1 DEF CondInv, NewItemsUnannounced
  <2> QED
    BY SMTT(30), <1>2, <1>3, <2>2, CountedSets, CountedSetsNext
<1> QED
  BY Zenon, <1>4, <1>5 DEF CondInv

\* What FUTEX_WAKE does on either word: it only takes threads off that
\* word, and it woke one if it left any.
LEMMA CondWakeEffect ==
  ASSUME futex_wait_address \in [Threads -> {"word", "sequence", NoAddr}],
         NEW a \in {"word", "sequence"}, NEW max \in Nat, max > 0,
         FutexWake(a, max)
  PROVE  /\ futex_wait_address' \in [Threads -> {"word", "sequence", NoAddr}]
         /\ \A u \in Threads : futex_wait_address'[u] # futex_wait_address[u]
              => futex_wait_address[u] = a /\ futex_wait_address'[u] = NoAddr
         /\ Sleepers(a)' # {} =>
              \E u \in Threads : futex_wait_address[u] = a /\ futex_wait_address'[u] = NoAddr
<1>1. PICK S \in SUBSET Sleepers(a) :
        /\ Cardinality(S) <= max
        /\ Cardinality(S) = max \/ S = Sleepers(a)
        /\ futex_wait_address' = [t \in Threads |->
             IF t \in S THEN NoAddr ELSE futex_wait_address[t]]
  BY Zenon DEF FutexWake
<1>2. futex_wait_address' \in [Threads -> {"word", "sequence", NoAddr}]
  BY Zenon, <1>1
<1>3. \A u \in Threads : futex_wait_address'[u] # futex_wait_address[u]
        => futex_wait_address[u] = a /\ futex_wait_address'[u] = NoAddr
  BY Zenon, <1>1 DEF Sleepers
<1>4. ASSUME Sleepers(a)' # {}
      PROVE  \E u \in Threads : futex_wait_address[u] = a /\ futex_wait_address'[u] = NoAddr
  <2>1. S # Sleepers(a)
    BY SMTT(30), <1>1, <1>4, CondAssumption DEF Sleepers
  <2>2. Cardinality(S) = max
    BY ZenonT(40), <1>1, <2>1
  <2>3. S # {}
    BY <2>2, FS_EmptySet
  <2> QED
    BY ZenonT(40), <1>1, <2>3 DEF Sleepers
<1> QED
  BY ZenonT(40), <1>2, <1>3, <1>4

\* Before anybody entered the monitor there is no item and no sleeper.
LEMMA CondInitInv == CondInit => CondInv
<1> SUFFICES ASSUME CondInit PROVE CondInv
  OBVIOUS
<1> USE CondAssumption DEF CondInit, MutexInit, FutexInit
<1>1. CondPlaces
  BY DEF CondPlaces, CondLabels
<1>2. Sleepers("sequence") = {}
  BY ZenonT(40) DEF Sleepers
<1>3. NewItemsUnannounced
  BY CountedSets DEF NewItemsUnannounced
<1> QED
  BY ZenonT(40), <1>1, <1>2, <1>3 DEF CondInv, OnePerItem

\* The mutex steps inside the monitor: they leave the condition alone.
LEMMA MutexPartCalm ==
  ASSUME CondInv, NEW t \in Threads,
         MutexStep(t) \/ MutexInterrupted(t),
         UNCHANGED <<sequence, seen, items, made>>
  PROVE  CondPlaces' /\ Calm
<1> USE CondAssumption
    DEF CondInv, CondPlaces, CondLabels, Calm, Bound, Unannounced, GoingToSleep, Sleepers,
        Consumers, Goto, Return
<1>1. CASE FirstTry(t)
  BY SMTT(30), <1>1 DEF FirstTry
<1>2. CASE Exchange(t)
  BY SMTT(30), <1>2 DEF Exchange
<1>3. CASE MutexWait(t)
  BY SMTT(30), <1>3 DEF MutexWait, FutexSleep
<1>4. CASE MutexWoken(t)
  BY Zenon, <1>4 DEF MutexWoken
<1>5. CASE Taken(t)
  BY SMTT(30), <1>5 DEF Taken
<1>6. CASE Release(t)
  BY SMTT(30), <1>6 DEF Release
<1>7. CASE WakeOne(t)
  <2>1. /\ futex_wait_address' \in [Threads -> {"word", "sequence", NoAddr}]
        /\ \A u \in Threads : futex_wait_address'[u] # futex_wait_address[u]
             => futex_wait_address[u] = "word" /\ futex_wait_address'[u] = NoAddr
    BY <1>7, CondWakeEffect DEF WakeOne
  <2> QED
    BY ZenonT(40), <1>7, <2>1 DEF WakeOne
<1>8. ~DieRelease(t) /\ ~DieWake(t)
  BY Zenon DEF DieRelease, DieWake
<1>9. CASE MutexInterrupted(t)
  BY <1>9 DEF MutexInterrupted, FutexLeave, Asleep
<1> HIDE DEF CondPlaces, Calm
<1> QED
  BY ZenonT(40), <1>1, <1>2, <1>3, <1>4, <1>5, <1>6, <1>7, <1>8, <1>9 DEF MutexStep

\* The steps of the waiters and of the threads that only enter or leave.
LEMMA WaitersCalm ==
  ASSUME CondInv, NEW t \in Threads,
         \/ CondWoken(t) \/ CondRelock(t) \/ CondLeave(t) \/ Enter(t)
         \/ ProducerLeaves(t)
         \/ CondSleep(t) /\ ~FutexMatches(sequence, seen[t])
  PROVE  CondPlaces' /\ Calm
<1> USE CondAssumption
    DEF CondInv, CondPlaces, CondLabels, Calm, Bound, Unannounced, GoingToSleep, Sleepers,
        Consumers, Goto, condvars, client
<1>1. CASE CondWoken(t)
  BY Zenon, <1>1 DEF CondWoken, Asleep
<1>2. CASE CondRelock(t)
  BY ZenonT(120), <1>2 DEF CondRelock, LockEnter
<1>3. CASE CondLeave(t)
  BY Zenon, <1>3 DEF CondLeave, FutexLeave, Asleep
<1>4. CASE Enter(t)
  BY ZenonT(120), <1>4 DEF Enter, LockEnter
<1>5. CASE ProducerLeaves(t)
  BY ZenonT(120), <1>5 DEF ProducerLeaves, Unlock
<1>6. CASE CondSleep(t) /\ ~FutexMatches(sequence, seen[t])
  BY <1>6 DEF CondSleep
<1> HIDE DEF CondPlaces, Calm
<1> QED
  BY Zenon, <1>1, <1>2, <1>3, <1>4, <1>5, <1>6

\* The waiter the futex puts to sleep: it is no longer bound, but all the
\* items there are came from producers that have yet to move the sequence.
LEMMA SleepKeeps ==
  ASSUME CondInv, NEW t \in Threads, CondSleep(t), FutexMatches(sequence, seen[t])
  PROVE  CondInv'
<1>1. CondPlaces' /\ items' = items /\ items \in Nat
  BY SMTT(30), CondAssumption
  DEF CondInv, CondPlaces, CondLabels, CondSleep, FutexSleep, Goto, Consumers, condvars, client
<1>2. /\ \A u \in Threads : Unannounced(u) => Unannounced(u)'
      /\ \A u \in Threads : GoingToSleep(u)' => GoingToSleep(u)
  BY DEF CondInv, CondPlaces, CondSleep, Goto, Unannounced, GoingToSleep, condvars
<1>3. UnannouncedSet \subseteq UnannouncedSet'
  BY ZenonT(40), <1>2 DEF UnannouncedSet
<1>4. Cardinality(UnannouncedSet) <= Cardinality(UnannouncedSet')
  BY ZenonT(40), <1>3, CountedSetsNext, FS_Subset
<1>5. GoingToSleep(t)
  BY Zenon DEF CondSleep, GoingToSleep, FutexMatches
<1>6. items <= Cardinality(UnannouncedSet)
  BY ZenonT(40), <1>5 DEF CondInv, NewItemsUnannounced
<1>7. items' <= Cardinality(UnannouncedSet') /\ items' <= Cardinality(BoundSet')
  BY SMTT(30), <1>1, <1>4, <1>6, CountedSets, CountedSetsNext
<1> QED
  BY ZenonT(40), <1>1, <1>7 DEF CondInv, OnePerItem, NewItemsUnannounced

\* A consumer that finds no item and waits: nothing to count yet.
LEMMA WaitKeeps ==
  ASSUME CondInv, NEW t \in Threads, WaitForItem(t)
  PROVE  CondInv'
<1>1. CondPlaces'
  BY CondAssumption
  DEF CondInv, CondPlaces, CondLabels, WaitForItem, CondWait, Unlock, Goto, Consumers, client
<1>2. items' = 0
  BY Zenon DEF WaitForItem, CondWait, client
<1> QED
  BY SMTT(30), <1>1, <1>2, CountedSetsNext DEF CondInv, OnePerItem, NewItemsUnannounced

\* A new item comes with a producer that is bound to announce it.
LEMMA ProduceKeeps ==
  ASSUME CondInv, NEW t \in Threads, ProduceThenNotify(t) \/ NotifyUnderMutex(t)
  PROVE  CondInv'
<1> USE CondAssumption
<1>1. pc[t] = "user" /\ t \in Producers /\ t \notin Consumers
  BY ZenonT(40) DEF ProduceThenNotify, NotifyUnderMutex, Produce, Unlock, Consumers
<1>2. CondPlaces'
  BY <1>1 DEF CondInv, CondPlaces, CondLabels, ProduceThenNotify, NotifyUnderMutex, Produce,
              Unlock, Goto, Consumers, slotvars
<1>3. items \in Nat /\ items' = items + 1
  BY ZenonT(40) DEF CondInv, CondPlaces, ProduceThenNotify, NotifyUnderMutex, Produce
<1>4. /\ \A u \in Threads \ {t} : pc'[u] = pc[u] /\ ret'[u] = ret[u]
      /\ UNCHANGED <<futex_wait_address, sequence, seen>>
  BY Zenon DEF CondInv, CondPlaces, ProduceThenNotify, NotifyUnderMutex, Produce, Unlock, Goto
<1>5. Unannounced(t)' /\ ~GoingToSleep(t)'
  BY <1>1 DEF CondInv, CondPlaces, ProduceThenNotify, NotifyUnderMutex, Produce, Unlock, Goto,
              Unannounced, GoingToSleep, slotvars
<1>6. t \notin BoundSet /\ t \notin UnannouncedSet
  BY Zenon, <1>1 DEF BoundSet, UnannouncedSet, Bound, Unannounced
<1>7. BoundSet \cup {t} \subseteq BoundSet' /\ UnannouncedSet \cup {t} \subseteq UnannouncedSet'
  <2>1. \A u \in Threads \ {t} : (Bound(u) => Bound(u)') /\ (Unannounced(u) => Unannounced(u)')
    BY Zenon, <1>4 DEF Bound, Unannounced, Sleepers
  <2>2. Bound(t)'
    BY ZenonT(40), <1>5 DEF Bound, Unannounced
  <2> QED
    BY ZenonT(40), <1>5, <1>6, <2>1, <2>2 DEF BoundSet, UnannouncedSet
<1>8. /\ Cardinality(BoundSet) + 1 <= Cardinality(BoundSet')
      /\ Cardinality(UnannouncedSet) + 1 <= Cardinality(UnannouncedSet')
  <2>1. /\ Cardinality(BoundSet \cup {t}) = Cardinality(BoundSet) + 1
        /\ Cardinality(UnannouncedSet \cup {t}) = Cardinality(UnannouncedSet) + 1
    BY ZenonT(40), <1>6, CountedSets, FS_AddElement
  <2> QED
    BY SMTT(30), <1>7, <2>1, CountedSetsNext, FS_Subset
<1>9. OnePerItem'
  BY SMTT(30), <1>3, <1>4, <1>8, CountedSets, CountedSetsNext DEF CondInv, OnePerItem, Sleepers
<1>10. NewItemsUnannounced'
  <2>1. \A u \in Threads : GoingToSleep(u)' => GoingToSleep(u)
    BY Zenon, <1>4, <1>5 DEF GoingToSleep
  <2> QED
    BY SMTT(30), <1>3, <1>8, <2>1, CountedSets, CountedSetsNext DEF CondInv, NewItemsUnannounced
<1> QED
  BY ZenonT(40), <1>2, <1>9, <1>10 DEF CondInv

\* A consumer takes one item and is one bound thread less.
LEMMA ConsumeKeeps ==
  ASSUME CondInv, NEW t \in Threads, Consume(t)
  PROVE  CondInv'
<1> USE CondAssumption
<1>1. pc[t] = "user" /\ t \in Consumers /\ items > 0
  BY ZenonT(40) DEF Consume, Unlock
<1>2. CondPlaces'
  BY <1>1 DEF CondInv, CondPlaces, CondLabels, Consume, Unlock, Goto, Consumers
<1>3. items \in Nat /\ items' = items - 1
  BY Zenon DEF CondInv, CondPlaces, Consume
<1>4. /\ \A u \in Threads \ {t} : pc'[u] = pc[u] /\ ret'[u] = ret[u]
      /\ UNCHANGED <<futex_wait_address, sequence, seen>>
  BY Zenon DEF CondInv, CondPlaces, Consume, Unlock, Goto
<1>5. ~Unannounced(t) /\ ~GoingToSleep(t)'
  BY Zenon, <1>1 DEF CondInv, CondPlaces, Consume, Unlock, Goto, Unannounced, GoingToSleep
<1>6. BoundSet \ {t} \subseteq BoundSet' /\ UnannouncedSet \subseteq UnannouncedSet'
  <2>1. \A u \in Threads \ {t} : (Bound(u) => Bound(u)') /\ (Unannounced(u) => Unannounced(u)')
    BY Zenon, <1>4 DEF Bound, Unannounced, Sleepers
  <2> QED
    BY Zenon, <1>5, <2>1 DEF BoundSet, UnannouncedSet
<1>7. /\ Cardinality(BoundSet) - 1 <= Cardinality(BoundSet')
      /\ Cardinality(UnannouncedSet) <= Cardinality(UnannouncedSet')
  <2>1. t \in BoundSet
    BY Zenon, <1>1 DEF CondInv, CondPlaces, BoundSet, Bound, Sleepers
  <2>2. Cardinality(BoundSet \ {t}) = Cardinality(BoundSet) - 1
    BY ZenonT(40), <2>1, CountedSets, FS_RemoveElement
  <2> QED
    BY ZenonT(40), <1>6, <2>2, CountedSetsNext, FS_Subset
<1>8. OnePerItem'
  BY SMTT(30), <1>3, <1>4, <1>7, CountedSets, CountedSetsNext DEF CondInv, OnePerItem, Sleepers
<1>9. NewItemsUnannounced'
  <2>1. \A u \in Threads : GoingToSleep(u)' => GoingToSleep(u)
    BY ZenonT(40), <1>4, <1>5 DEF GoingToSleep
  <2> QED
    BY SMTT(30), <1>3, <1>7, <2>1, CountedSets, CountedSetsNext DEF CondInv, NewItemsUnannounced
<1> QED
  BY ZenonT(40), <1>2, <1>8, <1>9 DEF CondInv

\* The sequence moves: nobody who read it before will sleep, and the
\* producer still owes the wake-up.
LEMMA BumpKeeps ==
  ASSUME CondInv, NEW t \in Threads, CondBump(t)
  PROVE  CondInv'
<1> USE CondAssumption
<1>1. CondPlaces'
  BY DEF CondInv, CondPlaces, CondLabels, CondBump, Goto, client, slotvars, Consumers
<1>2. items \in Nat /\ items' = items /\ UNCHANGED futex_wait_address
  BY ZenonT(40) DEF CondInv, CondPlaces, CondBump, client
<1>3. \A u \in Threads : ~GoingToSleep(u)'
  BY DEF CondInv, CondPlaces, CondBump, GoingToSleep
<1>4. BoundSet \subseteq BoundSet'
  <2>1. \A u \in Threads : Bound(u) => Bound(u)'
    BY ZenonT(40) DEF CondInv, CondPlaces, CondBump, Goto, Bound, Sleepers
  <2> QED
    BY ZenonT(40), <2>1 DEF BoundSet
<1>5. Cardinality(BoundSet) <= Cardinality(BoundSet')
  BY SMTT(30), <1>4, CountedSetsNext, FS_Subset
<1>6. OnePerItem'
  BY SMTT(30), <1>2, <1>5, CountedSets, CountedSetsNext DEF CondInv, OnePerItem, Sleepers
<1> QED
  BY Zenon, <1>1, <1>3, <1>6 DEF CondInv, NewItemsUnannounced

\* The wake-up: the producer is done, and if a consumer still sleeps it has
\* passed its obligation on to one it woke.
LEMMA WakeKeeps ==
  ASSUME CondInv, NEW t \in Threads, CondWake(t)
  PROVE  CondInv'
<1> USE CondAssumption
<1>1. Cardinality(Threads) \in Nat /\ Cardinality(Threads) > 0
  BY FS_CardinalityType, FS_EmptySet
<1>2. futex_wait_address \in [Threads -> {"word", "sequence", NoAddr}]
  BY Zenon DEF CondInv, CondPlaces
<1>3. /\ futex_wait_address' \in [Threads -> {"word", "sequence", NoAddr}]
      /\ \A u \in Threads : futex_wait_address'[u] # futex_wait_address[u]
           => futex_wait_address[u] = "sequence" /\ futex_wait_address'[u] = NoAddr
      /\ Sleepers("sequence")' # {} =>
           \E u \in Threads : futex_wait_address[u] = "sequence"
                              /\ futex_wait_address'[u] = NoAddr
  <2>1. CASE t \in Broadcasters
    BY ZenonT(40), <1>1, <1>2, <2>1, CondWakeEffect DEF CondWake
  <2>2. CASE t \notin Broadcasters
    BY SMTT(30), <1>2, <2>2, CondWakeEffect DEF CondWake
  <2> QED
    BY Zenon, <2>1, <2>2
<1>4. /\ pc[t] = "cond_wake" /\ t \notin Consumers
      /\ pc' = [pc EXCEPT ![t] = IF depth[t] > 0 THEN "user" ELSE "dead"]
      /\ UNCHANGED <<ret, sequence, seen, items, made>>
  BY ZenonT(40) DEF CondInv, CondPlaces, CondWake, Goto, condvars, client
<1>5. CondPlaces'
  BY SMTT(30), <1>3, <1>4 DEF CondInv, CondPlaces, CondLabels, Consumers
<1>6. UnannouncedSet \subseteq UnannouncedSet'
  <2>1. \A u \in Threads : Unannounced(u) => Unannounced(u)'
    BY ZenonT(40), <1>4 DEF CondInv, CondPlaces, Unannounced
  <2> QED
    BY Zenon, <2>1 DEF UnannouncedSet
<1>7. Cardinality(UnannouncedSet) <= Cardinality(UnannouncedSet')
  BY ZenonT(40), <1>6, CountedSetsNext, FS_Subset
<1>8. NewItemsUnannounced'
  <2>1. \A u \in Threads : GoingToSleep(u)' => GoingToSleep(u)
    BY ZenonT(40), <1>4 DEF CondInv, CondPlaces, GoingToSleep
  <2>2. items \in Nat
    BY ZenonT(40) DEF CondInv, CondPlaces
  <2> QED
    BY SMTT(30), <1>4, <1>7, <2>1, <2>2, CountedSets, CountedSetsNext DEF CondInv, NewItemsUnannounced
<1>9. ASSUME Sleepers("sequence")' # {} PROVE items' <= Cardinality(BoundSet')
  <2>1. PICK w \in Threads : futex_wait_address[w] = "sequence"
                             /\ futex_wait_address'[w] = NoAddr
    BY ZenonT(40), <1>3, <1>9
  <2>2. pc[w] = "cond_asleep" /\ ret[w] = "cond_wait" /\ w \in Consumers /\ w # t
    BY ZenonT(40), <1>4, <2>1 DEF CondInv, CondPlaces, Consumers
  <2>3. w \notin BoundSet /\ w \in Sleepers("sequence")
    BY ZenonT(40), <2>1, <2>2 DEF BoundSet, Bound, Sleepers
  <2>4. Bound(w)'
    BY Zenon, <1>4, <2>1, <2>2 DEF Bound, Sleepers, CondInv, CondPlaces
  <2>5. \A u \in Threads \ {t} : Bound(u) => Bound(u)'
    BY SMTT(30), <1>3, <1>4 DEF CondInv, CondPlaces, Bound, Sleepers
  <2>6. (BoundSet \ {t}) \cup {w} \subseteq BoundSet'
    BY ZenonT(40), <2>4, <2>5 DEF BoundSet
  <2>7. t \in BoundSet
    BY ZenonT(40), <1>4 DEF BoundSet, Bound
  <2>8. /\ IsFiniteSet(BoundSet \ {t})
        /\ Cardinality(BoundSet \ {t}) = Cardinality(BoundSet) - 1
    BY SMTT(30), <2>7, CountedSets, FS_RemoveElement
  <2>9. Cardinality((BoundSet \ {t}) \cup {w}) = Cardinality(BoundSet)
    <3>1. w \notin BoundSet \ {t}
      BY ZenonT(40), <2>3
    <3>2. Cardinality((BoundSet \ {t}) \cup {w}) = Cardinality(BoundSet \ {t}) + 1
      BY ZenonT(40), <2>8, <3>1, FS_AddElement
    <3> QED
      BY SMTT(30), <2>8, <3>2, CountedSets
  <2>10. Cardinality(BoundSet) <= Cardinality(BoundSet')
    BY ZenonT(40), <2>6, <2>9, CountedSetsNext, FS_Subset
  <2>11. items \in Nat /\ items <= Cardinality(BoundSet)
    BY ZenonT(40), <2>3 DEF CondInv, CondPlaces, OnePerItem
  <2> QED
    BY SMTT(30), <1>4, <2>10, <2>11, CountedSets, CountedSetsNext
<1> QED
  BY ZenonT(40), <1>5, <1>8, <1>9 DEF CondInv, OnePerItem

\* The inductive step.
LEMMA CondStepInv == CondInv /\ [CondNext]_vars => CondInv'
<1> SUFFICES ASSUME CondInv, [CondNext]_vars PROVE CondInv'
  OBVIOUS
<1>1. CASE UNCHANGED vars
  <2>1. CondPlaces' /\ Calm
    BY ZenonT(40), <1>1 DEF CondInv, CondPlaces, Calm, Bound, Unannounced, GoingToSleep, Sleepers,
                vars, mutexvars, condvars, client
  <2> QED
    BY ZenonT(40), <2>1, CalmKeeps
<1>2. ASSUME NEW t \in Threads, CondStep(t) PROVE CondInv'
  <2>1. CASE MutexStep(t) /\ UNCHANGED condvars
    BY ZenonT(40), <2>1, MutexPartCalm, CalmKeeps DEF condvars, client
  <2>2. CASE CondSleep(t)
    BY Zenon, <2>2, SleepKeeps, WaitersCalm, CalmKeeps
  <2>3. CASE CondWoken(t) \/ CondRelock(t)
    BY Zenon, <2>3, WaitersCalm, CalmKeeps
  <2> QED
    BY ZenonT(40), <1>2, <2>1, <2>2, <2>3, BumpKeeps, WakeKeeps DEF CondStep
<1>3. ASSUME NEW t \in Threads, Monitor(t) PROVE CondInv'
  BY SMTT(30), <1>3, WaitersCalm, CalmKeeps, ConsumeKeeps, WaitKeeps, ProduceKeeps DEF Monitor
<1>4. ASSUME NEW t \in Threads, CondLeave(t) PROVE CondInv'
  BY ZenonT(40), <1>4, WaitersCalm, CalmKeeps
<1>5. ASSUME NEW t \in Threads, MutexInterrupted(t),
             UNCHANGED <<sequence, seen, waiters, items, made>>
      PROVE  CondInv'
  BY ZenonT(40), <1>5, MutexPartCalm, CalmKeeps
<1> QED
  BY ZenonT(40), <1>1, <1>2, <1>3, <1>4, <1>5 DEF CondNext

\* A condition variable loses no wake-up: a consumer that sleeps beside an
\* item is owed one, by a notification under way or by a consumer past its
\* wait.  For any number of producers and consumers, signals and broadcasts,
\* under the mutex or after it, and any number of deadlines and signals that
\* end a wait early.
THEOREM NoSleepBesideItemCorrect == CondSpec => []NoSleepBesideItem
<1>1. CondInv => NoSleepBesideItem
  <2> SUFFICES ASSUME CondInv, items > 0, Sleepers("sequence") # {}
               PROVE  \E t \in Threads : Bound(t)
    BY Zenon DEF NoSleepBesideItem, Bound
  <2>1. items \in Nat /\ items <= Cardinality(BoundSet)
    BY Zenon DEF CondInv, CondPlaces, OnePerItem
  <2>2. BoundSet # {}
    BY <2>1, FS_EmptySet
  <2> QED
    BY Zenon, <2>2 DEF BoundSet
<1> QED
  BY <1>1, CondInitInv, CondStepInv, PTL DEF CondSpec

=============================================================================

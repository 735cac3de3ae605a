------------------------------ MODULE SyncProof ------------------------------
(***************************************************************************)
(* SyncInv is an invariant of module Sync, for any number of tasks, of     *)
(* threads among them and of objects.  A call on one kind of object leaves *)
(* the tasks that are in calls on another kind where they are (Spares), so *)
(* each call is looked at for its own kind only; the death of a process or *)
(* a thread concerns all of them.                                          *)
(***************************************************************************)
EXTENDS SyncInv, ListLemmas

\* The queue q links just the tasks that are blocked in call f, when w and c are where
\* the tasks are and their calls.
LinkedAs(q, f, w, c) ==
  /\ q \in Seq(Tasks) /\ IsInjective(q)
  /\ \A t \in Tasks : Contains(q, t) <=> w[t] = "blocked" /\ c[t] = f

MutexLinked(q, w, c)   == \A m \in Mutexes : LinkedAs(q[m], <<"acquire", m>>, w, c)
SemaLinked(q, w, c)    == \A s \in Semaphores : LinkedAs(q[s], <<"down", s>>, w, c)
BarrierLinked(q, w, c) == \A b \in Barriers : LinkedAs(q[b], <<"wait", b>>, w, c)

\* What is in the way of f[1] = f[2] for the calls of module Sync.
LEMMA CallNames ==
  /\ None \notin Waits
  /\ AcquireCalls \cap DownCalls = {} /\ AcquireCalls \cap WaitCalls = {}
  /\ DownCalls \cap WaitCalls = {}
  /\ \A m : <<"acquire", m>> \in AcquireCalls <=> m \in Mutexes
  /\ \A s : <<"down", s>> \in DownCalls <=> s \in Semaphores
  /\ \A b : <<"wait", b>> \in WaitCalls <=> b \in Barriers
  /\ \A m, n : <<"acquire", m>> = <<"acquire", n>> => m = n
  /\ \A r, s : <<"down", r>> = <<"down", s>> => r = s
  /\ \A a, b : <<"wait", a>> = <<"wait", b>> => a = b
BY DEF Waits, AcquireCalls, DownCalls, WaitCalls, None

LEMMA LinkedParts ==
  SyncTypeOK =>
    (WaitersLinked <=> /\ \A t \in Tasks : where[t] = "blocked" => call[t] \in Waits
                       /\ MutexLinked(m_queue, where, call)
                       /\ SemaLinked(s_queue, where, call)
                       /\ BarrierLinked(b_queue, where, call))
<1>. SUFFICES ASSUME SyncTypeOK
     PROVE  WaitersLinked <=> /\ \A t \in Tasks : where[t] = "blocked" => call[t] \in Waits
                              /\ MutexLinked(m_queue, where, call)
                              /\ SemaLinked(s_queue, where, call)
                              /\ BarrierLinked(b_queue, where, call)
  OBVIOUS
<1>1. /\ \A m \in Mutexes : m_queue[m] \in Seq(Tasks)
      /\ \A s \in Semaphores : s_queue[s] \in Seq(Tasks)
      /\ \A b \in Barriers : b_queue[b] \in Seq(Tasks)
  BY DEF SyncTypeOK
<1>2. /\ \A m \in Mutexes : QueueOf(<<"acquire", m>>) = m_queue[m]
      /\ \A s \in Semaphores : QueueOf(<<"down", s>>) = s_queue[s]
      /\ \A b \in Barriers : QueueOf(<<"wait", b>>) = b_queue[b]
  BY DEF QueueOf
<1>3. ASSUME NEW q \in Seq(Tasks), NEW f
      PROVE  LinkedAs(q, f, where, call)
               <=> /\ IsInjective(q)
                   /\ ToSet(q) = {t \in Tasks : where[t] = "blocked" /\ call[t] = f}
  BY SetOfElements DEF LinkedAs
<1>. DEFINE Good(f) == /\ IsInjective(QueueOf(f))
                       /\ ToSet(QueueOf(f)) = {t \in Tasks : where[t] = "blocked" /\ call[t] = f}
<1>4. MutexLinked(m_queue, where, call) <=> \A m \in Mutexes : Good(<<"acquire", m>>)
  BY <1>1, <1>2, <1>3 DEF MutexLinked
<1>5. SemaLinked(s_queue, where, call) <=> \A s \in Semaphores : Good(<<"down", s>>)
  BY <1>1, <1>2, <1>3 DEF SemaLinked
<1>6. BarrierLinked(b_queue, where, call) <=> \A b \in Barriers : Good(<<"wait", b>>)
  <2>1. ASSUME NEW b \in Barriers
        PROVE  LinkedAs(b_queue[b], <<"wait", b>>, where, call) <=> Good(<<"wait", b>>)
    BY <1>1, <1>2, <1>3
  <2>. QED
    BY <2>1 DEF BarrierLinked
<1>7. WaitersLinked <=> /\ \A t \in Tasks : where[t] = "blocked" => call[t] \in Waits
                        /\ \A f \in Waits : Good(f)
  BY DEF WaitersLinked
<1>. HIDE DEF Good
<1>8. (\A f \in Waits : Good(f)) <=> /\ \A m \in Mutexes : Good(<<"acquire", m>>)
                                     /\ \A s \in Semaphores : Good(<<"down", s>>)
                                     /\ \A b \in Barriers : Good(<<"wait", b>>)
  BY DEF Waits, AcquireCalls, DownCalls, WaitCalls
<1>. QED
  BY <1>4, <1>5, <1>6, <1>7, <1>8

LEMMA LinkedPartsNext ==
  SyncTypeOK' =>
    (WaitersLinked' <=> /\ \A t \in Tasks : where'[t] = "blocked" => call'[t] \in Waits
                        /\ MutexLinked(m_queue', where', call')
                        /\ SemaLinked(s_queue', where', call')
                        /\ BarrierLinked(b_queue', where', call'))
<1>1. (SyncTypeOK =>
         (WaitersLinked <=> /\ \A t \in Tasks : where[t] = "blocked" => call[t] \in Waits
                            /\ MutexLinked(m_queue, where, call)
                            /\ SemaLinked(s_queue, where, call)
                            /\ BarrierLinked(b_queue, where, call)))'
  BY LinkedParts, PTL
<1>. QED
  BY <1>1 DEF MutexLinked, SemaLinked, BarrierLinked, LinkedAs

\* The step leaves the tasks in the calls F where they are, and nobody enters one.
Spares(F) ==
  /\ \A t \in Tasks : call[t] \in F \/ call'[t] \in F
                       => call'[t] = call[t] /\ where'[t] = where[t]
  /\ \A t \in Tasks : where'[t] = "dead" <=> where[t] = "dead"
  /\ UNCHANGED main

LEMMA LinkedSpared ==
  ASSUME NEW q, NEW f, NEW F, f \in F, Spares(F), LinkedAs(q, f, where, call)
  PROVE  LinkedAs(q, f, where', call')
BY DEF LinkedAs, Spares

\* do_block: the task joins the queue of its call, and no other.
LEMMA LinkedBlock ==
  ASSUME NEW q, NEW f, NEW g, NEW t \in Tasks, SyncTypeOK, Block(t, f),
         where[t] # "blocked", LinkedAs(q, g, where, call)
  PROVE  LinkedAs(IF f = g THEN Append(q, t) ELSE q, g, where', call')
<1>1. /\ q \in Seq(Tasks) /\ IsInjective(q)
      /\ \A u \in Tasks : Contains(q, u) <=> where[u] = "blocked" /\ call[u] = g
  BY DEF LinkedAs
<1>2. \A u \in Tasks : /\ where'[u] = IF u = t THEN "blocked" ELSE where[u]
                       /\ call'[u] = IF u = t THEN f ELSE call[u]
  BY DEF Block, SyncTypeOK
<1>3. ~Contains(q, t)
  BY <1>1
<1>4. /\ Append(q, t) \in Seq(Tasks) /\ IsInjective(Append(q, t))
      /\ \A x : Contains(Append(q, t), x) <=> Contains(q, x) \/ x = t
  BY <1>1, <1>3, AppendElements
<1>5. CASE f = g
  BY <1>1, <1>2, <1>4, <1>5 DEF LinkedAs
<1>6. CASE f # g
  BY <1>1, <1>2, <1>6 DEF LinkedAs
<1>. QED
  BY <1>5, <1>6

\* The tasks G leave the queues.
LEMMA LinkedLeave ==
  ASSUME NEW q, NEW r \in Seq(Tasks), NEW f, NEW G, LinkedAs(q, f, where, call),
         IsInjective(r),
         \A u \in Tasks : Contains(r, u) <=> Contains(q, u) /\ u \notin G,
         \A u \in Tasks : where'[u] = "blocked" /\ call'[u] = f
                            <=> where[u] = "blocked" /\ call[u] = f /\ u \notin G
  PROVE  LinkedAs(r, f, where', call')
BY DEF LinkedAs

\* do_unblock and do_unblock of all.
LEMMA LinkedFirst ==
  ASSUME NEW q, NEW f, LinkedAs(q, f, where, call)
  PROVE  /\ First(q) \subseteq Tasks
         /\ \A u \in First(q) : where[u] = "blocked" /\ call[u] = f
         /\ Rest(q) \in Seq(Tasks) /\ IsInjective(Rest(q))
         /\ \A u \in Tasks : Contains(Rest(q), u) <=> Contains(q, u) /\ u \notin First(q)
<1>1. /\ q \in Seq(Tasks) /\ IsInjective(q)
      /\ \A u \in Tasks : Contains(q, u) <=> where[u] = "blocked" /\ call[u] = f
  BY DEF LinkedAs
<1>2. /\ Rest(q) \in Seq(Tasks) /\ First(q) \subseteq Tasks
      /\ \A x : Contains(q, x) <=> x \in First(q) \/ Contains(Rest(q), x)
      /\ IsInjective(Rest(q)) /\ \A x \in First(q) : ~Contains(Rest(q), x)
  BY <1>1, RestElements
<1>. QED
  BY <1>1, <1>2

LEMMA LinkedAll ==
  ASSUME NEW q, NEW f, LinkedAs(q, f, where, call)
  PROVE  ToSet(q) = {u \in Tasks : where[u] = "blocked" /\ call[u] = f}
BY SetOfElements DEF LinkedAs

LEMMA EmptyQueue == /\ <<>> \in Seq(Tasks) /\ IsInjective(<<>>)
                    /\ \A u : ~Contains(<<>>, u)
BY DEF IsInjective, Contains

\* A step that spares the tasks in the calls of one kind, and does not touch the
\* objects of that kind, keeps what holds of them.
MutexTypeOK ==
  /\ m_apply \in [Mutexes -> Nat] /\ m_key \in [Mutexes -> MutexKeys \cup {0}]
  /\ m_pid \in [Mutexes -> Tasks \cup {None}]
  /\ m_locked \in [Mutexes -> BOOLEAN] /\ m_queue \in [Mutexes -> Seq(Tasks)]
  /\ mlock_ocp \in [Tasks -> SUBSET Mutexes] /\ m_holds \in [Tasks -> SUBSET Mutexes]
  /\ m_forgotten \subseteq Mutexes /\ m_kept \subseteq Mutexes
SemaTypeOK ==
  /\ s_pid \in [Semaphores -> Tasks \cup {None}]
  /\ s_value \in [Semaphores -> Nat] /\ s_init \in [Semaphores -> Nat]
  /\ s_lost \in [Semaphores -> Nat] /\ s_queue \in [Semaphores -> Seq(Tasks)]
  /\ s_handed \in [Semaphores -> SUBSET Tasks] /\ s_inside \in [Semaphores -> SUBSET Tasks]
BarrierTypeOK ==
  /\ b_pid \in [Barriers -> Tasks \cup {None}]
  /\ b_goal \in [Barriers -> Nat] /\ b_value \in [Barriers -> Nat]
  /\ b_queue \in [Barriers -> Seq(Tasks)] /\ b_passed \in [Barriers -> [Tasks -> Nat]]

MutexInv   == /\ MutexTypeOK /\ MutexClaims /\ MutexSlotsExact /\ MutexExcludes
              /\ MutexWaitersServed
SemaInv    == SemaTypeOK /\ SemaTokens /\ SemaConserves
BarrierInv == BarrierTypeOK /\ BarrierCounts /\ BarrierTogether

LEMMA MutexSpared ==
  ASSUME SyncInv, Spares(AcquireCalls), UNCHANGED mutexVars
  PROVE  MutexInv' /\ MutexLinked(m_queue', where', call')
<1>1. \A t \in Tasks, m \in Mutexes :
        /\ call'[t] = <<"acquire", m>> <=> call[t] = <<"acquire", m>>
        /\ Resumes(t, <<"acquire", m>>)' <=> Resumes(t, <<"acquire", m>>)
  BY CallNames DEF Spares, Resumes
<1>2. /\ \A t \in Tasks : where'[t] = "dead" <=> where[t] = "dead"
      /\ UNCHANGED main
  BY DEF Spares
<1>3. MutexClaims'
  BY <1>1, <1>2 DEF SyncInv, MutexClaims, mutexVars
<1>4. MutexSlotsExact'
  BY DEF SyncInv, MutexSlotsExact, mutexVars
<1>5. MutexExcludes'
  BY <1>2 DEF SyncInv, MutexExcludes, mutexVars
<1>6. MutexWaitersServed'
  BY <1>1 DEF SyncInv, MutexWaitersServed, mutexVars
<1>7. MutexLinked(m_queue, where, call)
  BY LinkedParts DEF SyncInv
<1>8. MutexLinked(m_queue', where', call')
  BY <1>7, LinkedSpared, CallNames DEF MutexLinked, mutexVars
<1>9. MutexTypeOK'
  BY DEF SyncInv, SyncTypeOK, MutexTypeOK, mutexVars
<1>. QED
  BY <1>3, <1>4, <1>5, <1>6, <1>8, <1>9 DEF MutexInv

LEMMA SemaSpared ==
  ASSUME SyncInv, Spares(DownCalls), UNCHANGED semaVars
  PROVE  SemaInv' /\ SemaLinked(s_queue', where', call')
<1>1. \A t \in Tasks, s \in Semaphores :
        /\ call'[t] = <<"down", s>> <=> call[t] = <<"down", s>>
        /\ Resumes(t, <<"down", s>>)' <=> Resumes(t, <<"down", s>>)
  BY CallNames DEF Spares, Resumes
<1>2. \A s \in Semaphores : s_handed[s] \subseteq Tasks /\ s_inside[s] \subseteq Tasks
  BY DEF SyncInv, SyncTypeOK
<1>3. SemaTokens'
  BY <1>1, <1>2 DEF SyncInv, SemaTokens, semaVars
<1>4. SemaConserves'
  BY DEF SyncInv, SemaConserves, semaVars
<1>5. SemaLinked(s_queue, where, call)
  BY LinkedParts DEF SyncInv
<1>6. SemaLinked(s_queue', where', call')
  BY <1>5, LinkedSpared, CallNames DEF SemaLinked, semaVars
<1>9. SemaTypeOK'
  BY DEF SyncInv, SyncTypeOK, SemaTypeOK, semaVars
<1>. QED
  BY <1>3, <1>4, <1>6, <1>9 DEF SemaInv

LEMMA BarrierSpared ==
  ASSUME SyncInv, Spares(WaitCalls), UNCHANGED barrierVars
  PROVE  BarrierInv' /\ BarrierLinked(b_queue', where', call')
<1>1. \A b \in Barriers : Absent(b)' = Absent(b)
  BY CallNames, SMTT(60) DEF Spares, Absent
<1>2. \A t \in Tasks : Alive(t)' <=> Alive(t)
  BY DEF Spares, Alive
<1>3. BarrierCounts'
  BY <1>1 DEF SyncInv, BarrierCounts, barrierVars
<1>4. BarrierTogether'
  BY <1>2 DEF SyncInv, BarrierTogether, barrierVars
<1>5. BarrierLinked(b_queue, where, call)
  BY LinkedParts DEF SyncInv
<1>6. BarrierLinked(b_queue', where', call')
  BY <1>5, LinkedSpared, CallNames DEF BarrierLinked, barrierVars
<1>9. BarrierTypeOK'
  BY DEF SyncInv, SyncTypeOK, BarrierTypeOK, barrierVars
<1>. QED
  BY <1>3, <1>4, <1>6, <1>9 DEF BarrierInv

PlacesOK ==
  /\ where \in [Tasks -> Wheres] /\ call \in [Tasks -> {None} \cup Waits]
  /\ main \in Families
  /\ OutsideCalls
  /\ \A t \in Tasks : where[t] = "blocked" => call[t] \in Waits

LEMMA Assembled ==
  ASSUME PlacesOK',
         MutexInv', MutexLinked(m_queue', where', call'),
         SemaInv', SemaLinked(s_queue', where', call'),
         BarrierInv', BarrierLinked(b_queue', where', call')
  PROVE  SyncInv'
<1>1. SyncTypeOK'
  BY DEF SyncTypeOK, PlacesOK, MutexInv, MutexTypeOK, SemaInv, SemaTypeOK, BarrierInv,
         BarrierTypeOK
<1>2. WaitersLinked'
  BY <1>1, LinkedPartsNext DEF PlacesOK
<1>. QED
  BY <1>1, <1>2 DEF SyncInv, PlacesOK, MutexInv, SemaInv, BarrierInv

\* What the invariant says, part by part.
LEMMA Parts ==
  ASSUME SyncInv
  PROVE  /\ PlacesOK /\ MutexInv /\ SemaInv /\ BarrierInv
         /\ MutexLinked(m_queue, where, call) /\ SemaLinked(s_queue, where, call)
         /\ BarrierLinked(b_queue, where, call)
<1>1. SyncTypeOK
  BY DEF SyncInv
<1>2. /\ \A t \in Tasks : where[t] = "blocked" => call[t] \in Waits
      /\ MutexLinked(m_queue, where, call) /\ SemaLinked(s_queue, where, call)
      /\ BarrierLinked(b_queue, where, call)
  BY <1>1, LinkedParts DEF SyncInv
<1>3. MutexTypeOK /\ SemaTypeOK /\ BarrierTypeOK
  BY <1>1 DEF SyncTypeOK, MutexTypeOK, SemaTypeOK, BarrierTypeOK
<1>4. PlacesOK
  BY <1>1, <1>2 DEF PlacesOK, SyncTypeOK, SyncInv
<1>. QED
  BY <1>2, <1>3, <1>4 DEF SyncInv, MutexInv, SemaInv, BarrierInv

-----------------------------------------------------------------------------
(* The places and calls of the tasks.                                       *)

LEMMA Blocked ==
  ASSUME SyncInv, NEW t \in Tasks, NEW f \in Waits, NEW F, where[t] \in {"user", "woken"},
         Block(t, f), UNCHANGED main, f \notin F, call[t] \notin F
  PROVE  PlacesOK' /\ Spares(F)
<1>1. PlacesOK
  BY Parts
<1>2. \A u \in Tasks : /\ where'[u] = IF u = t THEN "blocked" ELSE where[u]
                       /\ call'[u] = IF u = t THEN f ELSE call[u]
  BY <1>1 DEF Block, PlacesOK
<1>3. PlacesOK'
  BY <1>1, <1>2 DEF Block, PlacesOK, OutsideCalls, Wheres
<1>4. Spares(F)
  BY <1>2 DEF Spares
<1>. QED
  BY <1>3, <1>4

LEMMA Returned ==
  ASSUME SyncInv, NEW t \in Tasks, NEW F, where[t] \in {"user", "woken"},
         Return(t), UNCHANGED main, None \notin F, call[t] \notin F
  PROVE  PlacesOK' /\ Spares(F)
<1>1. PlacesOK
  BY Parts
<1>2. \A u \in Tasks : /\ where'[u] = IF u = t THEN "user" ELSE where[u]
                       /\ call'[u] = IF u = t THEN None ELSE call[u]
  BY <1>1 DEF Return, PlacesOK
<1>3. PlacesOK'
  BY <1>1, <1>2 DEF Return, PlacesOK, OutsideCalls, Wheres
<1>4. Spares(F)
  BY <1>2 DEF Spares
<1>. QED
  BY <1>3, <1>4

LEMMA Unblocked ==
  ASSUME SyncInv, NEW G, NEW F, \A u \in G : where[u] = "blocked" /\ call[u] \notin F,
         where' = Unblock(G), UNCHANGED <<call, main>>
  PROVE  PlacesOK' /\ Spares(F)
<1>1. PlacesOK
  BY Parts
<1>2. \A u \in Tasks : where'[u] = IF u \in G THEN "woken" ELSE where[u]
  BY DEF Unblock
<1>3. PlacesOK'
  <2>1. where' \in [Tasks -> Wheres]
    BY <1>1 DEF Unblock, PlacesOK, Wheres
  <2>. QED
    BY <1>1, <1>2, <2>1 DEF PlacesOK, OutsideCalls
<1>4. Spares(F)
  BY <1>2 DEF Spares
<1>. QED
  BY <1>3, <1>4

LEMMA Unmoved ==
  ASSUME SyncInv, UNCHANGED <<where, call, main>>, NEW F
  PROVE  PlacesOK' /\ Spares(F)
<1>1. PlacesOK
  BY Parts
<1>. QED
  BY <1>1 DEF PlacesOK, OutsideCalls, Spares

-----------------------------------------------------------------------------
(* Mutex locks.                                                             *)

Applicants(m) == {t \in Tasks : m \in mlock_ocp[t]}
Holders(m)    == {t \in Tasks : m \in m_holds[t]}

\* A set of tasks is finite, and what one more or one less means.
LEMMA TaskSets ==
  ASSUME NEW A \in SUBSET Tasks
  PROVE  /\ IsFiniteSet(A) /\ Cardinality(A) \in Nat
         /\ Cardinality(A) = 0 <=> A = {}
         /\ \A t : Cardinality({t}) = 1
         /\ \A t \in Tasks \ A : Cardinality(A \cup {t}) = Cardinality(A) + 1
         /\ \A t \in A : Cardinality(A \ {t}) = Cardinality(A) - 1
         /\ \A B \in SUBSET A : /\ Cardinality(A \ B) = Cardinality(A) - Cardinality(B)
                                /\ Cardinality(B) <= Cardinality(A)
                                /\ Cardinality(B) = Cardinality(A) => A = B
<1>1. IsFiniteSet(A) /\ Cardinality(A) \in Nat
  BY TasksAssumption, FS_Subset, FS_CardinalityType
<1>2. Cardinality(A) = 0 <=> A = {}
  BY <1>1, FS_EmptySet
<1>3. \A t : Cardinality({t}) = 1
  BY FS_Singleton
<1>4. \A t \in Tasks \ A : Cardinality(A \cup {t}) = Cardinality(A) + 1
  BY <1>1, FS_AddElement
<1>5. \A t \in A : Cardinality(A \ {t}) = Cardinality(A) - 1
  BY <1>1, FS_RemoveElement
<1>6. ASSUME NEW B \in SUBSET A
      PROVE  /\ Cardinality(A \ B) = Cardinality(A) - Cardinality(B)
             /\ Cardinality(B) <= Cardinality(A)
             /\ Cardinality(B) = Cardinality(A) => A = B
  <2>1. IsFiniteSet(B) /\ Cardinality(B) \in Nat /\ Cardinality(B) <= Cardinality(A)
    BY <1>1, FS_Subset, FS_CardinalityType
  <2>2. Cardinality(B) = Cardinality(A) => A = B
    BY <1>1, FS_Subset
  <2>3. Cardinality(A \ B) = Cardinality(A) - Cardinality(A \cap B)
    BY <1>1, <2>1, FS_Difference
  <2>4. A \cap B = B
    OBVIOUS
  <2>. QED
    BY <2>1, <2>2, <2>3, <2>4
<1>. QED
  BY <1>1, <1>2, <1>3, <1>4, <1>5, <1>6

\* A slot that nobody uses has neither a holder nor a waiter.
FreeSlots == \A m \in Mutexes : m_apply[m] = 0 =>
               (m_locked[m] => m \in m_kept) /\ m_queue[m] = <<>>

LEMMA SlotsFree ==
  /\ MutexTypeOK /\ MutexClaims /\ MutexExcludes
  /\ MutexLinked(m_queue, where, call)
  /\ \A m \in Mutexes : m_apply[m] = Cardinality(Applicants(m))
  => FreeSlots
<1>. SUFFICES ASSUME MutexTypeOK, MutexClaims, MutexExcludes,
                     MutexLinked(m_queue, where, call),
                     NEW m \in Mutexes, m_apply[m] = Cardinality(Applicants(m)),
                     m_apply[m] = 0
              PROVE  (m_locked[m] => m \in m_kept) /\ m_queue[m] = <<>>
  BY DEF FreeSlots
<1>1. Applicants(m) = {}
  BY TaskSets DEF Applicants
<1>2. Holders(m) = {}
  BY <1>1 DEF Applicants, Holders, MutexClaims
<1>3. Cardinality(Holders(m)) = 0
  BY <1>2, TaskSets
<1>4. m_locked[m] => m \in m_kept
  BY <1>3 DEF MutexExcludes, Holders
<1>5. \A t \in Tasks : ~Contains(m_queue[m], t)
  BY <1>1 DEF MutexLinked, LinkedAs, MutexClaims, Applicants
<1>6. m_queue[m] \in Seq(Tasks)
  BY DEF MutexTypeOK
<1>7. ToSet(m_queue[m]) = {}
  BY <1>5, <1>6, SetOfElements
<1>. QED
  BY <1>4, <1>6, <1>7, SetOfElements

LEMMA SlotsFreeNext ==
  ASSUME MutexTypeOK', MutexClaims', MutexExcludes',
         MutexLinked(m_queue', where', call'),
         \A m \in Mutexes : m_apply'[m] = Cardinality(Applicants(m)')
  PROVE  FreeSlots'
<1>1. (/\ MutexTypeOK /\ MutexClaims /\ MutexExcludes
       /\ MutexLinked(m_queue, where, call)
       /\ \A m \in Mutexes : m_apply[m] = Cardinality(Applicants(m))
       => FreeSlots)'
  BY SlotsFree, PTL
<1>2. (MutexLinked(m_queue, where, call))'
  BY DEF MutexLinked, LinkedAs
<1>. QED
  BY <1>1, <1>2

\* A call on a lock does not concern the others.
LEMMA MutexCallKeeps ==
  ASSUME SyncInv, UNCHANGED <<semaVars, barrierVars>>, PlacesOK',
         Spares(DownCalls), Spares(WaitCalls), MutexInv', MutexLinked(m_queue', where', call')
  PROVE  SyncInv'
BY SemaSpared, BarrierSpared, Assembled

LEMMA LockInit ==
  ASSUME SyncInv, NEW t \in Tasks, NEW k \in MutexKeys, do_mutex_lock_init(t, k),
         UNCHANGED <<main, semaVars, barrierVars>>
  PROVE  SyncInv'
<1>0. /\ PlacesOK' /\ Spares(AcquireCalls) /\ Spares(DownCalls) /\ Spares(WaitCalls)
  BY Unmoved DEF do_mutex_lock_init
<1>1. PICK m \in Mutexes :
        /\ IsSlot(m, k) /\ m \notin mlock_ocp[t]
        /\ m_apply' = [m_apply EXCEPT ![m] = @ + 1]
        /\ m_key' = [m_key EXCEPT ![m] = k]
        /\ mlock_ocp' = [mlock_ocp EXCEPT ![t] = @ \cup {m}]
  BY DEF do_mutex_lock_init
<1>2. /\ InUser(t)
      /\ UNCHANGED <<where, call, main, m_pid, m_locked, m_queue, m_holds, m_forgotten, m_kept>>
  BY DEF do_mutex_lock_init
<1>3. MutexInv /\ MutexTypeOK /\ PlacesOK /\ MutexLinked(m_queue, where, call)
  BY Parts DEF MutexInv
<1>4. MutexTypeOK'
  BY <1>1, <1>2, <1>3 DEF MutexTypeOK
<1>5. /\ \A u \in Tasks : mlock_ocp'[u] = IF u = t THEN mlock_ocp[u] \cup {m} ELSE mlock_ocp[u]
      /\ \A n \in Mutexes : m_apply'[n] = IF n = m THEN m_apply[n] + 1 ELSE m_apply[n]
      /\ \A n \in Mutexes : m_key'[n] = IF n = m THEN k ELSE m_key[n]
  BY <1>1, <1>3 DEF MutexTypeOK
<1>6. MutexClaims'
  <2>1. where[t] # "dead"
    BY <1>2 DEF InUser
  <2>. QED
    BY <1>2, <1>3, <1>5, <2>1 DEF MutexInv, MutexClaims
<1>7. MutexExcludes' /\ MutexWaitersServed'
  BY <1>2, <1>3 DEF MutexInv, MutexExcludes, MutexWaitersServed, Resumes
<1>8. MutexLinked(m_queue', where', call')
  BY <1>2, <1>3
<1>9. ASSUME NEW n \in Mutexes PROVE m_apply'[n] = Cardinality(Applicants(n)')
  <2>0. m_apply[n] = Cardinality(Applicants(n))
    BY <1>3 DEF MutexInv, MutexSlotsExact, Applicants
  <2>1. CASE n = m
    <3>1. t \notin Applicants(m) /\ Applicants(m)' = Applicants(m) \cup {t}
      BY <1>1, <1>5 DEF Applicants
    <3>2. Cardinality(Applicants(m) \cup {t}) = Cardinality(Applicants(m)) + 1
      BY <3>1, TaskSets DEF Applicants
    <3>. QED
      BY <2>0, <2>1, <3>1, <3>2, <1>5
  <2>2. CASE n # m
    <3>1. Applicants(n)' = Applicants(n)
      BY <2>2, <1>5 DEF Applicants
    <3>. QED
      BY <2>0, <2>2, <3>1, <1>5
  <2>. QED
    BY <2>1, <2>2
<1>10. FreeSlots'
  BY <1>4, <1>6, <1>7, <1>8, <1>9, SlotsFreeNext
<1>11. ASSUME NEW n \in Mutexes, NEW x \in Mutexes, n # x, m_apply'[n] # 0, m_apply'[x] # 0
       PROVE  m_key'[n] # m_key'[x]
  <2>1. \A a, b \in Mutexes : a # b /\ m_apply[a] # 0 /\ m_apply[b] # 0
                               => m_key[a] # m_key[b]
    BY <1>3 DEF MutexInv, MutexSlotsExact
  <2>2. \/ m_apply[m] # 0 /\ m_key[m] = k
        \/ m_apply[m] = 0 /\ \A y \in Mutexes : m_apply[y] # 0 => m_key[y] # k
    BY <1>1 DEF IsSlot
  <2>. QED
    BY <1>5, <1>11, <2>1, <2>2
<1>12. MutexSlotsExact'
  BY <1>9, <1>10, <1>11 DEF MutexSlotsExact, FreeSlots, Applicants
<1>13. MutexInv'
  BY <1>4, <1>6, <1>7, <1>12 DEF MutexInv
<1>. QED
  BY <1>0, <1>8, <1>13, MutexCallKeeps

\* do_mutex_lock_acquire finds the lock taken.
LEMMA AcquireBlocks ==
  ASSUME SyncInv, NEW t \in Tasks, NEW m \in Mutexes,
         (InUser(t) /\ m \in mlock_ocp[t]) \/ Resumes(t, <<"acquire", m>>),
         m_locked[m], Block(t, <<"acquire", m>>),
         m_queue' = [m_queue EXCEPT ![m] = Append(@, t)],
         UNCHANGED <<main, m_locked, m_pid, m_holds, m_forgotten, m_apply, m_key, mlock_ocp,
                     m_kept, semaVars, barrierVars>>
  PROVE  SyncInv'
<1>. DEFINE f == <<"acquire", m>>
<1>1. PlacesOK /\ MutexInv /\ MutexTypeOK /\ MutexLinked(m_queue, where, call) /\ SyncTypeOK
  BY Parts DEF SyncInv, MutexInv
<1>2. where[t] \in {"user", "woken"} /\ call[t] \in {None, f} /\ f \in Waits
  BY <1>1, CallNames DEF InUser, Resumes, PlacesOK, OutsideCalls, Waits
<1>3. m \in mlock_ocp[t]
  BY <1>1 DEF Resumes, MutexInv, MutexClaims
<1>4. PlacesOK' /\ Spares(DownCalls) /\ Spares(WaitCalls)
  <2>1. f \notin DownCalls /\ f \notin WaitCalls /\ None \notin DownCalls /\ None \notin WaitCalls
    BY CallNames DEF Waits
  <2>. QED
    BY <1>2, <2>1, Blocked
<1>5. \A u \in Tasks : /\ where'[u] = IF u = t THEN "blocked" ELSE where[u]
                       /\ call'[u] = IF u = t THEN f ELSE call[u]
  BY <1>1 DEF Block, PlacesOK
<1>6. MutexTypeOK'
  <2>1. Append(m_queue[m], t) \in Seq(Tasks)
    BY <1>1 DEF MutexTypeOK
  <2>. QED
    BY <1>1, <2>1 DEF MutexTypeOK
<1>7. MutexLinked(m_queue', where', call')
  <2>. SUFFICES ASSUME NEW n \in Mutexes
                PROVE  LinkedAs(m_queue'[n], <<"acquire", n>>, where', call')
    BY DEF MutexLinked
  <2>1. LinkedAs(m_queue[n], <<"acquire", n>>, where, call)
    BY <1>1 DEF MutexLinked
  <2>2. m_queue'[n] = IF f = <<"acquire", n>> THEN Append(m_queue[n], t) ELSE m_queue[n]
    BY <1>1 DEF MutexTypeOK
  <2>3. where[t] # "blocked" /\ Block(t, f)
    BY <1>2
  <2>. HIDE DEF f
  <2>. QED
    BY <1>1, <2>1, <2>2, <2>3, LinkedBlock
<1>8. MutexClaims'
  <2>1. where[t] # "dead"
    BY <1>2
  <2>. QED
    BY <1>1, <1>3, <1>5, CallNames DEF MutexInv, MutexClaims
<1>9. MutexExcludes'
  BY <1>1 DEF MutexInv, MutexExcludes
<1>10. MutexWaitersServed'
  <2>. SUFFICES ASSUME NEW n \in Mutexes, m_queue'[n] # <<>>
                PROVE  \/ m_locked[n] \/ n \in m_forgotten
                       \/ \E u \in Tasks : Resumes(u, <<"acquire", n>>)'
    BY DEF MutexWaitersServed
  <2>1. CASE n = m
    BY <2>1
  <2>2. CASE n # m
    <3>1. m_queue'[n] = m_queue[n]
      BY <1>1, <2>2 DEF MutexTypeOK
    <3>2. \A u \in Tasks : Resumes(u, <<"acquire", n>>) => Resumes(u, <<"acquire", n>>)'
      BY <1>2, <1>5, <2>2, CallNames DEF Resumes, Waits
    <3>. QED
      BY <3>1, <3>2, <1>1 DEF MutexInv, MutexWaitersServed
  <2>. QED
    BY <2>1, <2>2
<1>11. FreeSlots'
  <2>1. \A n \in Mutexes : m_apply'[n] = Cardinality(Applicants(n)')
    BY <1>1 DEF MutexInv, MutexSlotsExact, Applicants
  <2>. QED
    BY <1>6, <1>7, <1>8, <1>9, <2>1, SlotsFreeNext
<1>12. MutexSlotsExact'
  BY <1>1, <1>11 DEF MutexInv, MutexSlotsExact, FreeSlots
<1>13. MutexInv'
  BY <1>6, <1>8, <1>9, <1>10, <1>12 DEF MutexInv
<1>. QED
  BY <1>4, <1>7, <1>13, MutexCallKeeps

LEMMA Mains ==
  ASSUME main \in Families
  PROVE  main \in [Tasks -> Tasks] /\ \A t \in Tasks : main[main[t]] = main[t]
BY FamiliesAssumption

\* do_mutex_lock_acquire finds the lock free.
LEMMA AcquireTakes ==
  ASSUME SyncInv, NEW t \in Tasks, NEW m \in Mutexes,
         (InUser(t) /\ m \in mlock_ocp[t]) \/ Resumes(t, <<"acquire", m>>),
         ~m_locked[m], Return(t),
         m_locked' = [m_locked EXCEPT ![m] = TRUE],
         m_pid' = [m_pid EXCEPT ![m] = main[t]],
         m_forgotten' = m_forgotten \ {m},
         m_holds' = [m_holds EXCEPT ![t] = @ \cup {m}],
         UNCHANGED <<main, m_queue, m_apply, m_key, mlock_ocp, m_kept, semaVars, barrierVars>>
  PROVE  SyncInv'
<1>. DEFINE f == <<"acquire", m>>
<1>1. PlacesOK /\ MutexInv /\ MutexTypeOK /\ MutexLinked(m_queue, where, call)
  BY Parts DEF MutexInv
<1>2. where[t] \in {"user", "woken"} /\ call[t] \in {None, f} /\ f \in Waits
  BY <1>1, CallNames DEF InUser, Resumes, PlacesOK, OutsideCalls, Waits
<1>3. m \in mlock_ocp[t]
  BY <1>1 DEF Resumes, MutexInv, MutexClaims
<1>4. PlacesOK' /\ Spares(DownCalls) /\ Spares(WaitCalls)
  <2>1. f \notin DownCalls /\ f \notin WaitCalls /\ None \notin DownCalls /\ None \notin WaitCalls
    BY CallNames DEF Waits
  <2>. QED
    BY <1>2, <2>1, Returned
<1>5. \A u \in Tasks : /\ where'[u] = IF u = t THEN "user" ELSE where[u]
                       /\ call'[u] = IF u = t THEN None ELSE call[u]
  BY <1>1 DEF Return, PlacesOK
<1>6. MutexTypeOK'
  <2>1. main[t] \in Tasks
    BY <1>1, Mains DEF PlacesOK
  <2>. QED
    BY <1>1, <2>1 DEF MutexTypeOK
<1>7. MutexLinked(m_queue', where', call')
  BY <1>1, <1>2, <1>5, CallNames DEF MutexLinked, LinkedAs, Waits
<1>8. /\ \A u \in Tasks : m_holds'[u] = IF u = t THEN m_holds[u] \cup {m} ELSE m_holds[u]
      /\ \A n \in Mutexes : m_locked'[n] <=> n = m \/ m_locked[n]
      /\ \A n \in Mutexes : m_pid'[n] = IF n = m THEN main[t] ELSE m_pid[n]
  BY <1>1 DEF MutexTypeOK
<1>9. MutexClaims'
  <2>1. where[t] # "dead"
    BY <1>2
  <2>2. \A u \in Tasks, n \in Mutexes : call'[u] = <<"acquire", n>> => call[u] = <<"acquire", n>>
    BY <1>5, CallNames DEF Waits
  <2>3. MutexClaims
    BY <1>1 DEF MutexInv
  <2>4. \A u \in Tasks : m_holds'[u] \subseteq mlock_ocp[u]
    BY <1>3, <1>8, <2>3 DEF MutexClaims
  <2>5. \A u \in Tasks : where'[u] = "dead" => mlock_ocp[u] = {}
    BY <1>5, <2>3 DEF MutexClaims
  <2>6. \A n \in m_kept : m_locked'[n]
    BY <1>1, <1>8, <2>3 DEF MutexClaims, MutexTypeOK
  <2>. QED
    BY <2>2, <2>3, <2>4, <2>5, <2>6 DEF MutexClaims
<1>10. MutexExcludes'
  <2>. SUFFICES ASSUME NEW n \in Mutexes
                PROVE  IF m_locked'[n] /\ n \notin m_kept
                       THEN Cardinality(Holders(n)') = 1 /\ \A u \in Holders(n)' : main[u] = m_pid'[n]
                       ELSE Holders(n)' = {}
    BY DEF MutexExcludes, Holders
  <2>1. IF m_locked[n] /\ n \notin m_kept
        THEN Cardinality(Holders(n)) = 1 /\ \A u \in Holders(n) : main[u] = m_pid[n]
        ELSE Holders(n) = {}
    BY <1>1 DEF MutexInv, MutexExcludes, Holders
  <2>2. CASE n = m
    <3>1. Holders(m) = {} /\ m \notin m_kept
      BY <1>1, <2>1, <2>2 DEF MutexInv, MutexClaims
    <3>2. Holders(m)' = {t}
      BY <3>1, <1>8 DEF Holders
    <3>3. Cardinality({t}) = 1
      BY TaskSets
    <3>. QED
      BY <2>2, <3>1, <3>2, <3>3, <1>8
  <2>3. CASE n # m
    <3>1. Holders(n)' = Holders(n)
      BY <2>3, <1>8 DEF Holders
    <3>. QED
      BY <2>1, <2>3, <3>1, <1>8
  <2>. QED
    BY <2>2, <2>3
<1>11. MutexWaitersServed'
  <2>. SUFFICES ASSUME NEW n \in Mutexes, m_queue[n] # <<>>
                PROVE  \/ m_locked'[n] \/ n \in m_forgotten'
                       \/ \E u \in Tasks : Resumes(u, <<"acquire", n>>)'
    BY DEF MutexWaitersServed
  <2>1. CASE n = m
    BY <2>1, <1>8
  <2>2. CASE n # m
    <3>1. \A u \in Tasks : Resumes(u, <<"acquire", n>>) => Resumes(u, <<"acquire", n>>)'
      BY <1>2, <1>5, <2>2, CallNames DEF Resumes, Waits
    <3>. QED
      BY <3>1, <2>2, <1>1, <1>8 DEF MutexInv, MutexWaitersServed
  <2>. QED
    BY <2>1, <2>2
<1>12. FreeSlots'
  <2>1. \A n \in Mutexes : m_apply'[n] = Cardinality(Applicants(n)')
    BY <1>1 DEF MutexInv, MutexSlotsExact, Applicants
  <2>. QED
    BY <1>6, <1>7, <1>9, <1>10, <2>1, SlotsFreeNext
<1>13. MutexSlotsExact'
  BY <1>1, <1>12 DEF MutexInv, MutexSlotsExact, FreeSlots
<1>14. MutexInv'
  BY <1>6, <1>9, <1>10, <1>11, <1>13 DEF MutexInv
<1>. QED
  BY <1>4, <1>7, <1>14, MutexCallKeeps

LEMMA Release ==
  ASSUME SyncInv, NEW t \in Tasks, NEW m \in Mutexes, do_mutex_lock_release(t, m),
         UNCHANGED <<main, semaVars, barrierVars>>
  PROVE  SyncInv'
<1>. DEFINE f == <<"acquire", m>>
            G == First(m_queue[m])
<1>0. /\ m \in m_holds[t]
      /\ m_locked' = [m_locked EXCEPT ![m] = FALSE]
      /\ m_queue' = [m_queue EXCEPT ![m] = Rest(@)]
      /\ where' = Unblock(G)
      /\ m_holds' = [m_holds EXCEPT ![t] = @ \ {m}]
      /\ UNCHANGED <<call, m_apply, m_key, m_pid, mlock_ocp, m_forgotten, m_kept>>
  BY DEF do_mutex_lock_release
<1>1. PlacesOK /\ MutexInv /\ MutexTypeOK /\ MutexLinked(m_queue, where, call)
  BY Parts DEF MutexInv
<1>2. /\ G \subseteq Tasks /\ \A u \in G : where[u] = "blocked" /\ call[u] = f
      /\ Rest(m_queue[m]) \in Seq(Tasks) /\ IsInjective(Rest(m_queue[m]))
      /\ \A u \in Tasks : Contains(Rest(m_queue[m]), u) <=> Contains(m_queue[m], u) /\ u \notin G
  BY <1>1, LinkedFirst DEF MutexLinked
<1>. HIDE DEF G
<1>3. PlacesOK' /\ Spares(DownCalls) /\ Spares(WaitCalls)
  <2>1. f \notin DownCalls /\ f \notin WaitCalls
    BY CallNames
  <2>. QED
    BY <1>0, <1>2, <2>1, Unblocked
<1>4. /\ \A u \in Tasks : where'[u] = IF u \in G THEN "woken" ELSE where[u]
      /\ \A n \in Mutexes : m_queue'[n] = IF n = m THEN Rest(m_queue[n]) ELSE m_queue[n]
      /\ \A u \in Tasks : m_holds'[u] = IF u = t THEN m_holds[u] \ {m} ELSE m_holds[u]
      /\ \A n \in Mutexes : m_locked'[n] <=> n # m /\ m_locked[n]
  BY <1>0, <1>1 DEF MutexTypeOK, Unblock
<1>5. MutexTypeOK'
  BY <1>0, <1>1, <1>2 DEF MutexTypeOK
<1>6. MutexLinked(m_queue', where', call')
  <2>. SUFFICES ASSUME NEW n \in Mutexes
                PROVE  LinkedAs(m_queue'[n], <<"acquire", n>>, where', call')
    BY DEF MutexLinked
  <2>1. LinkedAs(m_queue[n], <<"acquire", n>>, where, call)
    BY <1>1 DEF MutexLinked
  <2>2. CASE n = m
    <3>1. \A u \in Tasks : where'[u] = "blocked" /\ call'[u] = f
                            <=> where[u] = "blocked" /\ call[u] = f /\ u \notin G
      BY <1>0, <1>4
    <3>. HIDE DEF f
    <3>2. m_queue'[n] = Rest(m_queue[m])
      BY <1>4, <2>2
    <3>3. LinkedAs(m_queue[m], f, where, call)
      BY <2>1, <2>2 DEF f
    <3>4. LinkedAs(Rest(m_queue[m]), f, where', call')
      BY <3>1, <3>3, <1>2, LinkedLeave
    <3>. QED
      BY <2>2, <3>2, <3>4 DEF f
  <2>3. CASE n # m
    BY <2>1, <2>3, <1>0, <1>2, <1>4, CallNames DEF LinkedAs
  <2>. QED
    BY <2>2, <2>3
<1>7. \A n \in Mutexes :
        IF m_locked[n] /\ n \notin m_kept
        THEN Cardinality(Holders(n)) = 1 /\ \A u \in Holders(n) : main[u] = m_pid[n]
        ELSE Holders(n) = {}
  BY <1>1 DEF MutexInv, MutexExcludes, Holders
<1>8. Holders(m) = {t} /\ m \notin m_kept
  <2>1. t \in Holders(m) /\ Holders(m) \subseteq Tasks
    BY <1>0 DEF Holders
  <2>2. m \notin m_kept /\ Cardinality(Holders(m)) = 1
    BY <1>7, <2>1
  <2>3. Cardinality({t}) = 1 /\ {t} \in SUBSET Holders(m)
    BY <2>1, TaskSets
  <2>4. Cardinality({t}) = Cardinality(Holders(m)) => Holders(m) = {t}
    BY <2>1, <2>3, TaskSets
  <2>. QED
    BY <2>2, <2>3, <2>4
<1>9. MutexExcludes'
  <2>. SUFFICES ASSUME NEW n \in Mutexes
                PROVE  IF m_locked'[n] /\ n \notin m_kept
                       THEN Cardinality(Holders(n)') = 1 /\ \A u \in Holders(n)' : main[u] = m_pid[n]
                       ELSE Holders(n)' = {}
    BY <1>0 DEF MutexExcludes, Holders
  <2>1. CASE n = m
    <3>1. Holders(m)' = {}
      BY <1>4, <1>8 DEF Holders
    <3>. QED
      BY <2>1, <3>1, <1>4
  <2>2. CASE n # m
    <3>1. Holders(n)' = Holders(n)
      BY <2>2, <1>4 DEF Holders
    <3>. QED
      BY <2>2, <3>1, <1>4, <1>7
  <2>. QED
    BY <2>1, <2>2
<1>10. MutexClaims'
  <2>1. \A u \in Tasks : where'[u] = "dead" => where[u] = "dead"
    BY <1>4
  <2>. QED
    BY <1>0, <1>1, <1>4, <1>8, <2>1 DEF MutexInv, MutexClaims, MutexTypeOK
<1>11. MutexWaitersServed'
  <2>. SUFFICES ASSUME NEW n \in Mutexes, m_queue'[n] # <<>>
                PROVE  \/ m_locked'[n] \/ n \in m_forgotten
                       \/ \E u \in Tasks : Resumes(u, <<"acquire", n>>)'
    BY <1>0 DEF MutexWaitersServed
  <2>1. CASE n = m
    <3>1. m_queue[m] # <<>> /\ m_queue[m] \in Seq(Tasks)
      BY <2>1, <1>1, <1>4 DEF Rest, MutexTypeOK
    <3>2. PICK u \in Tasks : G = {u}
      BY <3>1, RestElements DEF G
    <3>3. Resumes(u, f)'
      BY <3>2, <1>0, <1>2, <1>4 DEF Resumes
    <3>. QED
      BY <2>1, <3>3
  <2>2. CASE n # m
    <3>1. \A u \in Tasks : Resumes(u, <<"acquire", n>>) => Resumes(u, <<"acquire", n>>)'
      BY <1>0, <1>4 DEF Resumes
    <3>. QED
      BY <3>1, <2>2, <1>1, <1>4 DEF MutexInv, MutexWaitersServed
  <2>. QED
    BY <2>1, <2>2
<1>12. FreeSlots'
  <2>1. \A n \in Mutexes : m_apply'[n] = Cardinality(Applicants(n)')
    BY <1>0, <1>1 DEF MutexInv, MutexSlotsExact, Applicants
  <2>. QED
    BY <1>5, <1>6, <1>9, <1>10, <2>1, SlotsFreeNext
<1>13. MutexSlotsExact'
  BY <1>0, <1>1, <1>12 DEF MutexInv, MutexSlotsExact, FreeSlots
<1>14. MutexInv'
  BY <1>5, <1>9, <1>10, <1>11, <1>13 DEF MutexInv
<1>. QED
  BY <1>0, <1>3, <1>6, <1>14, MutexCallKeeps

LEMMA MutexCallsStep ==
  ASSUME SyncInv, NEW t \in Tasks, MutexCalls(t), UNCHANGED main
  PROVE  SyncInv'
<1>1. CASE \E k \in MutexKeys : do_mutex_lock_init(t, k)
  BY <1>1, LockInit DEF MutexCalls
<1>2. ASSUME NEW m \in Mutexes, do_mutex_lock_acquire(t, m) PROVE SyncInv'
  <2>1. /\ (InUser(t) /\ m \in mlock_ocp[t]) \/ Resumes(t, <<"acquire", m>>)
        /\ UNCHANGED <<m_apply, m_key, mlock_ocp, m_kept, semaVars, barrierVars>>
    BY <1>2 DEF do_mutex_lock_acquire, MutexCalls
  <2>2. attempt(t, m)
    BY <1>2 DEF do_mutex_lock_acquire
  <2>3. CASE m_locked[m]
    BY <2>1, <2>2, <2>3, AcquireBlocks DEF attempt
  <2>4. CASE ~m_locked[m]
    BY <2>1, <2>2, <2>4, AcquireTakes DEF attempt
  <2>. QED
    BY <2>3, <2>4
<1>3. ASSUME NEW m \in Mutexes, do_mutex_lock_release(t, m) PROVE SyncInv'
  BY <1>3, Release DEF MutexCalls
<1>. QED
  BY <1>1, <1>2, <1>3 DEF MutexCalls

-----------------------------------------------------------------------------
(* Semaphores.                                                              *)

\* What holds of semaphore s.
SemaOf(s) ==
  /\ \A t \in s_handed[s] : Resumes(t, <<"down", s>>)
  /\ \A t \in s_inside[s] : call[t] # <<"down", s>>
  /\ s_pid[s] = None => /\ s_handed[s] = {} /\ s_inside[s] = {} /\ s_lost[s] = 0
                        /\ s_queue[s] = <<>>
  /\ s_pid[s] # None =>
       /\ s_value[s] + Cardinality(s_handed[s]) + Cardinality(s_inside[s]) + s_lost[s]
            = s_init[s]
       /\ s_value[s] > 0 => s_queue[s] = <<>>

\* The step does not touch semaphore s.
SemaSame(s) ==
  /\ s_pid'[s] = s_pid[s] /\ s_value'[s] = s_value[s] /\ s_queue'[s] = s_queue[s]
  /\ s_init'[s] = s_init[s] /\ s_handed'[s] = s_handed[s]
  /\ s_inside'[s] = s_inside[s] /\ s_lost'[s] = s_lost[s]

LEMMA SparesLess ==
  ASSUME NEW F, NEW E, E \subseteq F, Spares(F)
  PROVE  Spares(E)
BY DEF Spares

\* A call on semaphore s does not concern the others, nor the other objects.
LEMMA SemaCallKeeps ==
  ASSUME SyncInv, NEW s \in Semaphores, PlacesOK', Spares(Waits \ {<<"down", s>>}),
         UNCHANGED <<mutexVars, barrierVars>>, SemaTypeOK', SemaOf(s)',
         LinkedAs(s_queue'[s], <<"down", s>>, where', call'),
         \A r \in Semaphores \ {s} : SemaSame(r)
  PROVE  SyncInv'
<1>1. Spares(AcquireCalls) /\ Spares(WaitCalls)
  <2>1. /\ AcquireCalls \subseteq Waits \ {<<"down", s>>}
        /\ WaitCalls \subseteq Waits \ {<<"down", s>>}
    BY CallNames DEF Waits
  <2>. QED
    BY <2>1, SparesLess
<1>2. SemaInv /\ SemaTypeOK /\ SemaLinked(s_queue, where, call)
  BY Parts DEF SemaInv
<1>3. ASSUME NEW r \in Semaphores \ {s}
      PROVE  SemaOf(r)' /\ LinkedAs(s_queue'[r], <<"down", r>>, where', call')
  <2>1. <<"down", r>> \in Waits \ {<<"down", s>>}
    BY CallNames DEF Waits
  <2>2. SemaSame(r)
    BY <1>3
  <2>3. LinkedAs(s_queue[r], <<"down", r>>, where, call)
    BY <1>2 DEF SemaLinked
  <2>4. LinkedAs(s_queue[r], <<"down", r>>, where', call')
    BY <2>1, <2>3, LinkedSpared
  <2>5. \A t \in Tasks :
          /\ call'[t] = <<"down", r>> <=> call[t] = <<"down", r>>
          /\ Resumes(t, <<"down", r>>)' <=> Resumes(t, <<"down", r>>)
    BY <2>1 DEF Spares, Resumes
  <2>6. s_handed[r] \subseteq Tasks /\ s_inside[r] \subseteq Tasks
    BY <1>2 DEF SemaTypeOK
  <2>7. SemaOf(r)
    BY <1>2 DEF SemaInv, SemaTokens, SemaConserves, SemaOf
  <2>. QED
    BY <2>2, <2>4, <2>5, <2>6, <2>7 DEF SemaOf, SemaSame
<1>4. \A r \in Semaphores : SemaOf(r)'
  BY <1>3
<1>5. SemaTokens'
  BY <1>4 DEF SemaTokens, SemaOf
<1>6. SemaConserves'
  BY <1>4 DEF SemaConserves, SemaOf
<1>7. SemaLinked(s_queue', where', call')
  BY <1>3 DEF SemaLinked
<1>8. SemaInv'
  BY <1>5, <1>6 DEF SemaInv
<1>. QED
  BY <1>1, <1>7, <1>8, MutexSpared, BarrierSpared, Assembled

LEMMA SemaFacts ==
  ASSUME SyncInv, NEW s \in Semaphores
  PROVE  /\ PlacesOK /\ SemaTypeOK /\ SemaOf(s)
         /\ LinkedAs(s_queue[s], <<"down", s>>, where, call)
         /\ s_value[s] \in Nat /\ s_init[s] \in Nat /\ s_lost[s] \in Nat
         /\ s_handed[s] \in SUBSET Tasks /\ s_inside[s] \in SUBSET Tasks
         /\ s_queue[s] \in Seq(Tasks)
<1>1. PlacesOK /\ SemaInv /\ SemaTypeOK /\ SemaLinked(s_queue, where, call)
  BY Parts DEF SemaInv
<1>. QED
  BY <1>1 DEF SemaInv, SemaTokens, SemaConserves, SemaOf, SemaLinked, SemaTypeOK

LEMMA SemaphoreInit1 ==
  ASSUME SyncInv, NEW t \in Tasks, NEW v \in InitValues, do_semaphore_init(t, v),
         UNCHANGED <<main, mutexVars, barrierVars>>
  PROVE  SyncInv'
<1>1. PICK s \in Semaphores :
        /\ s_pid[s] = None
        /\ s_pid' = [s_pid EXCEPT ![s] = main[t]]
        /\ s_value' = [s_value EXCEPT ![s] = v]
        /\ s_queue' = [s_queue EXCEPT ![s] = <<>>]
        /\ s_init' = [s_init EXCEPT ![s] = v]
  BY DEF do_semaphore_init
<1>2. UNCHANGED <<where, call, s_handed, s_inside, s_lost>>
  BY DEF do_semaphore_init
<1>3. PlacesOK' /\ Spares(Waits \ {<<"down", s>>})
  BY <1>2, Unmoved
<1>4. /\ PlacesOK /\ SemaTypeOK /\ SemaOf(s)
      /\ LinkedAs(s_queue[s], <<"down", s>>, where, call)
  BY SemaFacts
<1>5. v \in Nat /\ main[t] \in Tasks /\ None \notin Tasks
  BY <1>4, Mains, InitValuesAssumption, TasksAssumption DEF PlacesOK
<1>6. SemaTypeOK'
  BY <1>1, <1>2, <1>4, <1>5, EmptyQueue DEF SemaTypeOK
<1>7. \A r \in Semaphores \ {s} : SemaSame(r)
  BY <1>1, <1>2, <1>4 DEF SemaSame, SemaTypeOK
<1>8. s_queue'[s] = <<>> /\ s_queue[s] = <<>>
  BY <1>1, <1>4 DEF SemaOf, SemaTypeOK
<1>9. LinkedAs(s_queue'[s], <<"down", s>>, where', call')
  BY <1>2, <1>4, <1>8
<1>10. SemaOf(s)'
  <2>1. /\ s_handed'[s] = {} /\ s_inside'[s] = {} /\ s_lost'[s] = 0
        /\ s_value'[s] = v /\ s_init'[s] = v /\ s_pid'[s] # None
    BY <1>1, <1>2, <1>4, <1>5 DEF SemaOf, SemaTypeOK
  <2>2. Cardinality({}) = 0
    BY FS_EmptySet
  <2>3. v + Cardinality({}) + Cardinality({}) + 0 = v
    BY <1>5, <2>2
  <2>. QED
    BY <1>8, <2>1, <2>3 DEF SemaOf
<1>. QED
  BY <1>3, <1>6, <1>7, <1>9, <1>10, SemaCallKeeps

\* do_semaphore_down takes a token.
LEMMA DownTakes ==
  ASSUME SyncInv, NEW t \in Tasks, NEW s \in Semaphores,
         InUser(t), s_pid[s] # None, t \notin s_inside[s], s_value[s] > 0,
         s_value' = [s_value EXCEPT ![s] = @ - 1],
         s_inside' = [s_inside EXCEPT ![s] = @ \cup {t}],
         UNCHANGED <<where, call, main, s_queue, s_pid, s_init, s_handed, s_lost, mutexVars,
                     barrierVars>>
  PROVE  SyncInv'
<1>1. PlacesOK' /\ Spares(Waits \ {<<"down", s>>})
  BY Unmoved
<1>2. /\ PlacesOK /\ SemaTypeOK /\ SemaOf(s)
      /\ LinkedAs(s_queue[s], <<"down", s>>, where, call)
      /\ s_value[s] \in Nat /\ s_init[s] \in Nat /\ s_lost[s] \in Nat
      /\ s_handed[s] \in SUBSET Tasks /\ s_inside[s] \in SUBSET Tasks
  BY SemaFacts
<1>3. SemaTypeOK'
  BY <1>2 DEF SemaTypeOK
<1>4. \A r \in Semaphores \ {s} : SemaSame(r)
  BY <1>2 DEF SemaSame, SemaTypeOK
<1>5. SemaOf(s)'
  <2>1. s_value'[s] = s_value[s] - 1 /\ s_inside'[s] = s_inside[s] \cup {t}
    BY <1>2 DEF SemaTypeOK
  <2>2. /\ Cardinality(s_inside[s] \cup {t}) = Cardinality(s_inside[s]) + 1
        /\ Cardinality(s_inside[s]) \in Nat /\ Cardinality(s_handed[s]) \in Nat
    BY <1>2, TaskSets
  <2>3. call[t] # <<"down", s>>
    BY <1>2, CallNames DEF InUser, PlacesOK, OutsideCalls, None
  <2>4. \A u \in s_inside'[s] : call[u] # <<"down", s>>
    BY <1>2, <2>1, <2>3 DEF SemaOf
  <2>5. s_value'[s] + Cardinality(s_handed[s]) + Cardinality(s_inside'[s]) + s_lost[s]
          = s_init[s]
    <3>1. s_value[s] + Cardinality(s_handed[s]) + Cardinality(s_inside[s]) + s_lost[s]
            = s_init[s]
      BY <1>2 DEF SemaOf
    <3>2. (s_value[s] - 1) + Cardinality(s_handed[s]) + (Cardinality(s_inside[s]) + 1)
            + s_lost[s] = s_init[s]
      BY <1>2, <2>2, <3>1
    <3>. QED
      BY <2>1, <2>2, <3>2, Zenon
  <2>. QED
    BY <1>2, <2>4, <2>5 DEF SemaOf, Resumes
<1>. QED
  BY <1>1, <1>2, <1>3, <1>4, <1>5, SemaCallKeeps

LEMMA DownBlocks ==
  ASSUME SyncInv, NEW t \in Tasks, NEW s \in Semaphores,
         InUser(t), s_pid[s] # None, t \notin s_inside[s], s_value[s] = 0,
         Block(t, <<"down", s>>),
         s_queue' = [s_queue EXCEPT ![s] = Append(@, t)],
         UNCHANGED <<main, s_value, s_inside, s_pid, s_init, s_handed, s_lost, mutexVars,
                     barrierVars>>
  PROVE  SyncInv'
<1>. DEFINE f == <<"down", s>>
<1>1. /\ PlacesOK /\ SemaTypeOK /\ SemaOf(s) /\ SyncTypeOK
      /\ LinkedAs(s_queue[s], f, where, call)
      /\ s_queue[s] \in Seq(Tasks)
      /\ s_handed[s] \in SUBSET Tasks /\ s_inside[s] \in SUBSET Tasks
  BY SemaFacts DEF SyncInv
<1>2. f \in Waits /\ where[t] = "user" /\ call[t] = None /\ None \notin Waits
  BY <1>1, CallNames DEF InUser, PlacesOK, OutsideCalls, Waits
<1>3. PlacesOK' /\ Spares(Waits \ {f})
  BY <1>2, Blocked
<1>4. \A u \in Tasks : /\ where'[u] = IF u = t THEN "blocked" ELSE where[u]
                       /\ call'[u] = IF u = t THEN f ELSE call[u]
  BY <1>1 DEF Block, PlacesOK
<1>5. s_queue'[s] = Append(s_queue[s], t) /\ Append(s_queue[s], t) \in Seq(Tasks)
  BY <1>1 DEF SemaTypeOK
<1>6. SemaTypeOK'
  BY <1>1, <1>5 DEF SemaTypeOK
<1>7. \A r \in Semaphores \ {s} : SemaSame(r)
  BY <1>1 DEF SemaSame, SemaTypeOK
<1>8. LinkedAs(s_queue'[s], f, where', call')
  <2>1. where[t] # "blocked" /\ Block(t, f)
    BY <1>2
  <2>. HIDE DEF f
  <2>2. LinkedAs(IF f = f THEN Append(s_queue[s], t) ELSE s_queue[s], f, where', call')
    BY <1>1, <2>1, LinkedBlock
  <2>. QED
    BY <1>5, <2>2
<1>9. SemaOf(s)'
  <2>1. t \notin s_handed[s]
    BY <1>1, <1>2 DEF SemaOf, Resumes
  <2>2. \A u \in s_handed[s] : Resumes(u, f)'
    BY <1>1, <1>4, <2>1 DEF SemaOf, Resumes
  <2>3. \A u \in s_inside[s] : call'[u] # f
    BY <1>1, <1>4 DEF SemaOf
  <2>. QED
    BY <1>1, <2>2, <2>3 DEF SemaOf
<1>. QED
  BY <1>3, <1>6, <1>7, <1>8, <1>9, SemaCallKeeps

LEMMA FinishDown ==
  ASSUME SyncInv, NEW t \in Tasks, NEW s \in Semaphores, finish_down(t, s),
         UNCHANGED <<main, mutexVars, barrierVars>>
  PROVE  SyncInv'
<1>. DEFINE f == <<"down", s>>
<1>0. /\ where[t] = "woken" /\ call[t] = f /\ Return(t)
      /\ s_handed' = [s_handed EXCEPT ![s] = @ \ {t}]
      /\ s_inside' = [s_inside EXCEPT ![s] = IF t \in s_handed[s] THEN @ \cup {t} ELSE @]
      /\ UNCHANGED <<s_pid, s_value, s_queue, s_init, s_lost>>
  BY DEF finish_down, Resumes
<1>1. /\ PlacesOK /\ SemaTypeOK /\ SemaOf(s)
      /\ LinkedAs(s_queue[s], f, where, call)
      /\ s_value[s] \in Nat /\ s_init[s] \in Nat /\ s_lost[s] \in Nat
      /\ s_handed[s] \in SUBSET Tasks /\ s_inside[s] \in SUBSET Tasks
  BY SemaFacts
<1>2. None \notin Waits /\ None # f
  BY CallNames DEF None
<1>3. PlacesOK' /\ Spares(Waits \ {f})
  BY <1>0, <1>2, Returned
<1>4. \A u \in Tasks : /\ where'[u] = IF u = t THEN "user" ELSE where[u]
                       /\ call'[u] = IF u = t THEN None ELSE call[u]
  BY <1>0, <1>1 DEF Return, PlacesOK
<1>5. /\ s_handed'[s] = s_handed[s] \ {t}
      /\ s_inside'[s] = IF t \in s_handed[s] THEN s_inside[s] \cup {t} ELSE s_inside[s]
  BY <1>0, <1>1 DEF SemaTypeOK
<1>6. SemaTypeOK'
  BY <1>0, <1>1 DEF SemaTypeOK
<1>7. \A r \in Semaphores \ {s} : SemaSame(r)
  BY <1>0, <1>1 DEF SemaSame, SemaTypeOK
<1>8. LinkedAs(s_queue'[s], f, where', call')
  BY <1>0, <1>1, <1>2, <1>4 DEF LinkedAs
<1>9. SemaOf(s)'
  <2>1. t \notin s_inside[s]
    BY <1>0, <1>1 DEF SemaOf
  <2>2. \A u \in s_handed'[s] : Resumes(u, f)'
    BY <1>1, <1>4, <1>5 DEF SemaOf, Resumes
  <2>3. \A u \in s_inside'[s] : call'[u] # f
    BY <1>1, <1>2, <1>4, <1>5 DEF SemaOf
  <2>4. CASE t \in s_handed[s]
    <3>1. /\ Cardinality(s_handed'[s]) = Cardinality(s_handed[s]) - 1
          /\ Cardinality(s_inside'[s]) = Cardinality(s_inside[s]) + 1
          /\ Cardinality(s_inside[s]) \in Nat /\ Cardinality(s_handed[s]) \in Nat
      BY <1>1, <1>5, <2>1, <2>4, TaskSets
    <3>2. s_pid[s] # None
      BY <1>1, <2>4 DEF SemaOf
    <3>3. /\ s_value[s] + Cardinality(s_handed[s]) + Cardinality(s_inside[s]) + s_lost[s]
               = s_init[s]
          /\ s_value[s] > 0 => s_queue[s] = <<>>
      BY <1>1, <3>2 DEF SemaOf
    <3>4. s_value[s] + Cardinality(s_handed'[s]) + Cardinality(s_inside'[s]) + s_lost[s]
            = s_init[s]
      <4>1. s_value[s] + (Cardinality(s_handed[s]) - 1) + (Cardinality(s_inside[s]) + 1)
              + s_lost[s]
              = s_value[s] + Cardinality(s_handed[s]) + Cardinality(s_inside[s]) + s_lost[s]
        <5>1. /\ s_value[s] \in Nat /\ Cardinality(s_handed[s]) \in Nat
              /\ Cardinality(s_inside[s]) \in Nat /\ s_lost[s] \in Nat
          BY <1>1, <3>1
        <5>. QED
          BY <5>1
      <4>. QED
        BY <3>1, <3>3, <4>1, Zenon
    <3>. QED
      BY <1>0, <2>2, <2>3, <3>2, <3>3, <3>4 DEF SemaOf
  <2>5. CASE t \notin s_handed[s]
    <3>1. s_handed'[s] = s_handed[s] /\ s_inside'[s] = s_inside[s]
      BY <1>5, <2>5
    <3>. QED
      BY <1>0, <1>1, <2>2, <2>3, <3>1 DEF SemaOf
  <2>. QED
    BY <2>4, <2>5
<1>. QED
  BY <1>3, <1>6, <1>7, <1>8, <1>9, SemaCallKeeps

LEMMA Up ==
  ASSUME SyncInv, NEW t \in Tasks, NEW s \in Semaphores, do_semaphore_up(t, s),
         UNCHANGED <<main, mutexVars, barrierVars>>
  PROVE  SyncInv'
<1>. DEFINE f == <<"down", s>>
            G == First(s_queue[s])
<1>0. /\ where[t] = "user" /\ t \in s_inside[s]
      /\ s_value' = [s_value EXCEPT ![s] = IF s_queue[s] = <<>> THEN @ + 1 ELSE @]
      /\ s_queue' = [s_queue EXCEPT ![s] = Rest(@)]
      /\ where' = Unblock(G)
      /\ s_handed' = [s_handed EXCEPT ![s] = @ \cup G]
      /\ s_inside' = [s_inside EXCEPT ![s] = @ \ {t}]
      /\ UNCHANGED <<call, s_pid, s_init, s_lost>>
  BY DEF do_semaphore_up, InUser
<1>1. /\ PlacesOK /\ SemaTypeOK /\ SemaOf(s)
      /\ LinkedAs(s_queue[s], f, where, call)
      /\ s_value[s] \in Nat /\ s_init[s] \in Nat /\ s_lost[s] \in Nat
      /\ s_handed[s] \in SUBSET Tasks /\ s_inside[s] \in SUBSET Tasks
      /\ s_queue[s] \in Seq(Tasks)
  BY SemaFacts
<1>2. /\ G \subseteq Tasks /\ \A u \in G : where[u] = "blocked" /\ call[u] = f
      /\ Rest(s_queue[s]) \in Seq(Tasks) /\ IsInjective(Rest(s_queue[s]))
      /\ \A u \in Tasks : Contains(Rest(s_queue[s]), u) <=> Contains(s_queue[s], u) /\ u \notin G
  <2>. HIDE DEF f
  <2>. QED
    BY <1>1, LinkedFirst
<1>3. /\ s_queue[s] = <<>> => G = {} /\ Rest(s_queue[s]) = <<>>
      /\ s_queue[s] # <<>> => \E u \in Tasks : G = {u}
  BY <1>1, RestElements DEF First, Rest
<1>. HIDE DEF G
<1>4. PlacesOK' /\ Spares(Waits \ {f})
  BY <1>0, <1>2, Unblocked
<1>5. /\ \A u \in Tasks : where'[u] = IF u \in G THEN "woken" ELSE where[u]
      /\ s_value'[s] = IF s_queue[s] = <<>> THEN s_value[s] + 1 ELSE s_value[s]
      /\ s_queue'[s] = Rest(s_queue[s])
      /\ s_handed'[s] = s_handed[s] \cup G
      /\ s_inside'[s] = s_inside[s] \ {t}
  BY <1>0, <1>1 DEF SemaTypeOK, Unblock
<1>6. SemaTypeOK'
  BY <1>0, <1>1, <1>2 DEF SemaTypeOK
<1>7. \A r \in Semaphores \ {s} : SemaSame(r)
  BY <1>0, <1>1 DEF SemaSame, SemaTypeOK
<1>8. LinkedAs(s_queue'[s], f, where', call')
  <2>1. \A u \in Tasks : where'[u] = "blocked" /\ call'[u] = f
                          <=> where[u] = "blocked" /\ call[u] = f /\ u \notin G
    BY <1>0, <1>5
  <2>. HIDE DEF f
  <2>2. LinkedAs(Rest(s_queue[s]), f, where', call')
    BY <1>1, <1>2, <2>1, LinkedLeave
  <2>. QED
    BY <1>5, <2>2
<1>9. SemaOf(s)'
  <2>1. \A u \in s_handed[s] : where[u] = "woken" /\ call[u] = f
    BY <1>1 DEF SemaOf, Resumes
  <2>2. \A u \in s_handed'[s] : Resumes(u, f)'
    <3>1. \A u \in s_handed'[s] : u \in Tasks /\ (u \in G \/ u \in s_handed[s])
      BY <1>1, <1>2, <1>5
    <3>. QED
      BY <3>1, <1>0, <1>2, <1>5, <2>1 DEF Resumes
  <2>3. \A u \in s_inside'[s] : call'[u] # f
    BY <1>0, <1>1, <1>5 DEF SemaOf
  <2>4. /\ s_pid[s] # None
        /\ s_value[s] + Cardinality(s_handed[s]) + Cardinality(s_inside[s]) + s_lost[s]
             = s_init[s]
        /\ s_value[s] > 0 => s_queue[s] = <<>>
    BY <1>0, <1>1 DEF SemaOf
  <2>5. /\ Cardinality(s_inside'[s]) = Cardinality(s_inside[s]) - 1
        /\ Cardinality(s_inside[s]) \in Nat /\ Cardinality(s_handed[s]) \in Nat
    BY <1>0, <1>1, <1>5, TaskSets
  <2>6. CASE s_queue[s] = <<>>
    <3>1. s_handed'[s] = s_handed[s] /\ s_value'[s] = s_value[s] + 1 /\ s_queue'[s] = <<>>
      BY <1>3, <1>5, <2>6
    <3>2. s_value'[s] + Cardinality(s_handed'[s]) + Cardinality(s_inside'[s]) + s_lost[s]
            = s_init[s]
      <4>1. (s_value[s] + 1) + Cardinality(s_handed[s]) + (Cardinality(s_inside[s]) - 1)
              + s_lost[s]
              = s_value[s] + Cardinality(s_handed[s]) + Cardinality(s_inside[s]) + s_lost[s]
        <5>1. /\ s_value[s] \in Nat /\ Cardinality(s_handed[s]) \in Nat
              /\ Cardinality(s_inside[s]) \in Nat /\ s_lost[s] \in Nat
          BY <1>1, <2>5
        <5>. QED
          BY <5>1
      <4>. QED
        BY <2>4, <2>5, <3>1, <4>1, Zenon
    <3>. QED
      BY <1>0, <2>2, <2>3, <2>4, <3>1, <3>2 DEF SemaOf
  <2>7. CASE s_queue[s] # <<>>
    <3>1. PICK u \in Tasks : G = {u}
      BY <1>3, <2>7
    <3>2. u \notin s_handed[s]
      BY <1>2, <2>1, <3>1
    <3>3. Cardinality(s_handed'[s]) = Cardinality(s_handed[s]) + 1
      BY <1>1, <1>5, <3>1, <3>2, TaskSets
    <3>4. s_value'[s] = s_value[s] /\ ~(s_value[s] > 0)
      BY <1>5, <2>4, <2>7
    <3>5. s_value'[s] + Cardinality(s_handed'[s]) + Cardinality(s_inside'[s]) + s_lost[s]
            = s_init[s]
      <4>1. s_value[s] + (Cardinality(s_handed[s]) + 1) + (Cardinality(s_inside[s]) - 1)
              + s_lost[s]
              = s_value[s] + Cardinality(s_handed[s]) + Cardinality(s_inside[s]) + s_lost[s]
        <5>1. /\ s_value[s] \in Nat /\ Cardinality(s_handed[s]) \in Nat
              /\ Cardinality(s_inside[s]) \in Nat /\ s_lost[s] \in Nat
          BY <1>1, <2>5
        <5>. QED
          BY <5>1
      <4>. QED
        BY <2>4, <2>5, <3>3, <3>4, <4>1, Zenon
    <3>. QED
      BY <1>0, <2>2, <2>3, <2>4, <3>4, <3>5 DEF SemaOf
  <2>. QED
    BY <2>6, <2>7
<1>. QED
  BY <1>0, <1>4, <1>6, <1>7, <1>8, <1>9, SemaCallKeeps

\* Nobody dies with the semaphores in D, so the others stay as they are.
LEMMA Destroyed ==
  ASSUME SyncInv, NEW D \in SUBSET Semaphores, NEW P,
         SemaDestroyed(D, P), NEW r \in Semaphores \ D,
         \A t \in P : /\ t \notin s_handed[r] \cup s_inside[r]
                      /\ ~Contains(s_queue[r], t)
  PROVE  SemaSame(r)
<1>1. /\ s_lost[r] \in Nat /\ s_queue[r] \in Seq(Tasks)
  BY SemaFacts
<1>2. s_handed[r] \ P = s_handed[r] /\ s_inside[r] \ P = s_inside[r]
  OBVIOUS
<1>3. P \cap (s_handed[r] \cup s_inside[r]) = {}
  OBVIOUS
<1>4. s_lost[r] + Cardinality(P \cap (s_handed[r] \cup s_inside[r])) = s_lost[r]
  <2>1. Cardinality(P \cap (s_handed[r] \cup s_inside[r])) = 0
    BY <1>3, FS_EmptySet, Zenon
  <2>. QED
    BY <1>1, <2>1
<1>5. Leaving(s_queue[r], P) = s_queue[r]
  BY <1>1, LeavingNone
<1>. QED
  BY <1>2, <1>4, <1>5 DEF SemaDestroyed, SemaSame

LEMMA SemaphoreDestroy ==
  ASSUME SyncInv, NEW t \in Tasks, NEW s \in Semaphores, do_semaphore_destroy(t, s),
         UNCHANGED <<main, mutexVars, barrierVars>>
  PROVE  SyncInv'
<1>. DEFINE f == <<"down", s>>
            G == SemaWoken({s})
<1>0. SemaDestroyed({s}, {}) /\ where' = Unblock(G) /\ UNCHANGED call
  BY DEF do_semaphore_destroy
<1>1. /\ PlacesOK /\ SemaTypeOK
      /\ LinkedAs(s_queue[s], f, where, call)
  BY SemaFacts
<1>2. G = {u \in Tasks : where[u] = "blocked" /\ call[u] = f}
  <2>1. G = ToSet(s_queue[s])
    BY DEF SemaWoken
  <2>. HIDE DEF f, G
  <2>. QED
    BY <1>1, <2>1, LinkedAll
<1>. HIDE DEF G
<1>3. PlacesOK' /\ Spares(Waits \ {f})
  <2>. HIDE DEF f
  <2>1. \A u \in G : where[u] = "blocked" /\ call[u] \notin Waits \ {f}
    BY <1>2
  <2>. QED
    BY <1>0, <2>1, Unblocked
<1>4. \A r \in Semaphores \ {s} : SemaSame(r)
  BY <1>0, Destroyed
<1>5. /\ s_pid'[s] = None /\ s_value'[s] = 0 /\ s_queue'[s] = <<>> /\ s_init'[s] = 0
      /\ s_handed'[s] = {} /\ s_inside'[s] = {} /\ s_lost'[s] = 0
  BY <1>0 DEF SemaDestroyed
<1>6. \A r \in Semaphores :
        /\ s_pid'[r] \in Tasks \cup {None} /\ s_value'[r] \in Nat /\ s_init'[r] \in Nat
        /\ s_lost'[r] \in Nat /\ s_queue'[r] \in Seq(Tasks)
        /\ s_handed'[r] \in SUBSET Tasks /\ s_inside'[r] \in SUBSET Tasks
  <2>. SUFFICES ASSUME NEW r \in Semaphores
                PROVE /\ s_pid'[r] \in Tasks \cup {None} /\ s_value'[r] \in Nat
                      /\ s_init'[r] \in Nat /\ s_lost'[r] \in Nat
                      /\ s_queue'[r] \in Seq(Tasks)
                      /\ s_handed'[r] \in SUBSET Tasks /\ s_inside'[r] \in SUBSET Tasks
    OBVIOUS
  <2>1. CASE r = s
    BY <2>1, <1>5, EmptyQueue
  <2>2. CASE r # s
    BY <2>2, <1>1, <1>4 DEF SemaSame, SemaTypeOK
  <2>. QED
    BY <2>1, <2>2
<1>7. SemaTypeOK'
  BY <1>0, <1>6 DEF SemaDestroyed, SemaTypeOK
<1>8. LinkedAs(s_queue'[s], f, where', call')
  <2>1. \A u \in Tasks : where'[u] = IF u \in G THEN "woken" ELSE where[u]
    BY <1>0 DEF Unblock
  <2>. QED
    BY <1>0, <1>2, <1>5, <2>1, EmptyQueue DEF LinkedAs
<1>9. SemaOf(s)'
  BY <1>5 DEF SemaOf
<1>. QED
  BY <1>3, <1>4, <1>7, <1>8, <1>9, SemaCallKeeps

LEMMA SemaphoreCallsStep ==
  ASSUME SyncInv, NEW t \in Tasks, SemaphoreCalls(t), UNCHANGED main
  PROVE  SyncInv'
<1>0. UNCHANGED <<mutexVars, barrierVars>>
  BY DEF SemaphoreCalls
<1>1. ASSUME NEW v \in InitValues, do_semaphore_init(t, v) PROVE SyncInv'
  BY <1>0, <1>1, SemaphoreInit1
<1>2. ASSUME NEW s \in Semaphores, do_semaphore_down(t, s) PROVE SyncInv'
  BY <1>0, <1>2, DownTakes, DownBlocks DEF do_semaphore_down
<1>3. ASSUME NEW s \in Semaphores,
             finish_down(t, s) \/ do_semaphore_up(t, s) \/ do_semaphore_destroy(t, s)
      PROVE  SyncInv'
  BY <1>0, <1>3, FinishDown, Up, SemaphoreDestroy
<1>. QED
  BY <1>1, <1>2, <1>3 DEF SemaphoreCalls

-----------------------------------------------------------------------------
(* Barriers.                                                                *)

\* What holds of barrier b.
BarrierOf(b) ==
  IF b_pid[b] = None
  THEN b_queue[b] = <<>> /\ \A t \in Tasks : b_passed[b][t] = 0
  ELSE /\ b_goal[b] = Cardinality(Tasks) - 1
       /\ b_goal[b] - b_value[b] <= Cardinality(Absent(b))
       /\ \A t, u \in Tasks : Alive(t) /\ Alive(u) => b_passed[b][t] = b_passed[b][u]

\* The step does not touch barrier b.
BarrierSame(b) ==
  /\ b_pid'[b] = b_pid[b] /\ b_goal'[b] = b_goal[b] /\ b_value'[b] = b_value[b]
  /\ b_queue'[b] = b_queue[b] /\ b_passed'[b] = b_passed[b]

\* A call on barrier b does not concern the others, nor the other objects.
LEMMA BarrierCallKeeps ==
  ASSUME SyncInv, NEW b \in Barriers, PlacesOK', Spares(Waits \ {<<"wait", b>>}),
         UNCHANGED <<mutexVars, semaVars>>, BarrierTypeOK', BarrierOf(b)',
         LinkedAs(b_queue'[b], <<"wait", b>>, where', call'),
         \A a \in Barriers \ {b} : BarrierSame(a)
  PROVE  SyncInv'
<1>1. Spares(AcquireCalls) /\ Spares(DownCalls)
  <2>1. /\ AcquireCalls \subseteq Waits \ {<<"wait", b>>}
        /\ DownCalls \subseteq Waits \ {<<"wait", b>>}
    BY CallNames DEF Waits
  <2>. QED
    BY <2>1, SparesLess
<1>2. BarrierInv /\ BarrierTypeOK /\ BarrierLinked(b_queue, where, call)
  BY Parts DEF BarrierInv
<1>3. ASSUME NEW a \in Barriers \ {b}
      PROVE  BarrierOf(a)' /\ LinkedAs(b_queue'[a], <<"wait", a>>, where', call')
  <2>1. <<"wait", a>> \in Waits \ {<<"wait", b>>}
    BY CallNames DEF Waits
  <2>2. BarrierSame(a)
    BY <1>3
  <2>3. LinkedAs(b_queue[a], <<"wait", a>>, where, call)
    BY <1>2 DEF BarrierLinked
  <2>4. LinkedAs(b_queue[a], <<"wait", a>>, where', call')
    BY <2>1, <2>3, LinkedSpared
  <2>5. Absent(a)' = Absent(a) /\ \A t \in Tasks : Alive(t)' <=> Alive(t)
    BY <2>1 DEF Spares, Absent, Alive
  <2>6. BarrierOf(a)
    BY <1>2 DEF BarrierInv, BarrierCounts, BarrierTogether, BarrierOf
  <2>. QED
    BY <2>2, <2>4, <2>5, <2>6 DEF BarrierOf, BarrierSame
<1>4. \A a \in Barriers : BarrierOf(a)'
  BY <1>3
<1>5. BarrierCounts' /\ BarrierTogether'
  BY <1>4 DEF BarrierCounts, BarrierTogether, BarrierOf
<1>6. BarrierLinked(b_queue', where', call')
  BY <1>3 DEF BarrierLinked
<1>7. BarrierInv'
  BY <1>5 DEF BarrierInv
<1>. QED
  BY <1>1, <1>6, <1>7, MutexSpared, SemaSpared, Assembled

LEMMA BarrierFacts ==
  ASSUME SyncInv, NEW b \in Barriers
  PROVE  /\ PlacesOK /\ BarrierTypeOK /\ BarrierOf(b)
         /\ LinkedAs(b_queue[b], <<"wait", b>>, where, call)
         /\ b_value[b] \in Nat /\ b_goal[b] \in Nat
         /\ b_passed[b] \in [Tasks -> Nat] /\ b_queue[b] \in Seq(Tasks)
<1>1. PlacesOK /\ BarrierInv /\ BarrierTypeOK /\ BarrierLinked(b_queue, where, call)
  BY Parts DEF BarrierInv
<1>. QED
  BY <1>1 DEF BarrierInv, BarrierCounts, BarrierTogether, BarrierOf, BarrierLinked,
              BarrierTypeOK

LEMMA BarrierInit1 ==
  ASSUME SyncInv, NEW t \in Tasks, do_barrier_init(t), UNCHANGED <<main, mutexVars, semaVars>>
  PROVE  SyncInv'
<1>. DEFINE goal == Cardinality(Tasks) - 1
<1>1. PICK b \in Barriers :
        /\ b_pid[b] = None
        /\ b_pid' = [b_pid EXCEPT ![b] = main[t]]
        /\ b_goal' = [b_goal EXCEPT ![b] = goal]
        /\ b_value' = [b_value EXCEPT ![b] = goal]
        /\ b_queue' = [b_queue EXCEPT ![b] = <<>>]
  BY DEF do_barrier_init
<1>2. UNCHANGED <<where, call, b_passed>>
  BY DEF do_barrier_init
<1>3. PlacesOK' /\ Spares(Waits \ {<<"wait", b>>})
  BY <1>2, Unmoved
<1>4. /\ PlacesOK /\ BarrierTypeOK /\ BarrierOf(b)
      /\ LinkedAs(b_queue[b], <<"wait", b>>, where, call)
  BY BarrierFacts
<1>5. main[t] \in Tasks /\ None \notin Tasks
  BY <1>4, Mains, TasksAssumption DEF PlacesOK
<1>6. goal \in Nat
  <2>1. Cardinality(Tasks) \in Nat /\ Cardinality(Tasks) # 0
    BY TaskSets
  <2>. QED
    BY <2>1
<1>. HIDE DEF goal
<1>7. BarrierTypeOK'
  BY <1>1, <1>2, <1>4, <1>5, <1>6, EmptyQueue DEF BarrierTypeOK
<1>8. \A a \in Barriers \ {b} : BarrierSame(a)
  BY <1>1, <1>2, <1>4 DEF BarrierSame, BarrierTypeOK
<1>9. b_queue'[b] = <<>> /\ b_queue[b] = <<>>
  BY <1>1, <1>4 DEF BarrierOf, BarrierTypeOK
<1>10. LinkedAs(b_queue'[b], <<"wait", b>>, where', call')
  BY <1>2, <1>4, <1>9
<1>11. BarrierOf(b)'
  <2>1. b_goal'[b] = goal /\ b_value'[b] = goal /\ b_pid'[b] # None
    BY <1>1, <1>4, <1>5 DEF BarrierTypeOK
  <2>2. \A u \in Tasks : b_passed'[b][u] = 0
    BY <1>1, <1>2, <1>4 DEF BarrierOf
  <2>3. Cardinality(Absent(b)') \in Nat
    BY TaskSets DEF Absent
  <2>4. b_goal'[b] - b_value'[b] <= Cardinality(Absent(b)')
    BY <1>6, <2>1, <2>3
  <2>. QED
    BY <2>1, <2>2, <2>4 DEF BarrierOf, goal
<1>. QED
  BY <1>3, <1>7, <1>8, <1>10, <1>11, BarrierCallKeeps

\* The last task of a round: all the others are dead or wait here.
LEMMA WaitReleases ==
  ASSUME SyncInv, NEW t \in Tasks, NEW b \in Barriers,
         InUser(t), b_pid[b] # None, b_value[b] = 0, release(t, b),
         UNCHANGED <<call, main, b_pid, b_goal, mutexVars, semaVars>>
  PROVE  SyncInv'
<1>. DEFINE f == <<"wait", b>>
            G == ToSet(b_queue[b])
            passed == [u \in Tasks |-> IF u = t \/ Contains(b_queue[b], u)
                                       THEN b_passed[b][u] + 1 ELSE b_passed[b][u]]
<1>0. /\ b_value' = [b_value EXCEPT ![b] = b_goal[b]]
      /\ b_queue' = [b_queue EXCEPT ![b] = <<>>]
      /\ where' = Unblock(G)
      /\ b_passed' = [b_passed EXCEPT ![b] = passed]
  BY DEF release
<1>1. /\ PlacesOK /\ BarrierTypeOK /\ BarrierOf(b)
      /\ LinkedAs(b_queue[b], f, where, call)
      /\ b_value[b] \in Nat /\ b_goal[b] \in Nat
      /\ b_passed[b] \in [Tasks -> Nat] /\ b_queue[b] \in Seq(Tasks)
  BY BarrierFacts
<1>2. G = {u \in Tasks : where[u] = "blocked" /\ call[u] = f}
  <2>. HIDE DEF f
  <2>. QED
    BY <1>1, LinkedAll
<1>3. passed \in [Tasks -> Nat]
  BY <1>1
<1>. HIDE DEF G, passed
<1>4. PlacesOK' /\ Spares(Waits \ {f})
  <2>. HIDE DEF f
  <2>1. \A u \in G : where[u] = "blocked" /\ call[u] \notin Waits \ {f}
    BY <1>2
  <2>. QED
    BY <1>0, <2>1, Unblocked
<1>5. \A u \in Tasks : where'[u] = IF u \in G THEN "woken" ELSE where[u]
  BY <1>0 DEF Unblock
<1>6. b_value'[b] = b_goal[b] /\ b_queue'[b] = <<>> /\ b_passed'[b] = passed
  BY <1>0, <1>1 DEF BarrierTypeOK
<1>7. BarrierTypeOK'
  BY <1>0, <1>1, <1>3, EmptyQueue DEF BarrierTypeOK
<1>8. \A a \in Barriers \ {b} : BarrierSame(a)
  BY <1>0, <1>1 DEF BarrierSame, BarrierTypeOK
<1>9. LinkedAs(b_queue'[b], f, where', call')
  BY <1>2, <1>5, <1>6, EmptyQueue DEF LinkedAs
<1>10. Absent(b) = Tasks \ {t}
  <2>1. /\ b_goal[b] = Cardinality(Tasks) - 1
        /\ b_goal[b] - b_value[b] <= Cardinality(Absent(b))
    BY <1>1 DEF BarrierOf
  <2>2. /\ Cardinality(Tasks \ {t}) = Cardinality(Tasks) - 1
        /\ Cardinality(Tasks) \in Nat
    BY TaskSets
  <2>3. Absent(b) \in SUBSET (Tasks \ {t})
    BY DEF Absent, InUser
  <2>4. /\ Cardinality(Absent(b)) \in Nat
        /\ Cardinality(Absent(b)) <= Cardinality(Tasks \ {t})
    BY <2>3, TaskSets
  <2>5. Cardinality(Absent(b)) = Cardinality(Tasks \ {t})
    BY <1>1, <2>1, <2>2, <2>4
  <2>6. Tasks \ {t} \in SUBSET Tasks
    OBVIOUS
  <2>7. Cardinality(Absent(b)) = Cardinality(Tasks \ {t}) => Tasks \ {t} = Absent(b)
    <3>1. \A A \in SUBSET Tasks : \A B \in SUBSET A :
            Cardinality(B) = Cardinality(A) => A = B
      BY TaskSets
    <3>. DEFINE A == Tasks \ {t}
                B == Absent(b)
    <3>2. A \in SUBSET Tasks /\ B \in SUBSET A
      BY <2>3, <2>6
    <3>. HIDE DEF A, B
    <3>3. Cardinality(B) = Cardinality(A) => A = B
      BY <3>1, <3>2
    <3>. QED
      BY <3>3 DEF A, B
  <2>. QED
    BY <2>5, <2>7
<1>11. \A u \in Tasks : Alive(u)' => Alive(u) /\ passed[u] = b_passed[b][u] + 1
  <2>. SUFFICES ASSUME NEW u \in Tasks, Alive(u)'
                PROVE  Alive(u) /\ passed[u] = b_passed[b][u] + 1
    OBVIOUS
  <2>1. where[u] # "dead"
    BY <1>2, <1>5 DEF Alive
  <2>2. u = t \/ Contains(b_queue[b], u)
    BY <1>1, <1>10, <2>1 DEF Absent, LinkedAs
  <2>. QED
    BY <2>1, <2>2 DEF Alive, passed
<1>12. BarrierOf(b)'
  <2>1. Cardinality(Absent(b)') \in Nat
    BY TaskSets DEF Absent
  <2>2. b_goal'[b] - b_value'[b] <= Cardinality(Absent(b)')
    BY <1>1, <1>6, <2>1
  <2>3. \A u, v \in Tasks : Alive(u)' /\ Alive(v)' => b_passed'[b][u] = b_passed'[b][v]
    BY <1>1, <1>6, <1>11 DEF BarrierOf
  <2>4. b_goal'[b] = Cardinality(Tasks) - 1 /\ b_pid'[b] # None
    BY <1>1 DEF BarrierOf
  <2>. QED
    BY <2>2, <2>3, <2>4 DEF BarrierOf
<1>. QED
  BY <1>4, <1>7, <1>8, <1>9, <1>12, BarrierCallKeeps

LEMMA WaitBlocks ==
  ASSUME SyncInv, NEW t \in Tasks, NEW b \in Barriers,
         InUser(t), b_pid[b] # None, b_value[b] # 0,
         b_value' = [b_value EXCEPT ![b] = @ - 1],
         Block(t, <<"wait", b>>),
         b_queue' = [b_queue EXCEPT ![b] = Append(@, t)],
         UNCHANGED <<main, b_passed, b_pid, b_goal, mutexVars, semaVars>>
  PROVE  SyncInv'
<1>. DEFINE f == <<"wait", b>>
<1>1. /\ PlacesOK /\ BarrierTypeOK /\ BarrierOf(b) /\ SyncTypeOK
      /\ LinkedAs(b_queue[b], f, where, call)
      /\ b_value[b] \in Nat /\ b_goal[b] \in Nat
      /\ b_passed[b] \in [Tasks -> Nat] /\ b_queue[b] \in Seq(Tasks)
  BY BarrierFacts DEF SyncInv
<1>2. f \in Waits /\ where[t] = "user" /\ call[t] = None /\ None \notin Waits
  BY <1>1, CallNames DEF InUser, PlacesOK, OutsideCalls, Waits
<1>3. PlacesOK' /\ Spares(Waits \ {f})
  BY <1>2, Blocked
<1>4. \A u \in Tasks : /\ where'[u] = IF u = t THEN "blocked" ELSE where[u]
                       /\ call'[u] = IF u = t THEN f ELSE call[u]
  BY <1>1 DEF Block, PlacesOK
<1>5. /\ b_queue'[b] = Append(b_queue[b], t) /\ Append(b_queue[b], t) \in Seq(Tasks)
      /\ b_value'[b] = b_value[b] - 1
  BY <1>1 DEF BarrierTypeOK
<1>6. BarrierTypeOK'
  BY <1>1, <1>5 DEF BarrierTypeOK
<1>7. \A a \in Barriers \ {b} : BarrierSame(a)
  BY <1>1 DEF BarrierSame, BarrierTypeOK
<1>8. LinkedAs(b_queue'[b], f, where', call')
  <2>1. where[t] # "blocked" /\ Block(t, f)
    BY <1>2
  <2>. HIDE DEF f
  <2>2. LinkedAs(IF f = f THEN Append(b_queue[b], t) ELSE b_queue[b], f, where', call')
    BY <1>1, <2>1, LinkedBlock
  <2>. QED
    BY <1>5, <2>2
<1>9. BarrierOf(b)'
  <2>1. t \notin Absent(b) /\ Absent(b)' = Absent(b) \cup {t} /\ Absent(b) \in SUBSET Tasks
    BY <1>2, <1>4 DEF Absent
  <2>2. /\ Cardinality(Absent(b) \cup {t}) = Cardinality(Absent(b)) + 1
        /\ Cardinality(Absent(b)) \in Nat
    BY <2>1, TaskSets
  <2>3. /\ b_goal[b] = Cardinality(Tasks) - 1
        /\ b_goal[b] - b_value[b] <= Cardinality(Absent(b))
        /\ \A u, v \in Tasks : Alive(u) /\ Alive(v) => b_passed[b][u] = b_passed[b][v]
    BY <1>1 DEF BarrierOf
  <2>4. b_goal[b] - (b_value[b] - 1) <= Cardinality(Absent(b)) + 1
    BY <1>1, <2>2, <2>3
  <2>5. Cardinality(Absent(b)') = Cardinality(Absent(b)) + 1
    BY <2>1, <2>2, Zenon
  <2>6. b_goal[b] - b_value'[b] <= Cardinality(Absent(b)')
    BY <1>5, <2>4, <2>5
  <2>7. \A u \in Tasks : Alive(u)' <=> Alive(u)
    BY <1>2, <1>4 DEF Alive
  <2>. QED
    BY <2>3, <2>6, <2>7 DEF BarrierOf
<1>. QED
  BY <1>3, <1>6, <1>7, <1>8, <1>9, BarrierCallKeeps

LEMMA FinishWait ==
  ASSUME SyncInv, NEW t \in Tasks, NEW b \in Barriers, finish_wait(t, b),
         UNCHANGED <<main, mutexVars, semaVars>>
  PROVE  SyncInv'
<1>. DEFINE f == <<"wait", b>>
<1>0. where[t] = "woken" /\ call[t] = f /\ Return(t) /\ UNCHANGED barrierVars
  BY DEF finish_wait, Resumes
<1>1. /\ PlacesOK /\ BarrierTypeOK /\ BarrierOf(b)
      /\ LinkedAs(b_queue[b], f, where, call)
  BY BarrierFacts
<1>2. None \notin Waits /\ None # f
  BY CallNames DEF None
<1>3. PlacesOK' /\ Spares(Waits \ {f})
  BY <1>0, <1>2, Returned
<1>4. \A u \in Tasks : /\ where'[u] = IF u = t THEN "user" ELSE where[u]
                       /\ call'[u] = IF u = t THEN None ELSE call[u]
  BY <1>0, <1>1 DEF Return, PlacesOK
<1>5. BarrierTypeOK' /\ \A a \in Barriers : BarrierSame(a)
  BY <1>0, <1>1 DEF BarrierTypeOK, BarrierSame, barrierVars
<1>6. LinkedAs(b_queue'[b], f, where', call')
  BY <1>0, <1>1, <1>2, <1>4 DEF LinkedAs, barrierVars
<1>7. BarrierOf(b)'
  <2>1. Absent(b)' = Absent(b) /\ \A u \in Tasks : Alive(u)' <=> Alive(u)
    BY <1>0, <1>4 DEF Absent, Alive
  <2>. QED
    BY <1>0, <1>1, <2>1 DEF BarrierOf, barrierVars
<1>. QED
  BY <1>3, <1>5, <1>6, <1>7, BarrierCallKeeps

LEMMA BarrierDestroy ==
  ASSUME SyncInv, NEW t \in Tasks, NEW b \in Barriers, do_barrier_destroy(t, b),
         UNCHANGED <<main, mutexVars, semaVars>>
  PROVE  SyncInv'
<1>. DEFINE f == <<"wait", b>>
            G == BarrierWoken({b})
<1>0. BarrierDestroyed({b}, {}) /\ where' = Unblock(G) /\ UNCHANGED call
  BY DEF do_barrier_destroy
<1>1. /\ PlacesOK /\ BarrierTypeOK
      /\ LinkedAs(b_queue[b], f, where, call)
  BY BarrierFacts
<1>2. G = {u \in Tasks : where[u] = "blocked" /\ call[u] = f}
  <2>1. G = ToSet(b_queue[b])
    BY DEF BarrierWoken
  <2>. HIDE DEF f, G
  <2>. QED
    BY <1>1, <2>1, LinkedAll
<1>. HIDE DEF G
<1>3. PlacesOK' /\ Spares(Waits \ {f})
  <2>. HIDE DEF f
  <2>1. \A u \in G : where[u] = "blocked" /\ call[u] \notin Waits \ {f}
    BY <1>2
  <2>. QED
    BY <1>0, <2>1, Unblocked
<1>4. \A a \in Barriers \ {b} : BarrierSame(a)
  <2>. SUFFICES ASSUME NEW a \in Barriers \ {b} PROVE BarrierSame(a)
    OBVIOUS
  <2>1. b_queue[a] \in Seq(Tasks)
    BY BarrierFacts
  <2>2. Leaving(b_queue[a], {}) = b_queue[a]
    BY <2>1, LeavingNone
  <2>. QED
    BY <1>0, <2>2 DEF BarrierDestroyed, BarrierSame
<1>5. /\ b_pid'[b] = None /\ b_goal'[b] = 0 /\ b_value'[b] = 0 /\ b_queue'[b] = <<>>
      /\ b_passed'[b] = [u \in Tasks |-> 0]
  BY <1>0 DEF BarrierDestroyed
<1>6. \A a \in Barriers :
        /\ b_pid'[a] \in Tasks \cup {None} /\ b_goal'[a] \in Nat /\ b_value'[a] \in Nat
        /\ b_queue'[a] \in Seq(Tasks) /\ b_passed'[a] \in [Tasks -> Nat]
  <2>. SUFFICES ASSUME NEW a \in Barriers
                PROVE /\ b_pid'[a] \in Tasks \cup {None} /\ b_goal'[a] \in Nat
                      /\ b_value'[a] \in Nat
                      /\ b_queue'[a] \in Seq(Tasks) /\ b_passed'[a] \in [Tasks -> Nat]
    OBVIOUS
  <2>1. CASE a = b
    BY <2>1, <1>5, EmptyQueue
  <2>2. CASE a # b
    BY <2>2, <1>1, <1>4 DEF BarrierSame, BarrierTypeOK
  <2>. QED
    BY <2>1, <2>2
<1>7. BarrierTypeOK'
  BY <1>0, <1>6 DEF BarrierDestroyed, BarrierTypeOK
<1>8. LinkedAs(b_queue'[b], f, where', call')
  <2>1. \A u \in Tasks : where'[u] = IF u \in G THEN "woken" ELSE where[u]
    BY <1>0 DEF Unblock
  <2>. QED
    BY <1>0, <1>2, <1>5, <2>1, EmptyQueue DEF LinkedAs
<1>9. BarrierOf(b)'
  BY <1>5 DEF BarrierOf
<1>. QED
  BY <1>3, <1>4, <1>7, <1>8, <1>9, BarrierCallKeeps

LEMMA BarrierCallsStep ==
  ASSUME SyncInv, NEW t \in Tasks, BarrierCalls(t), UNCHANGED main
  PROVE  SyncInv'
<1>0. UNCHANGED <<mutexVars, semaVars>>
  BY DEF BarrierCalls
<1>1. CASE do_barrier_init(t)
  BY <1>0, <1>1, BarrierInit1
<1>2. ASSUME NEW b \in Barriers, do_barrier_wait(t, b) PROVE SyncInv'
  BY <1>0, <1>2, WaitReleases, WaitBlocks DEF do_barrier_wait
<1>3. ASSUME NEW b \in Barriers, finish_wait(t, b) \/ do_barrier_destroy(t, b)
      PROVE  SyncInv'
  BY <1>0, <1>3, FinishWait, BarrierDestroy
<1>. QED
  BY <1>1, <1>2, <1>3 DEF BarrierCalls

-----------------------------------------------------------------------------
(* The death of a process, or of a thread.                                  *)

\* The tasks P die, and those of W that live on are unblocked.
Death(P, W) ==
  /\ P \in SUBSET Tasks /\ \A u \in W : where[u] = "blocked"
  /\ where' = [u \in Tasks |-> IF u \in P THEN "dead" ELSE Unblock(W)[u]]
  /\ call' = [u \in Tasks |-> IF u \in P THEN None ELSE call[u]]
  /\ UNCHANGED main

\* Of a dead task nothing is left, and one that is unblocked was in a queue.
LEMMA DeathPlaces ==
  ASSUME SyncInv, NEW P, NEW W, Death(P, W)
  PROVE  /\ PlacesOK'
         /\ \A u \in Tasks :
              /\ where'[u] = IF u \in P THEN "dead" ELSE IF u \in W THEN "woken" ELSE where[u]
              /\ call'[u] = IF u \in P THEN None ELSE call[u]
         /\ None \notin Waits
<1>1. PlacesOK /\ P \in SUBSET Tasks /\ \A u \in W : where[u] = "blocked"
  BY Parts DEF Death
<1>2. \A u \in Tasks :
        /\ where'[u] = IF u \in P THEN "dead" ELSE IF u \in W THEN "woken" ELSE where[u]
        /\ call'[u] = IF u \in P THEN None ELSE call[u]
  BY DEF Death, Unblock
<1>3. where' \in [Tasks -> Wheres]
  <2>1. \A u \in Tasks : where'[u] \in Wheres
    BY <1>1, <1>2 DEF PlacesOK, Wheres
  <2>. QED
    BY <2>1 DEF Death
<1>4. call' \in [Tasks -> {None} \cup Waits]
  <2>1. \A u \in Tasks : call'[u] \in {None} \cup Waits
    BY <1>1, <1>2 DEF PlacesOK
  <2>. QED
    BY <2>1 DEF Death
<1>5. OutsideCalls'
  BY <1>1, <1>2 DEF PlacesOK, OutsideCalls
<1>6. \A u \in Tasks : where'[u] = "blocked" => call'[u] \in Waits
  BY <1>1, <1>2 DEF PlacesOK
<1>7. None \notin Waits
  BY CallNames
<1>. QED
  BY <1>1, <1>2, <1>3, <1>4, <1>5, <1>6, <1>7 DEF PlacesOK, Death

\* Those of W that are in call f, and live on, are the tasks G.
WokenFrom(P, W, f, G) ==
  \A u \in Tasks : where[u] = "blocked" /\ call[u] = f /\ u \notin P => (u \in W <=> u \in G)

\* The queue of the call f when the tasks of P leave it, and those of W that are in f.
LEMMA DeathQueue ==
  ASSUME SyncInv, NEW P, NEW W, Death(P, W),
         NEW f \in Waits, NEW q, LinkedAs(q, f, where, call),
         NEW G, WokenFrom(P, W, f, G)
  PROVE  /\ LinkedAs(Leaving(q, P \cup G), f, where', call')
         /\ \A u : Contains(Leaving(q, P \cup G), u) => Contains(q, u) /\ u \notin P \cup G
<1>. DEFINE r == Leaving(q, P \cup G)
<1>1. q \in Seq(Tasks) /\ IsInjective(q)
  BY DEF LinkedAs
<1>2. /\ r \in Seq(Tasks) /\ IsInjective(r)
      /\ \A u : Contains(r, u) <=> Contains(q, u) /\ u \notin P \cup G
  BY <1>1, LeavingElements
<1>3. /\ \A u \in Tasks :
           /\ where'[u] = IF u \in P THEN "dead" ELSE IF u \in W THEN "woken" ELSE where[u]
           /\ call'[u] = IF u \in P THEN None ELSE call[u]
      /\ None # f
  BY DeathPlaces
<1>4. \A u \in Tasks : where'[u] = "blocked" /\ call'[u] = f
                         <=> where[u] = "blocked" /\ call[u] = f /\ u \notin P \cup G
  BY <1>3 DEF WokenFrom
<1>5. \A u \in Tasks : Contains(r, u) <=> Contains(q, u) /\ u \notin P \cup G
  BY <1>2
<1>. HIDE DEF r
<1>6. LinkedAs(r, f, where', call')
  BY <1>2, <1>4, <1>5, LinkedLeave
<1>. QED
  BY <1>2, <1>6 DEF r

\* What the locks of the tasks P go through: the locks F are unlocked, and nobody holds
\* a lock that neither is unlocked nor counts as kept by a thread.
LocksLeft(P, queue, F) ==
  /\ MutexLinked(queue, where', call') /\ LeaveSlots(P, queue)
  /\ F \subseteq Mutexes /\ m_locked' = [m \in Mutexes |-> m_locked[m] /\ m \notin F]
  /\ \A m \in F : Holders(m) \subseteq P
  /\ m_forgotten' \subseteq Mutexes /\ m_kept' \subseteq Mutexes
  /\ \A m \in m_kept' : m_locked'[m]
  /\ \A m \in m_kept \ F : m \in m_kept'
  /\ \A m \in m_kept' \ m_kept : Holders(m) \subseteq P
  /\ \A m \in Mutexes : m_locked[m] /\ m \notin F /\ m \notin m_kept' => Holders(m) \cap P = {}
  /\ \A m \in Mutexes : queue[m] # <<>> =>
       \/ m_locked'[m] \/ m \in m_forgotten'
       \/ \E u \in Tasks : where'[u] = "woken" /\ call'[u] = <<"acquire", m>>

LEMMA DeathMutexes ==
  ASSUME SyncInv, NEW P, NEW W, Death(P, W), NEW queue, NEW F, LocksLeft(P, queue, F)
  PROVE  MutexInv' /\ MutexLinked(m_queue', where', call')
<1>0. /\ P \in SUBSET Tasks /\ F \subseteq Mutexes
      /\ MutexLinked(queue, where', call') /\ LeaveSlots(P, queue)
      /\ m_locked' = [m \in Mutexes |-> m_locked[m] /\ m \notin F]
      /\ \A m \in F : Holders(m) \subseteq P
      /\ m_forgotten' \subseteq Mutexes /\ m_kept' \subseteq Mutexes
      /\ \A m \in m_kept' : m_locked'[m]
      /\ \A m \in m_kept \ F : m \in m_kept'
      /\ \A m \in m_kept' \ m_kept : Holders(m) \subseteq P
      /\ \A m \in Mutexes : m_locked[m] /\ m \notin F /\ m \notin m_kept'
                            => Holders(m) \cap P = {}
      /\ \A m \in Mutexes : queue[m] # <<>> =>
           \/ m_locked'[m] \/ m \in m_forgotten'
           \/ \E u \in Tasks : where'[u] = "woken" /\ call'[u] = <<"acquire", m>>
  BY DEF LocksLeft, Death
<1>. DEFINE applied(m) == {u \in P : m \in mlock_ocp[u]}
            last(m) == applied(m) # {} /\ m_apply[m] = Cardinality(applied(m))
<1>1. /\ m_queue' = [m \in Mutexes |-> IF last(m) THEN <<>> ELSE queue[m]]
      /\ m_apply' = [m \in Mutexes |-> m_apply[m] - Cardinality(applied(m))]
      /\ m_key' = [m \in Mutexes |-> IF last(m) THEN 0 ELSE m_key[m]]
      /\ m_pid' = [m \in Mutexes |-> IF last(m) THEN None ELSE m_pid[m]]
      /\ mlock_ocp' = [u \in Tasks |-> IF u \in P THEN {} ELSE mlock_ocp[u]]
      /\ m_holds' = [u \in Tasks |-> IF u \in P THEN {} ELSE m_holds[u]]
  BY <1>0 DEF LeaveSlots
<1>2. /\ MutexTypeOK /\ MutexClaims /\ MutexSlotsExact /\ MutexExcludes
      /\ PlacesOK
  BY Parts DEF MutexInv
<1>3. \A u \in Tasks :
        /\ where'[u] = IF u \in P THEN "dead" ELSE IF u \in W THEN "woken" ELSE where[u]
        /\ call'[u] = IF u \in P THEN None ELSE call[u]
  BY DeathPlaces
<1>4. \A m \in Mutexes : /\ applied(m) \in SUBSET Applicants(m)
                         /\ Applicants(m) \in SUBSET Tasks
                         /\ Holders(m) \subseteq Applicants(m)
  BY <1>0, <1>2 DEF Applicants, Holders, MutexClaims
<1>5. \A m \in Mutexes : Applicants(m)' = Applicants(m) \ applied(m)
  BY <1>0, <1>1 DEF Applicants
<1>6. \A m \in Mutexes : Holders(m)' = Holders(m) \ P
  BY <1>0, <1>1 DEF Holders
<1>7. \A m \in Mutexes : m_apply[m] = Cardinality(Applicants(m))
  BY <1>2 DEF MutexSlotsExact, Applicants
<1>. HIDE DEF applied
<1>8. \A m \in Mutexes :
        /\ Cardinality(applied(m)) \in Nat /\ Cardinality(Applicants(m)) \in Nat
        /\ Cardinality(Applicants(m) \ applied(m))
             = Cardinality(Applicants(m)) - Cardinality(applied(m))
        /\ Cardinality(Applicants(m) \ applied(m)) \in Nat
        /\ Cardinality(applied(m)) = Cardinality(Applicants(m)) => Applicants(m) = applied(m)
  <2>. SUFFICES ASSUME NEW m \in Mutexes
                PROVE  /\ Cardinality(applied(m)) \in Nat /\ Cardinality(Applicants(m)) \in Nat
                       /\ Cardinality(Applicants(m) \ applied(m))
                            = Cardinality(Applicants(m)) - Cardinality(applied(m))
                       /\ Cardinality(Applicants(m) \ applied(m)) \in Nat
                       /\ Cardinality(applied(m)) = Cardinality(Applicants(m))
                            => Applicants(m) = applied(m)
    OBVIOUS
  <2>1. /\ applied(m) \in SUBSET Applicants(m) /\ applied(m) \in SUBSET Tasks
        /\ Applicants(m) \in SUBSET Tasks /\ Applicants(m) \ applied(m) \in SUBSET Tasks
    BY <1>4
  <2>. QED
    BY <2>1, TaskSets
<1>9. \A m \in Mutexes : m_apply'[m] = Cardinality(Applicants(m)')
  BY <1>1, <1>5, <1>7, <1>8
\* In a slot that is given up by its last users nobody is left.
<1>10. \A m \in Mutexes : last(m) => Applicants(m) \subseteq P
  <2>1. \A m \in Mutexes : applied(m) \subseteq P
    BY <1>0 DEF applied
  <2>. QED
    BY <1>7, <1>8, <2>1
<1>. HIDE DEF last
<1>11. MutexTypeOK'
  <2>1. m_apply' \in [Mutexes -> Nat]
    BY <1>1, <1>7, <1>8
  <2>2. m_key' \in [Mutexes -> MutexKeys \cup {0}]
    BY <1>1, <1>2 DEF MutexTypeOK
  <2>3. m_pid' \in [Mutexes -> Tasks \cup {None}]
    BY <1>1, <1>2 DEF MutexTypeOK
  <2>4. m_locked' \in [Mutexes -> BOOLEAN]
    <3>1. \A m \in Mutexes : (m_locked[m] /\ m \notin F) \in BOOLEAN
      OBVIOUS
    <3>. QED
      BY <1>0, <3>1
  <2>5. m_queue' \in [Mutexes -> Seq(Tasks)]
    <3>1. \A m \in Mutexes : queue[m] \in Seq(Tasks)
      BY <1>0 DEF MutexLinked, LinkedAs
    <3>. QED
      BY <1>1, <3>1, EmptyQueue
  <2>6. mlock_ocp' \in [Tasks -> SUBSET Mutexes] /\ m_holds' \in [Tasks -> SUBSET Mutexes]
    BY <1>1, <1>2 DEF MutexTypeOK
  <2>. QED
    BY <1>0, <2>1, <2>2, <2>3, <2>4, <2>5, <2>6 DEF MutexTypeOK
<1>12. MutexClaims'
  <2>1. \A u \in Tasks : m_holds'[u] \subseteq mlock_ocp'[u]
    BY <1>1, <1>2 DEF MutexClaims
  <2>2. \A u \in Tasks, m \in Mutexes : call'[u] = <<"acquire", m>> => m \in mlock_ocp'[u]
    <3>1. \A m \in Mutexes : <<"acquire", m>> # None
      BY CallNames DEF Waits
    <3>. QED
      BY <1>1, <1>2, <1>3, <3>1 DEF MutexClaims
  <2>3. \A u \in Tasks : where'[u] = "dead" => mlock_ocp'[u] = {}
    BY <1>1, <1>2, <1>3 DEF MutexClaims
  <2>. QED
    BY <1>0, <2>1, <2>2, <2>3 DEF MutexClaims
<1>13. ASSUME NEW m \in Mutexes
      PROVE  LinkedAs(m_queue'[m], <<"acquire", m>>, where', call')
  <2>1. LinkedAs(queue[m], <<"acquire", m>>, where', call')
    BY <1>0 DEF MutexLinked
  <2>2. CASE ~last(m)
    BY <1>1, <2>1, <2>2
  <2>3. CASE last(m)
    <3>1. m_queue'[m] = <<>>
      BY <1>1, <2>3
    <3>2. \A u \in Tasks : call'[u] # <<"acquire", m>>
      <4>1. \A u \in Tasks : m \notin mlock_ocp'[u]
        BY <1>1, <1>10, <2>3 DEF Applicants
      <4>. QED
        BY <1>12, <4>1 DEF MutexClaims
    <3>. QED
      BY <3>1, <3>2, EmptyQueue DEF LinkedAs
  <2>. QED
    BY <2>2, <2>3
<1>14. MutexExcludes'
  <2>. SUFFICES ASSUME NEW m \in Mutexes
                PROVE  IF m_locked'[m] /\ m \notin m_kept'
                       THEN /\ Cardinality(Holders(m)') = 1
                            /\ \A u \in Holders(m)' : main'[u] = m_pid'[m]
                       ELSE Holders(m)' = {}
    BY DEF MutexExcludes, Holders
  <2>1. IF m_locked[m] /\ m \notin m_kept
        THEN Cardinality(Holders(m)) = 1 /\ \A u \in Holders(m) : main[u] = m_pid[m]
        ELSE Holders(m) = {}
    BY <1>2 DEF MutexExcludes, Holders
  <2>2. m_locked'[m] <=> m_locked[m] /\ m \notin F
    BY <1>0
  <2>3. CASE m_locked'[m] /\ m \notin m_kept'
    <3>1. Holders(m)' = Holders(m) /\ Holders(m) \cap P = {} /\ m \notin m_kept
      BY <1>0, <1>6, <2>2, <2>3
    <3>2. Cardinality(Holders(m)) = 1 /\ \A u \in Holders(m) : main[u] = m_pid[m]
      BY <2>1, <2>2, <2>3, <3>1
    <3>3. Holders(m) # {}
      <4>1. Cardinality({}) = 0
        BY TaskSets
      <4>2. Cardinality(Holders(m)) # Cardinality({})
        BY <3>2, <4>1
      <4>. QED
        BY <4>2, Zenon
    <3>4. ~last(m)
      BY <1>4, <1>10, <3>1, <3>3
    <3>5. m_pid'[m] = m_pid[m] /\ UNCHANGED main
      BY <1>1, <3>4 DEF Death
    <3>. QED
      BY <2>3, <3>1, <3>2, <3>5
  <2>4. CASE ~m_locked'[m] \/ m \in m_kept'
    <3>1. CASE m \in F
      BY <1>0, <1>6, <2>4, <3>1
    <3>2. CASE m \notin F /\ m \in m_kept' /\ m \notin m_kept
      BY <1>0, <1>6, <2>4, <3>2
    <3>3. CASE m \notin F /\ ~(m \in m_kept' /\ m \notin m_kept)
      BY <1>0, <1>6, <2>1, <2>2, <2>4, <3>3
    <3>. QED
      BY <3>1, <3>2, <3>3
  <2>. QED
    BY <2>3, <2>4
<1>15. MutexSlotsExact'
  <2>1. FreeSlots'
    BY <1>9, <1>11, <1>12, <1>13, <1>14, SlotsFreeNext DEF MutexLinked
  <2>2. \A m \in Mutexes : m_apply'[m] # 0 => m_key'[m] = m_key[m] /\ m_apply[m] # 0
    <3>. SUFFICES ASSUME NEW m \in Mutexes, m_apply'[m] # 0
                  PROVE  m_key'[m] = m_key[m] /\ m_apply[m] # 0
      OBVIOUS
    <3>1. /\ m_apply'[m] = m_apply[m] - Cardinality(applied(m))
          /\ m_apply[m] = Cardinality(Applicants(m))
          /\ m_apply'[m] = Cardinality(Applicants(m) \ applied(m))
      BY <1>1, <1>7, <1>8
    <3>2. m_apply[m] # 0
      BY <1>8, <3>1
    <3>3. ~last(m)
      BY <1>8, <3>1 DEF last
    <3>. QED
      BY <1>1, <3>2, <3>3
  <2>3. \A m, n \in Mutexes : m # n /\ m_apply'[m] # 0 /\ m_apply'[n] # 0
                                => m_key'[m] # m_key'[n]
    BY <1>2, <2>2 DEF MutexSlotsExact
  <2>. QED
    BY <1>9, <2>1, <2>3 DEF FreeSlots, MutexSlotsExact, Applicants
<1>16. MutexWaitersServed'
  <2>1. \A m \in Mutexes : m_queue'[m] # <<>> => queue[m] # <<>>
    BY <1>1
  <2>. QED
    BY <1>0, <2>1 DEF MutexWaitersServed, Resumes
<1>. QED
  BY <1>11, <1>12, <1>13, <1>14, <1>15, <1>16 DEF MutexInv, MutexLinked

\* The semaphores D are destroyed.
SemasWake(P, W, D) ==
  /\ D \subseteq Semaphores /\ SemaDestroyed(D, P)
  /\ \A s \in Semaphores, u \in Tasks :
       where[u] = "blocked" /\ call[u] = <<"down", s>> /\ u \notin P
         => (u \in W <=> s \in D)

LEMMA DeathSemas ==
  ASSUME SyncInv, NEW P, NEW W, Death(P, W), NEW D, SemasWake(P, W, D)
  PROVE  SemaInv' /\ SemaLinked(s_queue', where', call')
<1>0. /\ P \in SUBSET Tasks /\ D \subseteq Semaphores /\ SemaDestroyed(D, P)
      /\ \A s \in Semaphores, u \in Tasks :
           where[u] = "blocked" /\ call[u] = <<"down", s>> /\ u \notin P
             => (u \in W <=> s \in D)
  BY DEF Death, SemasWake
<1>1. \A u \in Tasks :
        /\ where'[u] = IF u \in P THEN "dead" ELSE IF u \in W THEN "woken" ELSE where[u]
        /\ call'[u] = IF u \in P THEN None ELSE call[u]
  BY DeathPlaces
<1>2. ASSUME NEW s \in D
      PROVE  /\ s_pid'[s] = None /\ s_value'[s] = 0 /\ s_queue'[s] = <<>> /\ s_init'[s] = 0
             /\ s_handed'[s] = {} /\ s_inside'[s] = {} /\ s_lost'[s] = 0
  BY <1>0 DEF SemaDestroyed
<1>3. ASSUME NEW s \in Semaphores \ D
      PROVE  /\ s_pid'[s] = s_pid[s] /\ s_value'[s] = s_value[s] /\ s_init'[s] = s_init[s]
             /\ s_queue'[s] = Leaving(s_queue[s], P)
             /\ s_handed'[s] = s_handed[s] \ P /\ s_inside'[s] = s_inside[s] \ P
             /\ s_lost'[s] = s_lost[s] + Cardinality(P \cap (s_handed[s] \cup s_inside[s]))
  BY <1>0 DEF SemaDestroyed
<1>4. ASSUME NEW s \in Semaphores
      PROVE  LinkedAs(s_queue'[s], <<"down", s>>, where', call')
  <2>. DEFINE f == <<"down", s>>
  <2>1. LinkedAs(s_queue[s], f, where, call) /\ s_queue[s] \in Seq(Tasks)
    BY SemaFacts
  <2>2. f \in Waits /\ None # f
    BY CallNames DEF Waits
  <2>3. CASE s \in D
    <3>1. \A u \in Tasks : ~(where'[u] = "blocked" /\ call'[u] = f)
      BY <1>0, <1>1, <2>2, <2>3
    <3>. QED
      BY <1>2, <2>3, <3>1, EmptyQueue DEF LinkedAs
  <2>4. CASE s \notin D
    <3>. DEFINE r == Leaving(s_queue[s], P)
    <3>1. /\ r \in Seq(Tasks) /\ IsInjective(r)
          /\ \A u \in Tasks : Contains(r, u) <=> Contains(s_queue[s], u) /\ u \notin P
      BY <2>1, LeavingElements DEF LinkedAs
    <3>2. \A u \in Tasks : where'[u] = "blocked" /\ call'[u] = f
                             <=> where[u] = "blocked" /\ call[u] = f /\ u \notin P
      BY <1>0, <1>1, <2>2, <2>4
    <3>. HIDE DEF r, f
    <3>3. LinkedAs(r, f, where', call')
      BY <2>1, <3>1, <3>2, LinkedLeave
    <3>. QED
      BY <1>3, <2>4, <3>3 DEF r, f
  <2>. QED
    BY <2>3, <2>4
<1>5. ASSUME NEW s \in Semaphores
      PROVE  /\ s_pid'[s] \in Tasks \cup {None} /\ s_value'[s] \in Nat
             /\ s_init'[s] \in Nat /\ s_lost'[s] \in Nat /\ s_queue'[s] \in Seq(Tasks)
             /\ s_handed'[s] \in SUBSET Tasks /\ s_inside'[s] \in SUBSET Tasks
             /\ SemaOf(s)'
  <2>1. /\ SemaTypeOK /\ SemaOf(s)
        /\ s_value[s] \in Nat /\ s_init[s] \in Nat /\ s_lost[s] \in Nat
        /\ s_handed[s] \in SUBSET Tasks /\ s_inside[s] \in SUBSET Tasks
        /\ s_queue[s] \in Seq(Tasks) /\ s_pid[s] \in Tasks \cup {None}
    BY SemaFacts DEF SemaTypeOK
  <2>2. CASE s \in D
    <3>1. /\ s_pid'[s] = None /\ s_value'[s] = 0 /\ s_queue'[s] = <<>> /\ s_init'[s] = 0
          /\ s_handed'[s] = {} /\ s_inside'[s] = {} /\ s_lost'[s] = 0
      BY <1>2, <2>2
    <3>. QED
      BY <3>1, EmptyQueue DEF SemaOf
  <2>3. CASE s \notin D
    <3>. DEFINE H == s_handed[s]
                I == s_inside[s]
    <3>1. /\ s_pid'[s] = s_pid[s] /\ s_value'[s] = s_value[s] /\ s_init'[s] = s_init[s]
          /\ s_queue'[s] = Leaving(s_queue[s], P)
          /\ s_handed'[s] = H \ P /\ s_inside'[s] = I \ P
          /\ s_lost'[s] = s_lost[s] + Cardinality(P \cap (H \cup I))
      BY <1>3, <2>3
    <3>2. /\ Leaving(s_queue[s], P) \in Seq(Tasks)
          /\ s_queue[s] = <<>> => Leaving(s_queue[s], P) = <<>>
      BY <2>1, LeavingElements
    <3>3. H \cap I = {}
      BY <2>1 DEF SemaOf, Resumes
    <3>4. /\ Cardinality(H \ P) = Cardinality(H) - Cardinality(P \cap H)
          /\ Cardinality(I \ P) = Cardinality(I) - Cardinality(P \cap I)
          /\ Cardinality(H) \in Nat /\ Cardinality(I) \in Nat
          /\ Cardinality(P \cap H) \in Nat /\ Cardinality(P \cap I) \in Nat
      <4>1. /\ H \in SUBSET Tasks /\ I \in SUBSET Tasks
            /\ P \cap H \in SUBSET H /\ P \cap I \in SUBSET I
            /\ H \ P = H \ (P \cap H) /\ I \ P = I \ (P \cap I)
            /\ P \cap H \in SUBSET Tasks /\ P \cap I \in SUBSET Tasks
        BY <1>0, <2>1
      <4>2. /\ Cardinality(H \ (P \cap H)) = Cardinality(H) - Cardinality(P \cap H)
            /\ Cardinality(I \ (P \cap I)) = Cardinality(I) - Cardinality(P \cap I)
            /\ Cardinality(H) \in Nat /\ Cardinality(I) \in Nat
            /\ Cardinality(P \cap H) \in Nat /\ Cardinality(P \cap I) \in Nat
        <5>. HIDE DEF H, I
        <5>. QED
          BY <4>1, TaskSets
      <4>. QED
        BY <4>1, <4>2
    <3>5. Cardinality(P \cap (H \cup I)) = Cardinality(P \cap H) + Cardinality(P \cap I)
      <4>. DEFINE A == P \cap (H \cup I)
      <4>1. /\ A \in SUBSET Tasks /\ P \cap H \in SUBSET A
            /\ A \ (P \cap H) = P \cap I
        BY <1>0, <2>1, <3>3
      <4>. HIDE DEF A
      <4>2. /\ Cardinality(A \ (P \cap H)) = Cardinality(A) - Cardinality(P \cap H)
            /\ Cardinality(A) \in Nat
        BY <4>1, TaskSets
      <4>3. Cardinality(P \cap I) = Cardinality(A) - Cardinality(P \cap H)
        BY <4>1, <4>2
      <4>4. Cardinality(A) = Cardinality(P \cap H) + Cardinality(P \cap I)
        BY <3>4, <4>2, <4>3
      <4>. QED
        BY <4>4 DEF A
    <3>6. \A u \in Tasks : call'[u] = <<"down", s>> => call[u] = <<"down", s>>
      <4>1. None # <<"down", s>>
        BY CallNames DEF Waits
      <4>. QED
        BY <1>1, <4>1
    <3>7. s_lost'[s] \in Nat
      BY <2>1, <3>1, <3>4, <3>5
    <3>8. (\A u \in s_handed[s] : Resumes(u, <<"down", s>>))'
      BY <1>1, <2>1, <3>1 DEF SemaOf, Resumes
    <3>9. (\A u \in s_inside[s] : call[u] # <<"down", s>>)'
      BY <2>1, <3>1, <3>6 DEF SemaOf
    <3>10. s_pid[s] = None => s_lost'[s] = 0
      <4>1. SUFFICES ASSUME s_pid[s] = None PROVE s_lost'[s] = 0
        OBVIOUS
      <4>2. P \cap (H \cup I) = {} /\ s_lost[s] = 0
        BY <2>1, <4>1 DEF SemaOf
      <4>3. Cardinality(P \cap (H \cup I)) = 0
        BY <4>2, TaskSets
      <4>. QED
        BY <3>1, <4>2, <4>3
    <3>11. s_value[s] + Cardinality(H) + Cardinality(I) + s_lost[s] = s_init[s]
             => s_value[s] + Cardinality(H \ P) + Cardinality(I \ P)
                  + (s_lost[s] + Cardinality(P \cap (H \cup I))) = s_init[s]
      BY <2>1, <3>4, <3>5
    <3>. HIDE DEF H, I
    <3>12. s_pid[s] # None =>
             s_value'[s] + Cardinality(s_handed'[s]) + Cardinality(s_inside'[s]) + s_lost'[s]
               = s_init'[s]
      <4>1. s_pid[s] # None =>
              s_value[s] + Cardinality(H) + Cardinality(I) + s_lost[s] = s_init[s]
        BY <2>1 DEF SemaOf, H, I
      <4>. QED
        BY <3>1, <3>11, <4>1
    <3>13. /\ s_pid[s] = None => s_handed'[s] = {} /\ s_inside'[s] = {} /\ s_queue'[s] = <<>>
           /\ s_pid[s] # None => (s_value'[s] > 0 => s_queue'[s] = <<>>)
      BY <2>1, <3>1, <3>2 DEF SemaOf, H, I
    <3>14. SemaOf(s)'
      BY <3>1, <3>8, <3>9, <3>10, <3>12, <3>13 DEF SemaOf
    <3>. QED
      BY <2>1, <3>1, <3>2, <3>7, <3>14 DEF H, I
  <2>. QED
    BY <2>2, <2>3
<1>6. SemaTypeOK'
  BY <1>0, <1>5 DEF SemaDestroyed, SemaTypeOK
<1>7. SemaInv'
  BY <1>5, <1>6 DEF SemaInv, SemaOf, SemaTokens, SemaConserves
<1>. QED
  BY <1>4, <1>7 DEF SemaLinked

\* The barriers D are destroyed.
BarriersWake(P, W, D) ==
  /\ D \subseteq Barriers /\ BarrierDestroyed(D, P)
  /\ \A b \in Barriers, u \in Tasks :
       where[u] = "blocked" /\ call[u] = <<"wait", b>> /\ u \notin P
         => (u \in W <=> b \in D)

LEMMA DeathBarriers ==
  ASSUME SyncInv, NEW P, NEW W, Death(P, W), NEW D, BarriersWake(P, W, D)
  PROVE  BarrierInv' /\ BarrierLinked(b_queue', where', call')
<1>0. /\ P \in SUBSET Tasks /\ D \subseteq Barriers /\ BarrierDestroyed(D, P)
      /\ \A b \in Barriers, u \in Tasks :
           where[u] = "blocked" /\ call[u] = <<"wait", b>> /\ u \notin P
             => (u \in W <=> b \in D)
      /\ \A u \in W : where[u] = "blocked"
  BY DEF Death, BarriersWake
<1>1. \A u \in Tasks :
        /\ where'[u] = IF u \in P THEN "dead" ELSE IF u \in W THEN "woken" ELSE where[u]
        /\ call'[u] = IF u \in P THEN None ELSE call[u]
  BY DeathPlaces
<1>2. ASSUME NEW b \in D
      PROVE  /\ b_pid'[b] = None /\ b_goal'[b] = 0 /\ b_value'[b] = 0 /\ b_queue'[b] = <<>>
             /\ b_passed'[b] = [u \in Tasks |-> 0]
  BY <1>0 DEF BarrierDestroyed
<1>3. ASSUME NEW b \in Barriers \ D
      PROVE  /\ b_pid'[b] = b_pid[b] /\ b_goal'[b] = b_goal[b] /\ b_value'[b] = b_value[b]
             /\ b_queue'[b] = Leaving(b_queue[b], P) /\ b_passed'[b] = b_passed[b]
  BY <1>0 DEF BarrierDestroyed
<1>4. ASSUME NEW b \in Barriers
      PROVE  LinkedAs(b_queue'[b], <<"wait", b>>, where', call')
  <2>. DEFINE f == <<"wait", b>>
  <2>1. LinkedAs(b_queue[b], f, where, call) /\ b_queue[b] \in Seq(Tasks)
    BY BarrierFacts
  <2>2. f \in Waits /\ None # f
    BY CallNames DEF Waits
  <2>3. CASE b \in D
    <3>1. \A u \in Tasks : ~(where'[u] = "blocked" /\ call'[u] = f)
      BY <1>0, <1>1, <2>2, <2>3
    <3>. QED
      BY <1>2, <2>3, <3>1, EmptyQueue DEF LinkedAs
  <2>4. CASE b \notin D
    <3>. DEFINE r == Leaving(b_queue[b], P)
    <3>1. /\ r \in Seq(Tasks) /\ IsInjective(r)
          /\ \A u \in Tasks : Contains(r, u) <=> Contains(b_queue[b], u) /\ u \notin P
      BY <2>1, LeavingElements DEF LinkedAs
    <3>2. \A u \in Tasks : where'[u] = "blocked" /\ call'[u] = f
                             <=> where[u] = "blocked" /\ call[u] = f /\ u \notin P
      BY <1>0, <1>1, <2>2, <2>4
    <3>. HIDE DEF r, f
    <3>3. LinkedAs(r, f, where', call')
      BY <2>1, <3>1, <3>2, LinkedLeave
    <3>. QED
      BY <1>3, <2>4, <3>3 DEF r, f
  <2>. QED
    BY <2>3, <2>4
<1>5. ASSUME NEW b \in Barriers
      PROVE  /\ b_pid'[b] \in Tasks \cup {None} /\ b_goal'[b] \in Nat
             /\ b_value'[b] \in Nat /\ b_queue'[b] \in Seq(Tasks)
             /\ b_passed'[b] \in [Tasks -> Nat] /\ BarrierOf(b)'
  <2>1. /\ BarrierTypeOK /\ BarrierOf(b) /\ b_pid[b] \in Tasks \cup {None}
        /\ b_value[b] \in Nat /\ b_goal[b] \in Nat
        /\ b_passed[b] \in [Tasks -> Nat] /\ b_queue[b] \in Seq(Tasks)
    BY BarrierFacts DEF BarrierTypeOK
  <2>2. CASE b \in D
    <3>1. /\ b_pid'[b] = None /\ b_goal'[b] = 0 /\ b_value'[b] = 0 /\ b_queue'[b] = <<>>
          /\ b_passed'[b] = [u \in Tasks |-> 0]
      BY <1>2, <2>2
    <3>2. BarrierOf(b)'
      BY <3>1 DEF BarrierOf
    <3>3. [u \in Tasks |-> 0] \in [Tasks -> Nat]
      OBVIOUS
    <3>. QED
      BY <3>1, <3>2, <3>3, EmptyQueue
  <2>3. CASE b \notin D
    <3>1. /\ b_pid'[b] = b_pid[b] /\ b_goal'[b] = b_goal[b] /\ b_value'[b] = b_value[b]
          /\ b_queue'[b] = Leaving(b_queue[b], P) /\ b_passed'[b] = b_passed[b]
      BY <1>3, <2>3
    <3>2. /\ Leaving(b_queue[b], P) \in Seq(Tasks)
          /\ b_queue[b] = <<>> => Leaving(b_queue[b], P) = <<>>
      BY <2>1, LeavingElements
    <3>3. \A u \in Tasks : Alive(u)' => Alive(u)
      BY <1>0, <1>1 DEF Alive
    \* Who waits here and dies is absent all the same.
    <3>4. Absent(b) \subseteq Absent(b)' /\ Absent(b)' \in SUBSET Tasks
      <4>1. None # <<"wait", b>>
        BY CallNames DEF Waits
      <4>. QED
        BY <1>0, <1>1, <2>3, <4>1 DEF Absent
    <3>5. /\ Cardinality(Absent(b)) <= Cardinality(Absent(b)')
          /\ Cardinality(Absent(b)) \in Nat /\ Cardinality(Absent(b)') \in Nat
      <4>1. Absent(b) \in SUBSET Tasks
        BY DEF Absent
      <4>. QED
        BY <3>4, <4>1, TaskSets
    <3>6. b_pid[b] # None => b_goal'[b] - b_value'[b] <= Cardinality(Absent(b)')
      <4>1. b_pid[b] # None => b_goal[b] - b_value[b] <= Cardinality(Absent(b))
        BY <2>1 DEF BarrierOf
      <4>2. b_pid[b] # None => b_goal[b] - b_value[b] <= Cardinality(Absent(b)')
        BY <2>1, <3>5, <4>1
      <4>. QED
        BY <3>1, <4>2
    <3>7. BarrierOf(b)'
      BY <2>1, <3>1, <3>2, <3>3, <3>6 DEF BarrierOf
    <3>. QED
      BY <2>1, <3>1, <3>2, <3>7
  <2>. QED
    BY <2>2, <2>3
<1>6. BarrierTypeOK'
  BY <1>0, <1>5 DEF BarrierDestroyed, BarrierTypeOK
<1>7. BarrierInv'
  BY <1>5, <1>6 DEF BarrierInv, BarrierOf, BarrierCounts, BarrierTogether
<1>. QED
  BY <1>4, <1>7 DEF BarrierLinked

\* The task at which a lock is unlocked is one of those that die.
LEMMA FreeingDies ==
  ASSUME NEW m, NEW order \in Seq(Tasks), \E u \in ToSet(order) : m \in mlock_ocp[u]
  PROVE  \E e \in ToSet(order) : NextOwner(m, order) = First(unlink(m_queue[m], e))
<1>. DEFINE I == {i \in 1 .. Len(order) : m \in mlock_ocp[order[i]]}
<1>1. DOMAIN order = 1 .. Len(order) /\ Len(order) \in Nat
  BY LenProperties
<1>2. ToSet(order) = {order[i] : i \in 1 .. Len(order)}
  BY <1>1, Zenon DEF ToSet
<1>3. I \in SUBSET Nat /\ I # {}
  BY <1>1, <1>2
<1>4. Min(I) \in I
  <2>. HIDE DEF I
  <2>. QED
    BY <1>3, LeastElement
<1>5. NextOwner(m, order) = First(unlink(m_queue[m], order[Min(I)]))
  BY <1>3 DEF NextOwner, SelectInSeq
<1>. QED
  BY <1>2, <1>4, <1>5

\* Who is woken by a lock that is unlocked waits for it; if nobody is, nobody waits but
\* perhaps a task that dies.
LEMMA NextOwnerFacts ==
  ASSUME NEW m, NEW order \in Seq(Tasks), \E u \in ToSet(order) : m \in mlock_ocp[u],
         m_queue[m] \in Seq(Tasks)
  PROVE  /\ \A u \in NextOwner(m, order) : Contains(m_queue[m], u)
         /\ NextOwner(m, order) = {}
              => \A u \in Tasks : Contains(m_queue[m], u) => u \in ToSet(order)
<1>1. PICK e \in ToSet(order) : NextOwner(m, order) = First(unlink(m_queue[m], e))
  BY FreeingDies
<1>. DEFINE q == unlink(m_queue[m], e)
<1>2. NextOwner(m, order) = First(q)
  BY <1>1
<1>3. /\ q \in Seq(Tasks)
      /\ \A x : Contains(q, x) => Contains(m_queue[m], x)
      /\ \A x : Contains(m_queue[m], x) /\ x # e => Contains(q, x)
  BY UnlinkElements
<1>. HIDE DEF q
<1>4. /\ \A x : Contains(q, x) <=> x \in First(q) \/ Contains(Rest(q), x)
      /\ q # <<>> => \E x \in Tasks : First(q) = {x}
  BY <1>3, RestElements
<1>5. ASSUME First(q) = {} PROVE \A x : ~Contains(q, x)
  BY <1>4, <1>5, EmptyQueue
<1>. QED
  BY <1>1, <1>2, <1>3, <1>4, <1>5

LEMMA LeaveTask ==
  ASSUME SyncInv, NEW t \in Tasks, leave_task(t), UNCHANGED main
  PROVE  SyncInv'
<1>. DEFINE P == Process(t)
            semas == {s \in Semaphores : s_pid[s] = t}
            barrs == {b \in Barriers : b_pid[b] = t}
<1>1. PICK order \in SetToSeqs(P) :
        LET woken == MutexWoken(order) \cup SemaWoken(semas) \cup BarrierWoken(barrs)
        IN /\ where' = [u \in Tasks |-> IF u \in P THEN "dead" ELSE Unblock(woken)[u]]
           /\ call' = [u \in Tasks |-> IF u \in P THEN None ELSE call[u]]
           /\ do_mutex_lock_free(order)
           /\ SemaDestroyed(semas, P)
           /\ BarrierDestroyed(barrs, P)
  BY DEF leave_task
<1>. DEFINE W == MutexWoken(order) \cup SemaWoken(semas) \cup BarrierWoken(barrs)
            F == Frees(P)
            woken(m) == IF m \in F THEN NextOwner(m, order) ELSE {}
            silent(m) == \/ \E u \in P : Resumes(u, <<"acquire", m>>)
                         \/ woken(m) \cap P # {}
            queue == [m \in Mutexes |-> Leaving(m_queue[m], P \cup woken(m))]
<1>2. P \in SUBSET Tasks /\ P = {u \in Tasks : main[u] = main[t] /\ where[u] # "dead"}
  BY DEF Process, Alive
<1>3. order \in Seq(Tasks) /\ ToSet(order) = P
  <2>1. IsFiniteSet(P)
    BY <1>2, TaskSets
  <2>. HIDE DEF P
  <2>2. order \in Seq(P) /\ ToSet(order) = P
    BY <1>1, <2>1, OrderListsAll
  <2>. QED
    BY <1>2, <2>2
<1>4. /\ where' = [u \in Tasks |-> IF u \in P THEN "dead" ELSE Unblock(W)[u]]
      /\ call' = [u \in Tasks |-> IF u \in P THEN None ELSE call[u]]
      /\ SemaDestroyed(semas, P) /\ BarrierDestroyed(barrs, P)
  BY <1>1
<1>5. /\ m_locked' = [m \in Mutexes |-> m_locked[m] /\ m \notin F]
      /\ LeaveSlots(P, queue)
      /\ m_forgotten' = m_forgotten \cup {m \in Mutexes : silent(m) /\ ~m_locked'[m]}
      /\ m_kept' = m_kept \ F
  BY <1>1, <1>3 DEF do_mutex_lock_free
<1>6. /\ PlacesOK /\ MutexTypeOK /\ MutexClaims /\ MutexExcludes /\ MutexWaitersServed
      /\ MutexLinked(m_queue, where, call) /\ SemaLinked(s_queue, where, call)
      /\ BarrierLinked(b_queue, where, call)
  BY Parts DEF MutexInv
<1>7. F \in SUBSET Mutexes
      /\ \A m \in Mutexes : m \in F <=> /\ m_locked[m]
                                        /\ \E u \in P : m \in mlock_ocp[u] /\ m_pid[m] = main[u]
  BY DEF Frees
<1>. HIDE DEF P, F, W
<1>8. ASSUME NEW m \in F
      PROVE  /\ \A u \in NextOwner(m, order) : Contains(m_queue[m], u)
             /\ NextOwner(m, order) = {}
                  => \A u \in Tasks : Contains(m_queue[m], u) => u \in P
  <2>1. m_queue[m] \in Seq(Tasks) /\ \E u \in ToSet(order) : m \in mlock_ocp[u]
    BY <1>3, <1>6, <1>7 DEF MutexTypeOK
  <2>. QED
    BY <1>3, <2>1, NextOwnerFacts
\* Who is woken, and from which call.
<1>9. \A m \in Mutexes : \A u \in woken(m) :
        u \in Tasks /\ where[u] = "blocked" /\ call[u] = <<"acquire", m>>
  <2>. SUFFICES ASSUME NEW m \in F, NEW u \in NextOwner(m, order)
                PROVE  u \in Tasks /\ where[u] = "blocked" /\ call[u] = <<"acquire", m>>
    OBVIOUS
  <2>1. Contains(m_queue[m], u) /\ m_queue[m] \in Seq(Tasks)
    BY <1>6, <1>7, <1>8 DEF MutexTypeOK
  <2>2. u \in Tasks
    BY <2>1, SetOfElements
  <2>. QED
    BY <1>6, <1>7, <2>1, <2>2 DEF MutexLinked, LinkedAs
<1>10. \A u : u \in MutexWoken(order) <=> u \notin P /\ \E m \in Mutexes : u \in woken(m)
  <2>1. MutexWoken(order) = (UNION {NextOwner(m, order) : m \in F}) \ P
    BY <1>3 DEF MutexWoken, F
  <2>2. \A u : u \in UNION {NextOwner(m, order) : m \in F}
                 <=> \E m \in F : u \in NextOwner(m, order)
    BY Zenon
  <2>3. \A u : (\E m \in F : u \in NextOwner(m, order)) <=> \E m \in Mutexes : u \in woken(m)
    BY <1>7
  <2>. QED
    BY <2>1, <2>2, <2>3, Zenon
<1>11. \A u : u \in SemaWoken(semas)
                <=> \E s \in semas : u \in Tasks /\ where[u] = "blocked" /\ call[u] = <<"down", s>>
  <2>1. \A s \in semas : ToSet(s_queue[s])
                           = {u \in Tasks : where[u] = "blocked" /\ call[u] = <<"down", s>>}
    BY <1>6, LinkedAll DEF SemaLinked
  <2>. QED
    BY <2>1 DEF SemaWoken
<1>12. \A u : u \in BarrierWoken(barrs)
                <=> \E b \in barrs : u \in Tasks /\ where[u] = "blocked" /\ call[u] = <<"wait", b>>
  <2>1. \A b \in barrs : ToSet(b_queue[b])
                           = {u \in Tasks : where[u] = "blocked" /\ call[u] = <<"wait", b>>}
    BY <1>6, LinkedAll DEF BarrierLinked
  <2>. QED
    BY <2>1 DEF BarrierWoken
<1>31. semas \in SUBSET Semaphores /\ barrs \in SUBSET Barriers
  OBVIOUS
<1>. HIDE DEF woken, semas, barrs
<1>13. \A u : u \in W <=>
         \/ u \notin P /\ \E m \in Mutexes : u \in woken(m)
         \/ \E s \in semas : u \in Tasks /\ where[u] = "blocked" /\ call[u] = <<"down", s>>
         \/ \E b \in barrs : u \in Tasks /\ where[u] = "blocked" /\ call[u] = <<"wait", b>>
  BY <1>10, <1>11, <1>12 DEF W
<1>14. \A u \in W : where[u] = "blocked"
  BY <1>9, <1>13
<1>15. /\ \A m \in Mutexes : <<"acquire", m>> \in AcquireCalls
       /\ \A s \in Semaphores : <<"down", s>> \in DownCalls
       /\ \A b \in Barriers : <<"wait", b>> \in WaitCalls
       /\ AcquireCalls \cap DownCalls = {} /\ AcquireCalls \cap WaitCalls = {}
       /\ DownCalls \cap WaitCalls = {}
       /\ \A m, n : <<"acquire", m>> = <<"acquire", n>> => m = n
       /\ \A r, s : <<"down", r>> = <<"down", s>> => r = s
       /\ \A a, b : <<"wait", a>> = <<"wait", b>> => a = b
  BY CallNames
<1>16. \A m \in Mutexes : WokenFrom(P, W, <<"acquire", m>>, woken(m))
  BY <1>9, <1>13, <1>15 DEF WokenFrom
<1>17. SemasWake(P, W, semas)
  BY <1>4, <1>9, <1>13, <1>31, <1>15 DEF SemasWake
<1>18. BarriersWake(P, W, barrs)
  BY <1>4, <1>9, <1>13, <1>31, <1>15 DEF BarriersWake
<1>32. Death(P, W)
  BY <1>2, <1>4, <1>14 DEF Death
<1>19. SemaInv' /\ SemaLinked(s_queue', where', call')
  BY <1>17, <1>32, DeathSemas
<1>20. BarrierInv' /\ BarrierLinked(b_queue', where', call')
  BY <1>18, <1>32, DeathBarriers
<1>21. ASSUME NEW m \in Mutexes
       PROVE  /\ LinkedAs(queue[m], <<"acquire", m>>, where', call')
              /\ queue[m] # <<>> => \E v \in Tasks : /\ Contains(m_queue[m], v)
                                                    /\ v \notin P \cup woken(m)
  <2>1. /\ LinkedAs(m_queue[m], <<"acquire", m>>, where, call)
        /\ <<"acquire", m>> \in Waits /\ m_queue[m] \in Seq(Tasks)
    BY <1>6, <1>15 DEF MutexLinked, MutexTypeOK, Waits
  <2>. DEFINE G == woken(m)
              f == <<"acquire", m>>
              q == m_queue[m]
              r == Leaving(q, P \cup G)
  <2>2. WokenFrom(P, W, f, G)
    BY <1>16
  <2>3. queue[m] = r
    OBVIOUS
  <2>4. LinkedAs(q, f, where, call) /\ f \in Waits /\ q \in Seq(Tasks)
    BY <2>1
  <2>. HIDE DEF G, f, q
  <2>5. /\ LinkedAs(r, f, where', call')
        /\ \A u : Contains(r, u) => Contains(q, u) /\ u \notin P \cup G
    BY <1>32, <2>2, <2>4, DeathQueue
  <2>6. r # <<>> => \E v \in Tasks : Contains(q, v) /\ v \notin P \cup G
    <3>1. r \in Seq(Tasks)
      BY <2>4, LeavingElements
    <3>. HIDE DEF r
    <3>. QED
      BY <2>5, <3>1, SetOfElements
  <2>. HIDE DEF r
  <2>. QED
    BY <2>3, <2>5, <2>6 DEF G, f, q
<1>. HIDE DEF queue
<1>22. MutexLinked(queue, where', call')
  <2>1. ASSUME NEW m \in Mutexes PROVE LinkedAs(queue[m], <<"acquire", m>>, where', call')
    BY <1>21
  <2>. QED
    BY <2>1 DEF MutexLinked, LinkedAs
<1>23. \A u \in Tasks :
         /\ where'[u] = IF u \in P THEN "dead" ELSE IF u \in W THEN "woken" ELSE where[u]
         /\ call'[u] = IF u \in P THEN None ELSE call[u]
  BY <1>32, DeathPlaces
\* A lock of the process is unlocked, one of another process is not.
<1>24. \A m \in Mutexes :
         IF m_locked[m] /\ m \notin m_kept
         THEN Cardinality(Holders(m)) = 1 /\ \A u \in Holders(m) : main[u] = m_pid[m]
         ELSE Holders(m) = {}
  BY <1>6 DEF MutexExcludes, Holders
<1>25. \A m \in Mutexes : \A u \in Holders(m) :
         u \in Tasks /\ where[u] # "dead" /\ m \in mlock_ocp[u]
  BY <1>6 DEF MutexClaims, Holders
<1>26. \A m \in F : Holders(m) \subseteq P
  <2>. SUFFICES ASSUME NEW m \in F, NEW h \in Holders(m) PROVE h \in P
    OBVIOUS
  <2>1. h \in Tasks /\ where[h] # "dead" /\ main[h] = m_pid[m]
    BY <1>7, <1>24, <1>25
  <2>2. PICK u \in P : m_pid[m] = main[u]
    BY <1>7
  <2>. QED
    BY <1>2, <2>1, <2>2
<1>27. \A m \in Mutexes : m_locked[m] /\ m \notin F /\ m \notin m_kept'
                            => Holders(m) \cap P = {}
  <2>. SUFFICES ASSUME NEW m \in Mutexes, m_locked[m], m \notin F, m \notin m_kept,
                       NEW h \in Holders(m), h \in P
                PROVE  FALSE
    BY <1>5
  <2>1. m_pid[m] = main[h] /\ m \in mlock_ocp[h]
    BY <1>24, <1>25
  <2>. QED
    BY <1>7, <2>1
\* Somebody sees to it that the waiters that live on are woken.
<1>28. \A m \in Mutexes : queue[m] # <<>> =>
         \/ m_locked'[m] \/ m \in m_forgotten'
         \/ \E u \in Tasks : where'[u] = "woken" /\ call'[u] = <<"acquire", m>>
  <2>. SUFFICES ASSUME NEW m \in Mutexes, queue[m] # <<>>, ~m_locked'[m], m \notin m_forgotten'
                PROVE  \E u \in Tasks : where'[u] = "woken" /\ call'[u] = <<"acquire", m>>
    OBVIOUS
  <2>1. PICK v \in Tasks : Contains(m_queue[m], v) /\ v \notin P \cup woken(m)
    BY <1>21
  <2>2. /\ m \notin m_forgotten /\ woken(m) \cap P = {}
        /\ \A u \in P : ~Resumes(u, <<"acquire", m>>)
    BY <1>5
  <2>3. CASE m \in F
    <3>1. woken(m) # {}
      BY <1>8, <2>1, <2>3 DEF woken
    <3>2. PICK u \in woken(m) : u \notin P
      BY <2>2, <3>1
    <3>3. u \in Tasks /\ call[u] = <<"acquire", m>> /\ u \in W
      BY <1>9, <1>13, <3>2
    <3>. QED
      BY <1>23, <3>2, <3>3
  <2>4. CASE m \notin F
    <3>1. ~m_locked[m] /\ m_queue[m] # <<>>
      BY <1>5, <2>1, <2>4, EmptyQueue
    <3>2. PICK u \in Tasks : where[u] = "woken" /\ call[u] = <<"acquire", m>>
      BY <1>6, <2>2, <3>1 DEF MutexWaitersServed, Resumes
    <3>3. u \notin P
      BY <2>2, <3>2 DEF Resumes
    <3>. QED
      BY <1>23, <3>2, <3>3
  <2>. QED
    BY <2>3, <2>4
<1>29. /\ m_forgotten' \subseteq Mutexes /\ m_kept' \subseteq Mutexes
       /\ \A m \in m_kept' : m_locked'[m]
       /\ \A m \in m_kept \ F : m \in m_kept'
       /\ \A m \in m_kept' \ m_kept : Holders(m) \subseteq P
  BY <1>5, <1>6 DEF MutexTypeOK, MutexClaims
<1>30. MutexInv' /\ MutexLinked(m_queue', where', call')
  <2>1. LocksLeft(P, queue, F)
    BY <1>5, <1>7, <1>22, <1>26, <1>27, <1>28, <1>29 DEF LocksLeft
  <2>. QED
    BY <1>32, <2>1, DeathMutexes
<1>. QED
  BY <1>32, <1>19, <1>20, <1>30, DeathPlaces, Assembled

LEMMA ThreadExit ==
  ASSUME SyncInv, NEW t \in Tasks, do_thread_exit(t), UNCHANGED main
  PROVE  SyncInv'
<1>. DEFINE P == {t}
<1>1. /\ where[t] = "user" /\ where' = [where EXCEPT ![t] = "dead"]
      /\ LeaveSlots(P, m_queue) /\ m_kept' = m_kept \cup m_holds[t]
      /\ UNCHANGED <<call, m_locked, m_forgotten>>
      /\ SemaDestroyed({}, P) /\ UNCHANGED barrierVars
  BY DEF do_thread_exit, InUser, clear_pcb_thread
<1>2. /\ PlacesOK /\ MutexTypeOK /\ MutexClaims /\ MutexExcludes /\ MutexWaitersServed
      /\ MutexLinked(m_queue, where, call) /\ SemaLinked(s_queue, where, call)
      /\ BarrierLinked(b_queue, where, call) /\ BarrierTypeOK
  BY Parts DEF MutexInv, BarrierInv
<1>3. call[t] = None /\ None \notin Waits
  BY <1>1, <1>2, CallNames DEF PlacesOK, OutsideCalls
<1>4. Death(P, {})
  <2>1. where' = [u \in Tasks |-> IF u \in P THEN "dead" ELSE Unblock({})[u]]
    BY <1>1, <1>2 DEF PlacesOK, Unblock
  <2>2. call' = [u \in Tasks |-> IF u \in P THEN None ELSE call[u]]
    BY <1>1, <1>2, <1>3 DEF PlacesOK
  <2>. QED
    BY <2>1, <2>2 DEF Death
<1>5. \A u \in Tasks : /\ where'[u] = IF u = t THEN "dead" ELSE where[u]
                       /\ call'[u] = call[u]
  BY <1>1, <1>2 DEF PlacesOK
<1>6. SemaInv' /\ SemaLinked(s_queue', where', call')
  <2>1. SemasWake(P, {}, {})
    BY <1>1 DEF SemasWake
  <2>. QED
    BY <1>4, <2>1, DeathSemas
<1>7. BarrierInv' /\ BarrierLinked(b_queue', where', call')
  <2>1. \A b \in Barriers : Leaving(b_queue[b], P) = b_queue[b]
    <3>. SUFFICES ASSUME NEW b \in Barriers PROVE Leaving(b_queue[b], P) = b_queue[b]
      OBVIOUS
    <3>1. b_queue[b] \in Seq(Tasks)
      BY <1>2 DEF BarrierTypeOK
    <3>2. ~Contains(b_queue[b], t)
      BY <1>1, <1>2 DEF BarrierLinked, LinkedAs
    <3>. QED
      BY <3>1, <3>2, LeavingNone
  <2>2. BarrierDestroyed({}, P)
    <3>1. b_queue' = [b \in Barriers |-> Leaving(b_queue[b], P)]
      BY <1>1, <1>2, <2>1 DEF BarrierTypeOK, barrierVars
    <3>. QED
      BY <1>1, <1>2, <3>1 DEF BarrierTypeOK, BarrierDestroyed, barrierVars
  <2>3. BarriersWake(P, {}, {})
    BY <2>2 DEF BarriersWake
  <2>. QED
    BY <1>4, <2>3, DeathBarriers
<1>8. ASSUME NEW m \in Mutexes
      PROVE  LinkedAs(m_queue[m], <<"acquire", m>>, where', call')
  <2>1. /\ LinkedAs(m_queue[m], <<"acquire", m>>, where, call)
        /\ <<"acquire", m>> # None
    BY <1>2, CallNames DEF MutexLinked, Waits
  <2>. QED
    BY <1>1, <1>5, <2>1 DEF LinkedAs
<1>9. MutexLinked(m_queue, where', call')
  BY <1>8 DEF MutexLinked, LinkedAs
<1>10. \A m \in Mutexes :
         IF m_locked[m] /\ m \notin m_kept
         THEN Cardinality(Holders(m)) = 1 /\ \A u \in Holders(m) : main[u] = m_pid[m]
         ELSE Holders(m) = {}
  BY <1>2 DEF MutexExcludes, Holders
\* What the thread holds it has alone, and nobody else can get any more.
<1>11. \A m \in m_holds[t] : m \in Mutexes /\ m_locked[m] /\ Holders(m) \subseteq P
  <2>. SUFFICES ASSUME NEW m \in m_holds[t]
                PROVE  m \in Mutexes /\ m_locked[m] /\ Holders(m) \subseteq P
    OBVIOUS
  <2>1. m \in Mutexes /\ t \in Holders(m) /\ P \in SUBSET Holders(m) /\ Holders(m) \in SUBSET Tasks
    BY <1>2 DEF MutexTypeOK, Holders
  <2>2. m_locked[m] /\ Cardinality(Holders(m)) = 1
    BY <1>10, <2>1
  <2>3. Cardinality(P) = 1
    BY TaskSets
  <2>4. Cardinality(P) = Cardinality(Holders(m)) => Holders(m) = P
    <3>1. \A A \in SUBSET Tasks : \A B \in SUBSET A :
            Cardinality(B) = Cardinality(A) => A = B
      BY TaskSets
    <3>. DEFINE H == Holders(m)
    <3>2. H \in SUBSET Tasks /\ P \in SUBSET H
      BY <2>1
    <3>. HIDE DEF P, H
    <3>3. Cardinality(P) = Cardinality(H) => H = P
      BY <3>1, <3>2
    <3>. QED
      BY <3>3 DEF H
  <2>. QED
    BY <2>1, <2>2, <2>3, <2>4
<1>12. \A m \in Mutexes : m \notin m_kept' => Holders(m) \cap P = {}
  BY <1>1 DEF Holders
<1>13. \A m \in Mutexes : m_queue[m] # <<>> =>
         \/ m_locked'[m] \/ m \in m_forgotten'
         \/ \E u \in Tasks : where'[u] = "woken" /\ call'[u] = <<"acquire", m>>
  BY <1>1, <1>2, <1>5 DEF MutexWaitersServed, Resumes
<1>14. LocksLeft(P, m_queue, {})
  <2>1. m_locked' = [m \in Mutexes |-> m_locked[m] /\ m \notin {}]
    <3>1. \A m \in Mutexes : m_locked[m] \in BOOLEAN
      BY <1>2 DEF MutexTypeOK
    <3>2. \A m \in Mutexes : m_locked[m] = (m_locked[m] /\ m \notin {})
      BY <3>1
    <3>3. m_locked = [m \in Mutexes |-> m_locked[m]]
      BY <1>2 DEF MutexTypeOK
    <3>. QED
      BY <1>1, <3>2, <3>3
  <2>2. /\ m_forgotten' \subseteq Mutexes /\ m_kept' \subseteq Mutexes
        /\ \A m \in m_kept' : m_locked'[m]
        /\ \A m \in m_kept : m \in m_kept'
        /\ \A m \in m_kept' \ m_kept : Holders(m) \subseteq P
    BY <1>1, <1>2, <1>11 DEF MutexTypeOK, MutexClaims
  <2>. QED
    BY <1>1, <1>9, <1>12, <1>13, <2>1, <2>2 DEF LocksLeft
<1>15. MutexInv' /\ MutexLinked(m_queue', where', call')
  BY <1>4, <1>14, DeathMutexes
<1>. QED
  BY <1>4, <1>6, <1>7, <1>15, DeathPlaces, Assembled

-----------------------------------------------------------------------------

LEMMA SyncInitially == SyncInit => SyncInv
<1>. SUFFICES ASSUME SyncInit PROVE SyncInv
  OBVIOUS
<1>1. /\ where = [t \in Tasks |-> "user"] /\ call = [t \in Tasks |-> None]
      /\ main \in Families /\ MutexInit /\ SemaphoreInit /\ BarrierInit
  BY DEF SyncInit, ThreadGroupInit
<1>2. Cardinality({}) = 0 /\ <<>> \in Seq(Tasks) /\ IsInjective(<<>>)
      /\ \A u : ~Contains(<<>>, u)
  BY TaskSets, EmptyQueue
<1>3. MutexTypeOK
  BY <1>1, <1>2 DEF MutexInit, MutexTypeOK
<1>4. SemaTypeOK
  BY <1>1, <1>2 DEF SemaphoreInit, SemaTypeOK
<1>5. BarrierTypeOK
  <2>1. [t \in Tasks |-> 0] \in [Tasks -> Nat]
    OBVIOUS
  <2>. QED
    BY <1>1, <1>2, <2>1 DEF BarrierInit, BarrierTypeOK
<1>6. SyncTypeOK
  BY <1>1, <1>3, <1>4, <1>5
     DEF SyncTypeOK, MutexTypeOK, SemaTypeOK, BarrierTypeOK, Wheres
<1>7. OutsideCalls
  BY <1>1 DEF OutsideCalls
<1>8. WaitersLinked
  <2>1. ASSUME NEW m \in Mutexes PROVE LinkedAs(m_queue[m], <<"acquire", m>>, where, call)
    BY <1>1, <1>2 DEF MutexInit, LinkedAs
  <2>2. ASSUME NEW s \in Semaphores PROVE LinkedAs(s_queue[s], <<"down", s>>, where, call)
    BY <1>1, <1>2 DEF SemaphoreInit, LinkedAs
  <2>3. ASSUME NEW b \in Barriers PROVE LinkedAs(b_queue[b], <<"wait", b>>, where, call)
    BY <1>1, <1>2 DEF BarrierInit, LinkedAs
  <2>4. /\ MutexLinked(m_queue, where, call) /\ SemaLinked(s_queue, where, call)
        /\ BarrierLinked(b_queue, where, call)
    BY <2>1, <2>2, <2>3 DEF MutexLinked, SemaLinked, BarrierLinked
  <2>. QED
    BY <1>1, <1>6, <2>4, LinkedParts
<1>9. MutexClaims
  <2>1. \A m \in Mutexes : <<"acquire", m>> # None
    BY CallNames DEF Waits
  <2>. QED
    BY <1>1, <2>1 DEF MutexInit, MutexClaims
<1>10. MutexSlotsExact
  <2>1. \A m \in Mutexes : {t \in Tasks : m \in mlock_ocp[t]} = {}
    BY <1>1 DEF MutexInit
  <2>2. \A m \in Mutexes : Cardinality({t \in Tasks : m \in mlock_ocp[t]}) = 0
    BY <1>2, <2>1
  <2>. QED
    BY <1>1, <2>2 DEF MutexInit, MutexSlotsExact
<1>11. MutexExcludes /\ MutexWaitersServed
  BY <1>1 DEF MutexInit, MutexExcludes, MutexWaitersServed
<1>12. SemaTokens /\ SemaConserves
  BY <1>1 DEF SemaphoreInit, SemaTokens, SemaConserves
<1>13. BarrierCounts /\ BarrierTogether
  BY <1>1 DEF BarrierInit, BarrierCounts, BarrierTogether
<1>. QED
  BY <1>6, <1>7, <1>8, <1>9, <1>10, <1>11, <1>12, <1>13 DEF SyncInv

LEMMA SyncStutters ==
  ASSUME SyncInv, UNCHANGED syncVars
  PROVE  SyncInv'
<1>1. /\ PlacesOK' /\ Spares(AcquireCalls) /\ Spares(DownCalls) /\ Spares(WaitCalls)
      /\ UNCHANGED <<mutexVars, semaVars, barrierVars>>
  BY Unmoved DEF syncVars
<1>. QED
  BY <1>1, MutexSpared, SemaSpared, BarrierSpared, Assembled

LEMMA SyncStep == SyncInv /\ [SyncNext]_syncVars => SyncInv'
<1>. SUFFICES ASSUME SyncInv, [SyncNext]_syncVars PROVE SyncInv'
  OBVIOUS
<1>1. ASSUME NEW t \in Tasks, UNCHANGED main,
             \/ MutexCalls(t) \/ SemaphoreCalls(t) \/ BarrierCalls(t)
             \/ leave_task(t) \/ do_thread_exit(t)
      PROVE  SyncInv'
  BY <1>1, MutexCallsStep, SemaphoreCallsStep, BarrierCallsStep, LeaveTask, ThreadExit
<1>2. CASE UNCHANGED syncVars
  BY <1>2, SyncStutters
<1>. QED
  BY <1>1, <1>2 DEF SyncNext, Stuck

\* The invariant of Sync: calls, queues, slots, tokens and rounds agree after any number
\* of system calls and deaths.
THEOREM SyncInvariant == SyncSpec => []SyncInv
<1>1. SyncInit => SyncInv
  BY SyncInitially
<1>2. SyncInv /\ [SyncNext]_syncVars => SyncInv'
  BY SyncStep
<1>. QED
  BY <1>1, <1>2, PTL DEF SyncSpec

\* Whoever blocks in do_mutex_lock_acquire, do_semaphore_down or do_barrier_wait is in the
\* block queue of that object, once, and nobody else is in one.
THEOREM QueuesHoldWaiters == SyncSpec => []WaitersLinked
<1>1. SyncInv => WaitersLinked
  BY DEF SyncInv
<1>. QED
  BY <1>1, SyncInvariant, PTL

\* do_mutex_lock_acquire and do_mutex_lock_release: a lock has one live holder, or none.
THEOREM LocksExclude == SyncSpec => []MutexExcludes
<1>1. SyncInv => MutexExcludes
  BY DEF SyncInv
<1>. QED
  BY <1>1, SyncInvariant, PTL

\* apply_times counts those who have applied for a lock in do_mutex_lock_init, whoever was
\* killed; a slot of mlocks that is free is free of all.
THEOREM SlotsStayExact == SyncSpec => []MutexSlotsExact
<1>1. SyncInv => MutexSlotsExact
  BY DEF SyncInv
<1>. QED
  BY <1>1, SyncInvariant, PTL

\* A task that waits for a lock has somebody to wake it, unless the one whose turn it was
\* was killed.
THEOREM LockWaitersServed == SyncSpec => []MutexWaitersServed
<1>1. SyncInv => MutexWaitersServed
  BY DEF SyncInv
<1>. QED
  BY <1>1, SyncInvariant, PTL

\* do_semaphore_up and do_semaphore_down neither lose nor invent a token.
THEOREM TokensConserved == SyncSpec => []SemaConserves
<1>1. SyncInv => SemaConserves
  BY DEF SyncInv
<1>. QED
  BY <1>1, SyncInvariant, PTL

\* do_barrier_wait lets the tasks through together, round by round.
THEOREM BarriersMeet == SyncSpec => []BarrierTogether
<1>1. SyncInv => BarrierTogether
  BY DEF SyncInv
<1>. QED
  BY <1>1, SyncInvariant, PTL
=============================================================================

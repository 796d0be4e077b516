------------------------- MODULE MatrixOutboxProofs -------------------------
(***************************************************************************)
(* Theorems about MatrixOutbox, for every number of tenants, workers,      *)
(* messages, sessions and faults.                                          *)
(***************************************************************************)
EXTENDS MatrixOutbox, FiniteSetTheorems, WellFoundedInduction,
        SequenceTheorems, TLAPS

-----------------------------------------------------------------------------
(* The invariant.                                                          *)

Statuses == Settled \cup {"absent", "pending", "backoff"}

\* The types the argument needs; the batch only has to be a function.
ShapeInv ==
    /\ msg \in [Tenants -> [Messages -> Statuses]]
    /\ issued \in [Tenants -> Sessions]
    /\ active \in [Tenants -> SUBSET Sessions]
    /\ room \in [Tenants -> Seq(Messages \X Sessions)]
    /\ pc \in [Workers -> Positions]
    /\ todo \in [Workers -> SUBSET Tenants]
    /\ who \in [Workers -> Tenants]
    /\ batch = [w \in Workers |-> batch[w]]
    /\ with \in [Workers -> Sessions \cup {0}]

\* The messages of a run appear in order.
PublishedInv ==
    \A t \in Tenants, m, n \in Messages :
        m < n /\ msg[t][n] # "absent" => msg[t][m] # "absent"

\* A locked message is still to be settled, and those before it are settled.
Holds(w) ==
    LET n == Head(batch[w])
    IN  /\ n \in Messages
        /\ msg[who[w]][n] = "pending"
        /\ \A m \in Messages : m < n => msg[who[w]][m] \in Settled

HeldInv == \A w \in Workers : Locking(w) => Holds(w)

\* No row is locked twice.
LockInv ==
    \A v, w \in Workers :
        v # w /\ Locking(v) /\ Locking(w) /\ who[v] = who[w]
            => Head(batch[v]) # Head(batch[w])

\* Sessions are numbered as they are created, and the first one is the only
\* one that a send can have used while no other exists.
SessionInv ==
    /\ \A t \in Tenants : \A k \in active[t] : k <= issued[t]
    /\ \A w \in Workers :
           Locking(w) => /\ with[w] \in Sessions
                         /\ issued[who[w]] = 1 => with[w] = 1

RoomInv ==
    \A t \in Tenants :
        issued[t] = 1 =>
            /\ \A i \in DOMAIN room[t] : room[t][i][2] = 1
            /\ \A i, j \in DOMAIN room[t] :
                   room[t][i][1] = room[t][j][1] => i = j

OutboxInv ==
    /\ ShapeInv
    /\ PublishedInv
    /\ HeldInv
    /\ LockInv
    /\ SessionInv
    /\ RoomInv

-----------------------------------------------------------------------------
\* The newest session exists.
LEMMA LatestExists ==
  ASSUME NEW S \in SUBSET Sessions, S # {}
  PROVE  \E k \in S : \A j \in S : j <= k
<1>1. MaxSessions \in Nat
  BY FaultAssumption
<1> DEFINE T == {n \in Nat : \E k \in S : n = MaxSessions - k}
<1>2. \A k \in S : k \in Nat /\ MaxSessions - k \in T
  BY <1>1 DEF Sessions
<1>3. T \subseteq Nat /\ T # {}
  BY <1>2
<1>4. PICK n \in T : \A m \in T : <<m, n>> \notin OpToRel(<, Nat)
  BY <1>3, WFMin, NatLessThanWellFounded
<1>5. \A m \in T : ~(m < n)
  BY <1>3, <1>4 DEF OpToRel
<1>6. PICK k \in S : n = MaxSessions - k
  BY <1>4
<1>7. \A j \in S : j <= k
  BY <1>1, <1>2, <1>5, <1>6
<1> QED
  BY <1>7

LEMMA InitOutboxInv == Init => OutboxInv
<1> SUFFICES ASSUME Init PROVE OutboxInv
  OBVIOUS
<1>0. MaxSessions \in Nat \ {0} /\ 1 \in Sessions
  BY FaultAssumption DEF Sessions
<1>1. ShapeInv
  <2>1. msg \in [Tenants -> [Messages -> Statuses]]
    BY DEF Init, Statuses
  <2>2. issued \in [Tenants -> Sessions] /\ active \in [Tenants -> SUBSET Sessions]
    BY <1>0 DEF Init
  <2>3. room \in [Tenants -> Seq(Messages \X Sessions)]
    BY DEF Init
  <2>4. /\ pc \in [Workers -> Positions]
        /\ todo \in [Workers -> SUBSET Tenants]
        /\ who \in [Workers -> Tenants]
        /\ batch = [w \in Workers |-> batch[w]]
        /\ with \in [Workers -> Sessions \cup {0}]
    BY DEF Init, Positions
  <2> QED
    BY <2>1, <2>2, <2>3, <2>4 DEF ShapeInv
<1>2. PublishedInv
  BY DEF Init, PublishedInv
<1>3. \A w \in Workers : ~Locking(w)
  BY DEF Init, Locking, Answered
<1>4. HeldInv /\ LockInv
  BY <1>3 DEF HeldInv, LockInv
<1>5. SessionInv
  <2>1. \A t \in Tenants : \A k \in active[t] : k <= issued[t]
    BY DEF Init
  <2> QED
    BY <1>3, <2>1 DEF SessionInv
<1>6. RoomInv
  BY DEF Init, RoomInv
<1> QED
  BY <1>1, <1>2, <1>4, <1>5, <1>6 DEF OutboxInv

-----------------------------------------------------------------------------
(* What several steps have in common.                                      *)

\* No worker takes a lock: who holds one goes on with the same message.
NoNewLocks ==
    \A w \in Workers :
        Locking(w)' => /\ Locking(w)
                       /\ batch'[w] = batch[w]
                       /\ who'[w] = who[w]
                       /\ with'[w] = with[w]

LEMMA LockKept ==
  ASSUME LockInv, NoNewLocks
  PROVE  LockInv'
BY DEF LockInv, NoNewLocks

LEMMA SessionKept ==
  ASSUME SessionInv, NoNewLocks, UNCHANGED <<issued, active>>
  PROVE  SessionInv'
BY DEF SessionInv, NoNewLocks

LEMMA RoomKept ==
  ASSUME RoomInv, UNCHANGED <<issued, room>>
  PROVE  RoomInv'
BY DEF RoomInv

\* The messages, the sessions and the rooms stay as they are.
LEMMA QuietStep ==
  ASSUME OutboxInv, ShapeInv', NoNewLocks,
         UNCHANGED <<msg, issued, active, room>>
  PROVE  OutboxInv'
<1>1. HeldInv'
  BY DEF OutboxInv, HeldInv, Holds, NoNewLocks
<1>2. PublishedInv'
  BY DEF OutboxInv, PublishedInv
<1> QED
  BY <1>1, <1>2, LockKept, SessionKept, RoomKept DEF OutboxInv

\* A worker marks the message at the head of its batch, on which no other
\* worker holds the lock.
LEMMA MarkStep ==
  ASSUME OutboxInv, ShapeInv', NoNewLocks,
         UNCHANGED <<issued, active, room>>,
         NEW w \in Workers, NEW status \in Settled \cup {"backoff"},
         Mark(w, status), ~Locking(w)',
         Head(batch[w]) \in Messages,
         msg[who[w]][Head(batch[w])] = "pending",
         \A v \in Workers :
             v # w /\ Locking(v) /\ who[v] = who[w]
                 => Head(batch[v]) # Head(batch[w])
  PROVE  OutboxInv'
<1> DEFINE t == who[w]
           n == Head(batch[w])
<1>1. /\ t \in Tenants /\ n \in Messages
      /\ msg' = [msg EXCEPT ![t][n] = status]
      /\ msg \in [Tenants -> [Messages -> Statuses]]
  BY DEF OutboxInv, ShapeInv, Mark
<1>2. /\ msg'[t][n] = status
      /\ \A s \in Tenants, m \in Messages :
             s # t \/ m # n => msg'[s][m] = msg[s][m]
  BY <1>1
<1>3. PublishedInv'
  BY <1>1, <1>2 DEF OutboxInv, PublishedInv, Settled
<1>4. HeldInv'
  <2> SUFFICES ASSUME NEW v \in Workers, Locking(v)' PROVE Holds(v)'
    BY DEF HeldInv
  <2> DEFINE h == Head(batch[v])
  <2>1. /\ v # w /\ Locking(v)
        /\ batch'[v] = batch[v] /\ who'[v] = who[v]
    BY DEF NoNewLocks
  <2>2. Holds(v) /\ who[v] \in Tenants
    BY <2>1 DEF OutboxInv, HeldInv, ShapeInv
  <2>3. who[v] = t => h # n
    BY <2>1
  <2>4. msg'[who[v]][h] = "pending"
    BY <1>2, <2>2, <2>3 DEF Holds
  <2>5. \A m \in Messages : m < h => msg'[who[v]][m] \in Settled
    <3> SUFFICES ASSUME NEW m \in Messages, m < h
                 PROVE  msg'[who[v]][m] \in Settled
      OBVIOUS
    <3>1. msg[who[v]][m] \in Settled
      BY <2>2 DEF Holds
    <3>2. ~(who[v] = t /\ m = n)
      BY <3>1 DEF Settled
    <3> QED
      BY <1>2, <2>2, <3>1, <3>2
  <2> QED
    BY <2>1, <2>2, <2>4, <2>5 DEF Holds
<1> QED
  BY <1>3, <1>4, LockKept, SessionKept, RoomKept DEF OutboxInv

-----------------------------------------------------------------------------
(* Around the workers.                                                     *)

LEMMA EnvironmentStep ==
  ASSUME OutboxInv, Environment
  PROVE  OutboxInv'
<1>1. ASSUME NEW t \in Tenants, Publish(t)
      PROVE  OutboxInv'
  <2>1. PICK n \in Messages :
            /\ msg[t][n] = "absent"
            /\ \A m \in Messages : m < n => msg[t][m] # "absent"
            /\ msg' = [msg EXCEPT ![t][n] = "pending"]
    BY <1>1 DEF Publish
  <2>2. ShapeInv'
    BY <1>1, <2>1 DEF Publish, OutboxInv, ShapeInv, Statuses, accounts, work
  <2>3. /\ msg'[t][n] = "pending"
        /\ \A s \in Tenants, m \in Messages :
               s # t \/ m # n => msg'[s][m] = msg[s][m]
    BY <2>1 DEF OutboxInv, ShapeInv
  <2>4. NoNewLocks
    BY <1>1 DEF Publish, NoNewLocks, Locking, work
  <2>5. PublishedInv'
    BY <2>1, <2>3 DEF OutboxInv, PublishedInv
  <2>6. HeldInv'
    <3> SUFFICES ASSUME NEW v \in Workers, Locking(v)' PROVE Holds(v)'
      BY DEF HeldInv
    <3>1. /\ Locking(v) /\ batch'[v] = batch[v] /\ who'[v] = who[v]
          /\ who[v] \in Tenants
      BY <2>4 DEF NoNewLocks, OutboxInv, ShapeInv
    <3>2. Holds(v)
      BY <3>1 DEF OutboxInv, HeldInv
    <3>3. \A m \in Messages :
              msg[who[v]][m] \in Settled \cup {"pending"}
                  => msg'[who[v]][m] = msg[who[v]][m]
      BY <2>1, <2>3, <3>1 DEF Settled
    <3> QED
      BY <3>1, <3>2, <3>3 DEF Holds
  <2> QED
    BY <1>1, <2>2, <2>4, <2>5, <2>6, LockKept, SessionKept, RoomKept
       DEF OutboxInv, Publish, accounts
<1>2. ASSUME NEW t \in Tenants, NEW n \in Messages, BackoffElapses(t, n)
      PROVE  OutboxInv'
  <2>1. ShapeInv'
    BY <1>2 DEF BackoffElapses, OutboxInv, ShapeInv, Statuses, accounts, work
  <2>2. /\ msg[t][n] = "backoff" /\ msg'[t][n] = "pending"
        /\ \A s \in Tenants, m \in Messages :
               s # t \/ m # n => msg'[s][m] = msg[s][m]
    BY <1>2 DEF OutboxInv, ShapeInv, BackoffElapses
  <2>3. NoNewLocks
    BY <1>2 DEF BackoffElapses, NoNewLocks, Locking, work
  <2>4. PublishedInv'
    BY <2>2 DEF OutboxInv, PublishedInv
  <2>5. HeldInv'
    <3> SUFFICES ASSUME NEW v \in Workers, Locking(v)' PROVE Holds(v)'
      BY DEF HeldInv
    <3>1. /\ Locking(v) /\ batch'[v] = batch[v] /\ who'[v] = who[v]
          /\ who[v] \in Tenants
      BY <2>3 DEF NoNewLocks, OutboxInv, ShapeInv
    <3>2. Holds(v)
      BY <3>1 DEF OutboxInv, HeldInv
    <3>3. \A m \in Messages :
              msg[who[v]][m] \in Settled \cup {"pending"}
                  => msg'[who[v]][m] = msg[who[v]][m]
      BY <2>2, <3>1 DEF Settled
    <3> QED
      BY <3>1, <3>2, <3>3 DEF Holds
  <2> QED
    BY <1>2, <2>1, <2>3, <2>4, <2>5, LockKept, SessionKept, RoomKept
       DEF OutboxInv, BackoffElapses, accounts
<1>3. ASSUME NEW t \in Tenants, Login(t)
      PROVE  OutboxInv'
  <2>1. MaxSessions \in Nat /\ issued[t] \in Sessions
    BY FaultAssumption DEF OutboxInv, ShapeInv
  <2>2. /\ issued'[t] = issued[t] + 1
        /\ issued'[t] \in Sessions /\ issued'[t] # 1
        /\ \A s \in Tenants : s # t => issued'[s] = issued[s]
    BY <1>3, <2>1 DEF Login, OutboxInv, ShapeInv, Sessions
  <2>3. ShapeInv'
    BY <1>3, <2>2 DEF Login, OutboxInv, ShapeInv, work
  <2>4. NoNewLocks
    BY <1>3 DEF Login, NoNewLocks, Locking, work
  <2>5. HeldInv' /\ PublishedInv'
    BY <1>3, <2>4
       DEF Login, OutboxInv, HeldInv, Holds, PublishedInv, NoNewLocks
  <2>6. SessionInv'
    <3>1. \A s \in Tenants : \A k \in active'[s] : k <= issued'[s]
      <4> SUFFICES ASSUME NEW s \in Tenants, NEW k \in active'[s]
                   PROVE  k <= issued'[s]
        OBVIOUS
      <4>1. CASE s # t
        BY <1>3, <2>2, <4>1 DEF Login, OutboxInv, ShapeInv, SessionInv
      <4>2. CASE s = t /\ k = issued[t] + 1
        BY <2>1, <2>2, <4>2 DEF Sessions
      <4>3. CASE s = t /\ k \in active[t]
        <5>1. k <= issued[t] /\ k \in Sessions
          BY <4>3 DEF OutboxInv, SessionInv, ShapeInv
        <5> QED
          BY <2>1, <2>2, <4>3, <5>1 DEF Sessions
      <4> QED
        BY <1>3, <4>1, <4>2, <4>3 DEF Login, OutboxInv, ShapeInv
    <3>2. ASSUME NEW w \in Workers, Locking(w)'
          PROVE  with'[w] \in Sessions /\ (issued'[who'[w]] = 1 => with'[w] = 1)
      BY <2>2, <2>4, <3>2 DEF OutboxInv, SessionInv, ShapeInv, NoNewLocks
    <3> QED
      BY <3>1, <3>2 DEF SessionInv
  <2>7. RoomInv'
    BY <1>3, <2>2 DEF Login, OutboxInv, RoomInv
  <2> QED
    BY <2>3, <2>4, <2>5, <2>6, <2>7, LockKept DEF OutboxInv
<1>4. ASSUME NEW t \in Tenants, NEW k \in Sessions, EndSession(t, k)
      PROVE  OutboxInv'
  <2>1. ShapeInv' /\ \A s \in Tenants : active'[s] \subseteq active[s]
    BY <1>4 DEF EndSession, OutboxInv, ShapeInv, work
  <2>2. NoNewLocks
    BY <1>4 DEF EndSession, NoNewLocks, Locking, work
  <2>3. HeldInv' /\ PublishedInv'
    BY <1>4, <2>2
       DEF EndSession, OutboxInv, HeldInv, Holds, PublishedInv, NoNewLocks
  <2>4. SessionInv'
    BY <1>4, <2>1, <2>2 DEF EndSession, OutboxInv, SessionInv, NoNewLocks
  <2> QED
    BY <1>4, <2>1, <2>2, <2>3, <2>4, LockKept, RoomKept
       DEF EndSession, OutboxInv
<1>5. ASSUME (\E t \in Tenants : Rebind(t)) \/ RetireKey
      PROVE  OutboxInv'
  <2>1. ShapeInv' /\ NoNewLocks /\ UNCHANGED <<msg, issued, active, room>>
    BY <1>5 DEF Rebind, RetireKey, OutboxInv, ShapeInv, NoNewLocks, Locking,
                work
  <2> QED
    BY <2>1, QuietStep
<1> QED
  BY <1>1, <1>2, <1>3, <1>4, <1>5 DEF Environment

-----------------------------------------------------------------------------
(* The workers.                                                            *)

\* A step between two transactions, or the end of one that changes nothing.
LEMMA BetweenStep ==
  ASSUME OutboxInv, NEW w \in Workers,
         \/ \E t \in Tenants : TriggerDrain(w, t)
         \/ TriggerSweep(w)
         \/ ListCandidates(w)
         \/ BatchDone(w)
         \/ Skip(w)
         \/ ThrowUnreadable(w)
         \/ Crash(w)
  PROVE  OutboxInv'
<1>1. ShapeInv'
  <2>1. UNCHANGED <<msg, issued, active, room>>
    BY DEF TriggerDrain, TriggerSweep, ListCandidates, BatchDone, Skip,
           ThrowUnreadable, Crash, accounts, work
  <2>2. pc' \in [Workers -> Positions]
    BY DEF TriggerDrain, TriggerSweep, ListCandidates, BatchDone, Skip,
           ThrowUnreadable, Crash, work, Goto, OutboxInv, ShapeInv, Positions
  <2>3. todo' \in [Workers -> SUBSET Tenants] /\ who' \in [Workers -> Tenants]
    <3> USE DEF OutboxInv, ShapeInv
    <3>1. CASE \E t \in Tenants : TriggerDrain(w, t)
      BY <3>1 DEF TriggerDrain
    <3>2. CASE TriggerSweep(w)
      BY <3>2 DEF TriggerSweep
    <3>3. CASE ListCandidates(w)
      BY <3>3 DEF ListCandidates
    <3>4. CASE BatchDone(w) \/ Skip(w) \/ ThrowUnreadable(w) \/ Crash(w)
      BY <3>4 DEF BatchDone, Skip, ThrowUnreadable, Crash, work
    <3> QED
      BY <3>1, <3>2, <3>3, <3>4
  <2>4. batch' = [v \in Workers |-> batch'[v]]
    BY DEF TriggerDrain, TriggerSweep, ListCandidates, BatchDone, Skip,
           ThrowUnreadable, Crash, work, DropHead, OutboxInv, ShapeInv
  <2>5. with' \in [Workers -> Sessions \cup {0}]
    BY DEF TriggerDrain, TriggerSweep, ListCandidates, BatchDone, Skip,
           ThrowUnreadable, Crash, work, Release, OutboxInv, ShapeInv
  <2> QED
    BY <2>1, <2>2, <2>3, <2>4, <2>5 DEF OutboxInv, ShapeInv
<1>2. UNCHANGED <<msg, issued, active, room>>
  BY DEF TriggerDrain, TriggerSweep, ListCandidates, BatchDone, Skip,
         ThrowUnreadable, Crash, accounts, work
<1>3. ~Locking(w)'
  BY DEF TriggerDrain, TriggerSweep, ListCandidates, BatchDone, Skip, Claiming,
         ThrowUnreadable, Crash, Goto, work, OutboxInv, ShapeInv, Locking,
         Answered
<1>4. \A v \in Workers :
          v # w => /\ pc'[v] = pc[v] /\ batch'[v] = batch[v]
                   /\ who'[v] = who[v] /\ with'[v] = with[v]
  BY DEF TriggerDrain, TriggerSweep, ListCandidates, BatchDone, Skip,
         ThrowUnreadable, Crash, Goto, DropHead, Release, work, OutboxInv,
         ShapeInv
<1>5. NoNewLocks
  BY <1>3, <1>4 DEF NoNewLocks, Locking
<1> QED
  BY <1>1, <1>2, <1>5, QuietStep

\* What the claim finds: the message is next, and nobody has locked it.
LEMMA ClaimFinds ==
  ASSUME OutboxInv, NEW w \in Workers, Claiming(w)
  PROVE  /\ Head(batch[w]) \in Messages
         /\ msg[who[w]][Head(batch[w])] = "pending"
         /\ \A m \in Messages :
                m < Head(batch[w]) => msg[who[w]][m] \in Settled
         /\ \A v \in Workers :
                Locking(v) /\ who[v] = who[w] => Head(batch[v]) # Head(batch[w])
         /\ ~Locking(w)
<1>1. who[w] \in Tenants /\ msg \in [Tenants -> [Messages -> Statuses]]
  BY DEF OutboxInv, ShapeInv
<1>2. Claimable(who[w], Head(batch[w])) /\ Lockable(who[w], Head(batch[w]))
  BY DEF Claiming
<1>3. \A m \in Messages :
          m < Head(batch[w]) => msg[who[w]][m] \in Settled
  BY <1>1, <1>2 DEF Claimable, IsPending, OutboxInv, PublishedInv, Statuses
<1> QED
  BY <1>2, <1>3 DEF Claimable, Lockable, Claiming, Locking, Answered

LEMMA BuryStep ==
  ASSUME OutboxInv, NEW w \in Workers, Bury(w)
  PROVE  OutboxInv'
<1>1. PICK status \in {"dead", "failed"} : Mark(w, status)
  BY DEF Bury
<1>2. Claiming(w)
  BY DEF Bury
<1>3. NoNewLocks /\ ~Locking(w)'
  BY <1>2, ClaimFinds
     DEF Bury, DropHead, NoNewLocks, Locking, OutboxInv, ShapeInv
<1>4. ShapeInv'
  <2>1. msg' \in [Tenants -> [Messages -> Statuses]]
    BY <1>1, <1>2, ClaimFinds DEF Mark, OutboxInv, ShapeInv, Statuses, Settled
  <2>2. batch' = [v \in Workers |-> batch'[v]]
    BY DEF Bury, DropHead, OutboxInv, ShapeInv
  <2> QED
    BY <2>1, <2>2 DEF Bury, OutboxInv, ShapeInv, accounts
<1>5. UNCHANGED <<issued, active, room>> /\ status \in Settled \cup {"backoff"}
  BY DEF Bury, accounts, Settled
<1> QED
  BY <1>1, <1>2, <1>3, <1>4, <1>5, ClaimFinds, MarkStep

LEMMA ClaimStep ==
  ASSUME OutboxInv, NEW w \in Workers, Claim(w)
  PROVE  OutboxInv'
<1> DEFINE t == who[w]
<1>1. Claiming(w) /\ t \in Tenants /\ active[t] # {}
  BY DEF Claim, OutboxInv, ShapeInv
<1>2. Latest(t) \in active[t] /\ Latest(t) \in Sessions
  <2>1. active[t] \in SUBSET Sessions
    BY <1>1 DEF OutboxInv, ShapeInv
  <2> QED
    BY <1>1, <2>1, LatestExists DEF Latest
<1>3. issued[t] = 1 => Latest(t) = 1
  BY <1>1, <1>2 DEF OutboxInv, SessionInv, Sessions
<1>4. /\ UNCHANGED <<msg, issued, active, room, todo, who, batch>>
      /\ with' = [with EXCEPT ![w] = Latest(t)]
      /\ pc' = [pc EXCEPT ![w] = "send"]
  BY DEF Claim, Goto, accounts
<1>5. \A v \in Workers :
          v # w => pc'[v] = pc[v] /\ with'[v] = with[v]
  BY <1>4 DEF OutboxInv, ShapeInv
<1>6. with'[w] = Latest(t)
  BY <1>4 DEF OutboxInv, ShapeInv
<1>7. ShapeInv'
  BY <1>2, <1>4 DEF OutboxInv, ShapeInv, Positions
<1>8. PublishedInv' /\ RoomInv'
  BY <1>4, RoomKept DEF OutboxInv, PublishedInv
<1>9. HeldInv'
  <2> SUFFICES ASSUME NEW v \in Workers, Locking(v)' PROVE Holds(v)'
    BY DEF HeldInv
  <2>1. Holds(v)
    BY <1>1, <1>5, ClaimFinds DEF Locking, Holds, OutboxInv, HeldInv
  <2> QED
    BY <1>4, <2>1 DEF Holds
<1>10. LockInv'
  <2> SUFFICES ASSUME NEW u \in Workers, NEW v \in Workers, u # v,
                      Locking(u)', Locking(v)', who'[u] = who'[v]
               PROVE  Head(batch'[u]) # Head(batch'[v])
    BY DEF LockInv
  <2>1. (u # w => Locking(u)) /\ (v # w => Locking(v))
    BY <1>5 DEF Locking
  <2>2. CASE u = w \/ v = w
    BY <1>1, <1>4, <2>1, <2>2, ClaimFinds
  <2>3. CASE u # w /\ v # w
    BY <1>4, <2>1, <2>3 DEF OutboxInv, LockInv
  <2> QED
    BY <2>2, <2>3
<1>11. SessionInv'
  <2>1. ASSUME NEW v \in Workers, Locking(v)'
        PROVE  with'[v] \in Sessions /\ (issued'[who'[v]] = 1 => with'[v] = 1)
    <3>1. CASE v = w
      BY <1>2, <1>3, <1>4, <1>6, <3>1
    <3>2. CASE v # w
      BY <1>4, <1>5, <2>1, <3>2 DEF Locking, OutboxInv, SessionInv
    <3> QED
      BY <3>1, <3>2
  <2> QED
    BY <1>4, <2>1 DEF OutboxInv, SessionInv
<1> QED
  BY <1>7, <1>8, <1>9, <1>10, <1>11 DEF OutboxInv

\* A room that takes a message it does not know, or knows it already.
LEMMA AcceptKeeps ==
  ASSUME OutboxInv, NEW t \in Tenants, NEW n \in Messages, NEW k \in Sessions,
         issued[t] = 1 => k = 1,
         Accept(t, n, k), UNCHANGED issued
  PROVE  room' \in [Tenants -> Seq(Messages \X Sessions)] /\ RoomInv'
<1> DEFINE R == room[t]
           e == <<n, k>>
<1>1. R \in Seq(Messages \X Sessions) /\ e \in Messages \X Sessions
  BY DEF OutboxInv, ShapeInv
<1>2. CASE \E i \in DOMAIN R : R[i] = e
  <2>1. room' = [room EXCEPT ![t] = R]
    BY <1>2 DEF Accept, SameTransaction
  <2>2. room' = room
    BY <2>1 DEF OutboxInv, ShapeInv
  <2> QED
    BY <2>2, RoomKept DEF OutboxInv, ShapeInv
<1>3. CASE ~\E i \in DOMAIN R : R[i] = e
  <2>1. room' = [room EXCEPT ![t] = Append(R, e)]
    BY <1>3 DEF Accept, SameTransaction
  <2>2. Append(R, e) \in Seq(Messages \X Sessions)
    BY <1>1, AppendProperties
  <2>3. room' \in [Tenants -> Seq(Messages \X Sessions)]
    BY <2>1, <2>2 DEF OutboxInv, ShapeInv
  <2>4. /\ room'[t] = Append(R, e)
        /\ \A s \in Tenants : s # t => room'[s] = room[s]
    BY <2>1 DEF OutboxInv, ShapeInv
  <2>5. RoomInv'
    <3> SUFFICES ASSUME NEW s \in Tenants, issued[s] = 1
                 PROVE  /\ \A i \in DOMAIN room'[s] : room'[s][i][2] = 1
                        /\ \A i, j \in DOMAIN room'[s] :
                               room'[s][i][1] = room'[s][j][1] => i = j
      BY DEF RoomInv
    <3>1. CASE s # t
      BY <2>4, <3>1 DEF OutboxInv, RoomInv
    <3>2. CASE s = t
      <4> DEFINE l == Len(R)
                 Q == Append(R, e)
      <4>1. /\ l \in Nat /\ DOMAIN R = 1..l /\ DOMAIN Q = 1..l + 1
            /\ \A i \in 1..l : Q[i] = R[i] /\ R[i] \in Messages \X Sessions
            /\ Q[l + 1] = e
        BY <1>1, AppendProperties, LenProperties, ElementOfSeq
      <4>2. /\ \A i \in 1..l : R[i][2] = 1
            /\ \A i, j \in 1..l : R[i][1] = R[j][1] => i = j
        BY <3>2, <4>1 DEF OutboxInv, RoomInv
      <4>3. k = 1
        BY <3>2
      <4>4. \A i \in 1..l : R[i][1] # n
        <5> SUFFICES ASSUME NEW i \in 1..l, R[i][1] = n PROVE FALSE
          OBVIOUS
        <5>1. R[i] = <<n, 1>>
          BY <4>1, <4>2
        <5> QED
          BY <1>3, <4>1, <4>3, <5>1
      <4>5. \A i \in 1..l + 1 : Q[i][2] = 1
        <5> SUFFICES ASSUME NEW i \in 1..l + 1 PROVE Q[i][2] = 1
          OBVIOUS
        <5>1. i \in 1..l \/ i = l + 1
          BY <4>1
        <5>2. e[2] = 1
          BY <4>3
        <5> QED
          BY <4>1, <4>2, <5>1, <5>2
      <4>6. \A i, j \in 1..l + 1 : Q[i][1] = Q[j][1] => i = j
        <5> SUFFICES ASSUME NEW i \in 1..l + 1, NEW j \in 1..l + 1,
                            Q[i][1] = Q[j][1]
                     PROVE  i = j
          OBVIOUS
        <5>1. (i \in 1..l \/ i = l + 1) /\ (j \in 1..l \/ j = l + 1)
          BY <4>1
        <5>2. e[1] = n
          OBVIOUS
        <5>3. CASE i \in 1..l /\ j \in 1..l
          <6>1. Q[i] = R[i] /\ Q[j] = R[j]
            BY <4>1, <5>3
          <6> QED
            BY <4>2, <5>3, <6>1
        <5>4. CASE i \in 1..l /\ j = l + 1
          <6>1. Q[i] = R[i] /\ Q[j] = e
            BY <4>1, <5>4
          <6> QED
            BY <4>4, <5>2, <5>4, <6>1
        <5>5. CASE i = l + 1 /\ j \in 1..l
          <6>1. Q[i] = e /\ Q[j] = R[j]
            BY <4>1, <5>5
          <6> QED
            BY <4>4, <5>2, <5>5, <6>1
        <5> QED
          BY <5>1, <5>3, <5>4, <5>5
      <4>7. room'[s] = Q /\ DOMAIN room'[s] = 1..l + 1
        BY <2>4, <3>2, <4>1
      <4> HIDE DEF l, Q
      <4> QED
        BY <4>5, <4>6, <4>7
    <3> QED
      BY <3>1, <3>2
  <2> QED
    BY <2>3, <2>5
<1> QED
  BY <1>2, <1>3

LEMMA SendStep ==
  ASSUME OutboxInv, NEW w \in Workers, Send(w)
  PROVE  OutboxInv'
<1>1. /\ pc[w] = "send" /\ Locking(w)
      /\ UNCHANGED <<msg, issued, active, todo, who, batch, with>>
  BY DEF Send, accounts, work, Locking
<1>2. PICK answer \in Answered : pc' = [pc EXCEPT ![w] = answer]
  BY DEF Send, Goto
<1>3. \A v \in Workers : Locking(v)' <=> Locking(v)
  BY <1>1, <1>2 DEF Locking, OutboxInv, ShapeInv
<1>4. room' \in [Tenants -> Seq(Messages \X Sessions)] /\ RoomInv'
  <2>1. CASE UNCHANGED room
    BY <1>1, <2>1, RoomKept DEF OutboxInv, ShapeInv
  <2>2. CASE Accept(who[w], Head(batch[w]), with[w])
    <3>1. Holds(w) /\ who[w] \in Tenants
      BY <1>1 DEF OutboxInv, HeldInv, ShapeInv
    <3>2. with[w] \in Sessions /\ (issued[who[w]] = 1 => with[w] = 1)
      BY <1>1 DEF OutboxInv, SessionInv
    <3>3. Head(batch[w]) \in Messages
      BY <3>1 DEF Holds
    <3> QED
      BY <1>1, <2>2, <3>1, <3>2, <3>3, AcceptKeeps
  <2> QED
    BY <2>1, <2>2 DEF Send
<1>5. ShapeInv'
  <2>1. pc' \in [Workers -> Positions]
    BY <1>2 DEF OutboxInv, ShapeInv, Positions
  <2> QED
    BY <1>1, <1>4, <2>1 DEF OutboxInv, ShapeInv
<1>6. PublishedInv' /\ HeldInv'
  BY <1>1, <1>3 DEF OutboxInv, PublishedInv, HeldInv, Holds
<1>7. LockInv' /\ SessionInv'
  BY <1>1, <1>3 DEF OutboxInv, LockInv, SessionInv
<1> QED
  BY <1>4, <1>5, <1>6, <1>7 DEF OutboxInv

LEMMA CommitStep ==
  ASSUME OutboxInv, NEW w \in Workers, CommitSettled(w) \/ CommitRetry(w)
  PROVE  OutboxInv'
<1>1. PICK status \in {"delivered", "failed", "backoff"} : Mark(w, status)
  BY DEF CommitSettled, CommitRetry
<1>2. Locking(w)
  BY DEF CommitSettled, CommitRetry, Locking, Answered
<1>3. Holds(w) /\ who[w] \in Tenants
  BY <1>2 DEF OutboxInv, HeldInv, ShapeInv
<1>4. UNCHANGED <<issued, active, room, todo, who>>
  BY DEF CommitSettled, CommitRetry, accounts
<1>5. ~Locking(w)'
  BY DEF CommitSettled, CommitRetry, Goto, Locking, Answered, OutboxInv,
         ShapeInv
<1>6. \A v \in Workers :
          v # w => /\ pc'[v] = pc[v] /\ batch'[v] = batch[v]
                   /\ who'[v] = who[v] /\ with'[v] = with[v]
  BY <1>4 DEF CommitSettled, CommitRetry, Goto, DropHead, Release, OutboxInv,
              ShapeInv
<1>7. NoNewLocks
  BY <1>5, <1>6 DEF NoNewLocks, Locking
<1>8. ShapeInv'
  <2>1. msg' \in [Tenants -> [Messages -> Statuses]]
    BY <1>1, <1>3 DEF Mark, Holds, OutboxInv, ShapeInv, Statuses, Settled
  <2>2. pc' \in [Workers -> Positions] /\ with' \in [Workers -> Sessions \cup {0}]
    BY DEF CommitSettled, CommitRetry, Goto, Release, OutboxInv, ShapeInv,
           Positions
  <2>3. batch' = [v \in Workers |-> batch'[v]]
    BY DEF CommitSettled, CommitRetry, DropHead, OutboxInv, ShapeInv
  <2> QED
    BY <1>4, <2>1, <2>2, <2>3 DEF OutboxInv, ShapeInv
<1>9. /\ Head(batch[w]) \in Messages
      /\ msg[who[w]][Head(batch[w])] = "pending"
      /\ status \in Settled \cup {"backoff"}
  BY <1>3 DEF Holds, Settled
<1>10. \A v \in Workers :
           v # w /\ Locking(v) /\ who[v] = who[w]
               => Head(batch[v]) # Head(batch[w])
  BY <1>2 DEF OutboxInv, LockInv
<1> QED
  BY <1>1, <1>4, <1>5, <1>7, <1>8, <1>9, <1>10, MarkStep

LEMMA NextOutboxInv == OutboxInv /\ [Next]_vars => OutboxInv'
<1> SUFFICES ASSUME OutboxInv, [Next]_vars PROVE OutboxInv'
  OBVIOUS
<1>1. CASE UNCHANGED vars
  <2>1. UNCHANGED <<msg, issued, active, room, pc, todo, who, batch, with>>
    BY <1>1 DEF vars, accounts, work
  <2>2. ShapeInv' /\ NoNewLocks
    BY <2>1 DEF OutboxInv, ShapeInv, NoNewLocks, Locking
  <2> QED
    BY <2>1, <2>2, QuietStep
<1>2. CASE Environment
  BY <1>2, EnvironmentStep
<1>3. ASSUME NEW w \in Workers, WorkerStep(w) \/ Crash(w)
      PROVE  OutboxInv'
  BY <1>3, BetweenStep, BuryStep, ClaimStep, SendStep, CommitStep DEF WorkerStep
<1>4. ASSUME NEW w \in Drainers, NEW t \in Tenants, TriggerDrain(w, t)
      PROVE  OutboxInv'
  BY <1>4, BetweenStep DEF Workers
<1>5. ASSUME NEW w \in Sweepers, TriggerSweep(w)
      PROVE  OutboxInv'
  BY <1>5, BetweenStep DEF Workers
<1> QED
  BY <1>1, <1>2, <1>3, <1>4, <1>5 DEF Next

-----------------------------------------------------------------------------
\* The inductive invariant of the outbox and its workers.
THEOREM OutboxInvariantHolds == Spec => []OutboxInv
<1>1. Init => OutboxInv
  BY InitOutboxInv
<1>2. OutboxInv /\ [Next]_vars => OutboxInv'
  BY NextOutboxInv
<1> QED
  BY <1>1, <1>2, PTL DEF Spec

\* deliverOne: two workers never have sends for one room in flight, although
\* each locks only the row of its own message.
THEOREM SendExclusiveHolds == Spec => []SendExclusive
<1>1. OutboxInv => SendExclusive
  <2> SUFFICES ASSUME OutboxInv, NEW v \in Workers, NEW w \in Workers,
                      v # w, Locking(v), Locking(w), who[v] = who[w]
               PROVE  FALSE
    BY DEF SendExclusive
  <2> DEFINE t == who[v]
             m == Head(batch[v])
             n == Head(batch[w])
  <2>1. /\ m \in Messages /\ msg[t][m] = "pending"
        /\ \A i \in Messages : i < m => msg[t][i] \in Settled
    BY DEF OutboxInv, HeldInv, Holds
  <2>2. /\ n \in Messages /\ msg[t][n] = "pending"
        /\ \A i \in Messages : i < n => msg[t][i] \in Settled
    BY DEF OutboxInv, HeldInv, Holds
  <2>3. m # n
    BY DEF OutboxInv, LockInv
  <2>4. m < n \/ n < m
    BY <2>1, <2>2, <2>3 DEF Messages
  <2> QED
    BY <2>1, <2>2, <2>4 DEF Settled
<1> QED
  BY <1>1, OutboxInvariantHolds, PTL

\* sendMessage: the transaction id keeps retries out of the room, for as long
\* as the owner keeps the session.
THEOREM OncePerSessionHolds == Spec => []OncePerSession
<1>1. OutboxInv => OncePerSession
  BY DEF OutboxInv, RoomInv, OncePerSession
<1> QED
  BY <1>1, OutboxInvariantHolds, PTL

-----------------------------------------------------------------------------
(* What OrderedRoom sees of a tenant.                                      *)

PublishedSet(t) == {n \in Messages : msg[t][n] # "absent"}
SettledSet(t) == {n \in Messages : msg[t][n] \in Settled}

Published(t) == Cardinality(PublishedSet(t))
Outcomes(t) == [i \in 1..NumSettled(t) |-> msg[t][i]]
Shown(t) == [i \in 1..Len(room[t]) |-> room[t][i][1]]

\* Messages are settled in order, and one whose send was accepted is in the
\* room before its row says so.
PrefixInv ==
    \A t \in Tenants, m, n \in Messages :
        m < n /\ msg[t][n] \in Settled => msg[t][m] \in Settled

AcceptedInv ==
    \A w \in Workers :
        pc[w] = "accepted" =>
            \E i \in DOMAIN room[who[w]] :
                room[who[w]][i][1] = Head(batch[w])

OrderInv == PrefixInv /\ AcceptedInv

\* A set of messages that is closed downwards is counted by its last one.
LEMMA CountedByLast ==
  ASSUME NEW S \in SUBSET Messages,
         \A m \in Messages, n \in S : m < n => m \in S
  PROVE  Cardinality(S) \in Nat /\ S = 1..Cardinality(S)
<1>1. MaxMessages \in Nat
  BY SizeAssumption
<1> DEFINE T == {n \in Nat : n + 1 \notin S}
<1>2. MaxMessages \in T /\ T \subseteq Nat
  BY <1>1 DEF Messages
<1>3. PICK k \in T : \A m \in T : <<m, k>> \notin OpToRel(<, Nat)
  BY <1>2, WFMin, NatLessThanWellFounded
<1>4. k \in Nat /\ k + 1 \notin S /\ \A m \in T : ~(m < k)
  BY <1>2, <1>3 DEF OpToRel
<1>5. \A n \in 1..k : n \in S
  <2> SUFFICES ASSUME NEW n \in 1..k, n \notin S PROVE FALSE
    OBVIOUS
  <2>1. n - 1 \in Nat /\ n - 1 < k /\ (n - 1) + 1 = n
    BY <1>4
  <2>2. n - 1 \in T
    BY <2>1
  <2> QED
    BY <1>4, <2>1, <2>2
<1>6. \A n \in S : n \in 1..k
  <2> SUFFICES ASSUME NEW n \in S, n \notin 1..k PROVE FALSE
    OBVIOUS
  <2>1. n \in 1..MaxMessages /\ k + 1 <= n
    BY <1>1, <1>4 DEF Messages
  <2>2. k + 1 \in Messages
    BY <1>1, <1>4, <2>1 DEF Messages
  <2>3. CASE k + 1 = n
    BY <1>4, <2>3
  <2>4. CASE k + 1 < n
    BY <1>4, <2>2, <2>4
  <2> QED
    BY <1>1, <1>4, <2>1, <2>3, <2>4
<1>7. S = 1..k
  BY <1>5, <1>6
<1>8. Cardinality(1..k) = k
  BY <1>4, FS_Interval
<1> QED
  BY <1>4, <1>7, <1>8

LEMMA CountUpTo ==
  ASSUME NEW k \in Nat
  PROVE  Cardinality(1..k) = k
BY FS_Interval

LEMMA AsSequence ==
  ASSUME NEW S, NEW k \in Nat, NEW f \in [1..k -> S]
  PROVE  f \in Seq(S) /\ Len(f) = k
<1>1. f \in Seq(S)
  BY SeqDef
<1>2. Len(f) \in Nat /\ 1..Len(f) = 1..k
  BY <1>1, LenProperties
<1> QED
  BY <1>1, <1>2

LEMMA AppendIs ==
  ASSUME NEW S, NEW k \in Nat, NEW f \in [1..k -> S], NEW e \in S,
         NEW g \in [1..k + 1 -> S],
         \A i \in 1..k : g[i] = f[i],
         g[k + 1] = e
  PROVE  g = Append(f, e)
<1>1. /\ f \in Seq(S) /\ Len(f) = k
      /\ g \in Seq(S) /\ Len(g) = k + 1
  BY AsSequence
<1>2. /\ Append(f, e) \in Seq(S)
      /\ Len(Append(f, e)) = k + 1
      /\ \A i \in 1..k : Append(f, e)[i] = f[i]
      /\ Append(f, e)[k + 1] = e
  BY <1>1, AppendProperties
<1>3. \A i \in 1..k + 1 : i \in 1..k \/ i = k + 1
  OBVIOUS
<1>4. \A i \in 1..Len(g) : g[i] = Append(f, e)[i]
  BY <1>1, <1>2, <1>3
<1> QED
  BY <1>1, <1>2, <1>4, SeqEqual

\* The settled messages, and the published ones, are the first ones.
LEMMA FirstOnes ==
  ASSUME OutboxInv, PrefixInv, NEW t \in Tenants
  PROVE  /\ NumSettled(t) \in Nat /\ SettledSet(t) = 1..NumSettled(t)
         /\ Published(t) \in Nat /\ PublishedSet(t) = 1..Published(t)
         /\ Outcomes(t) \in [1..NumSettled(t) -> Settled]
         /\ Outcomes(t) \in Seq(Settled)
         /\ Len(Outcomes(t)) = NumSettled(t)
<1>1. NumSettled(t) \in Nat /\ SettledSet(t) = 1..NumSettled(t)
  <2>1. \A m \in Messages, n \in SettledSet(t) : m < n => m \in SettledSet(t)
    BY DEF SettledSet, PrefixInv
  <2> QED
    BY <2>1, CountedByLast DEF SettledSet, NumSettled
<1>2. Published(t) \in Nat /\ PublishedSet(t) = 1..Published(t)
  <2>1. \A m \in Messages, n \in PublishedSet(t) :
            m < n => m \in PublishedSet(t)
    BY DEF PublishedSet, OutboxInv, PublishedInv
  <2> QED
    BY <2>1, CountedByLast DEF PublishedSet, Published
<1>3. Outcomes(t) \in [1..NumSettled(t) -> Settled]
  <2>1. \A i \in 1..NumSettled(t) : msg[t][i] \in Settled
    BY <1>1 DEF SettledSet
  <2> QED
    BY <2>1 DEF Outcomes
<1> QED
  BY <1>1, <1>2, <1>3, AsSequence

-----------------------------------------------------------------------------
(* What a step does to the messages and the rooms.                         *)

\* n is the oldest message of t that is not settled.
IsNext(t, n) ==
    /\ msg[t][n] = "pending"
    /\ \A m \in Messages : m < n => msg[t][m] \in Settled

Enqueues(t, n) ==
    /\ msg[t][n] = "absent"
    /\ \A m \in Messages : m < n => msg[t][m] # "absent"
    /\ msg' = [msg EXCEPT ![t][n] = "pending"]
    /\ UNCHANGED room

Waits(t, n, status) ==
    /\ msg[t][n] \in {"pending", "backoff"}
    /\ msg' = [msg EXCEPT ![t][n] = status]
    /\ UNCHANGED room

Settles(t, n, outcome) ==
    /\ IsNext(t, n)
    /\ outcome = "delivered" =>
         \E i \in DOMAIN room[t] : room[t][i][1] = n
    /\ msg' = [msg EXCEPT ![t][n] = outcome]
    /\ UNCHANGED room

Transmits(t, n, k) ==
    /\ IsNext(t, n)
    /\ room' = [room EXCEPT ![t] = Append(@, <<n, k>>)]
    /\ UNCHANGED msg

LEMMA StepKinds ==
  ASSUME OutboxInv, OrderInv, [Next]_vars
  PROVE  \/ UNCHANGED <<msg, room>>
         \/ \E t \in Tenants, n \in Messages :
                \/ Enqueues(t, n)
                \/ \E status \in {"pending", "backoff"} : Waits(t, n, status)
                \/ \E outcome \in Settled : Settles(t, n, outcome)
                \/ \E k \in Sessions : Transmits(t, n, k)
<1>1. CASE UNCHANGED vars
  BY <1>1 DEF vars
<1>2. CASE Environment
  BY <1>2
  DEF Environment, Publish, Login, Rebind, EndSession, BackoffElapses,
      RetireKey, Enqueues, Waits
<1>3. ASSUME NEW w \in Workers,
             \/ \E t \in Tenants : TriggerDrain(w, t)
             \/ TriggerSweep(w) \/ ListCandidates(w) \/ BatchDone(w) \/ Skip(w)
             \/ ThrowUnreadable(w) \/ Claim(w) \/ Crash(w)
      PROVE  UNCHANGED <<msg, room>>
  BY <1>3
  DEF TriggerDrain, TriggerSweep, ListCandidates, BatchDone, Skip,
      ThrowUnreadable, Claim, Crash
<1>4. ASSUME NEW w \in Workers, Bury(w)
      PROVE  \E t \in Tenants, n \in Messages, outcome \in Settled :
                 Settles(t, n, outcome)
  <2>1. /\ who[w] \in Tenants /\ Head(batch[w]) \in Messages
        /\ IsNext(who[w], Head(batch[w]))
    BY <1>4, ClaimFinds DEF Bury, OutboxInv, ShapeInv, IsNext
  <2>2. PICK status \in {"dead", "failed"} : Mark(w, status)
    BY <1>4 DEF Bury
  <2>3. status \in Settled /\ Settles(who[w], Head(batch[w]), status)
    BY <1>4, <2>1, <2>2 DEF Bury, Mark, Settles, Settled
  <2> QED
    BY <2>1, <2>3
<1>5. ASSUME NEW w \in Workers, Send(w) \/ CommitSettled(w) \/ CommitRetry(w)
      PROVE  /\ who[w] \in Tenants /\ Head(batch[w]) \in Messages
             /\ IsNext(who[w], Head(batch[w]))
             /\ Locking(w)
  <2>1. Locking(w)
    BY <1>5 DEF Send, CommitSettled, CommitRetry, Locking, Answered
  <2> QED
    BY <2>1 DEF OutboxInv, HeldInv, Holds, ShapeInv, IsNext
<1>6. ASSUME NEW w \in Workers, CommitSettled(w)
      PROVE  \E t \in Tenants, n \in Messages, outcome \in Settled :
                 Settles(t, n, outcome)
  <2>1. CASE pc[w] = "accepted" /\ Mark(w, "delivered")
    <3>1. Settles(who[w], Head(batch[w]), "delivered")
      BY <1>5, <1>6, <2>1
      DEF CommitSettled, Mark, Settles, OrderInv, AcceptedInv
    <3> QED
      BY <1>5, <1>6, <3>1 DEF Settled
  <2>2. CASE Mark(w, "failed")
    <3>1. Settles(who[w], Head(batch[w]), "failed")
      BY <1>5, <1>6, <2>2 DEF CommitSettled, Mark, Settles
    <3> QED
      BY <1>5, <1>6, <3>1 DEF Settled
  <2> QED
    BY <1>6, <2>1, <2>2 DEF CommitSettled
<1>7. ASSUME NEW w \in Workers, CommitRetry(w)
      PROVE  \E t \in Tenants, n \in Messages : Waits(t, n, "backoff")
  <2>1. Waits(who[w], Head(batch[w]), "backoff")
    BY <1>5, <1>7 DEF CommitRetry, Mark, Waits, IsNext
  <2> QED
    BY <1>5, <1>7, <2>1
<1>8. ASSUME NEW w \in Workers, Send(w)
      PROVE  \/ UNCHANGED <<msg, room>>
             \/ \E t \in Tenants, n \in Messages, k \in Sessions :
                    Transmits(t, n, k)
  <2>1. UNCHANGED msg
    BY <1>8 DEF Send
  <2>2. CASE UNCHANGED room
    BY <2>1, <2>2
  <2>3. CASE Accept(who[w], Head(batch[w]), with[w])
    <3> DEFINE t == who[w]
               e == <<Head(batch[w]), with[w]>>
    <3>1. CASE \E i \in DOMAIN room[t] : room[t][i] = e
      <4>1. room' = [room EXCEPT ![t] = room[t]]
        BY <2>3, <3>1 DEF Accept, SameTransaction
      <4> QED
        BY <2>1, <4>1 DEF OutboxInv, ShapeInv
    <3>2. CASE ~\E i \in DOMAIN room[t] : room[t][i] = e
      <4>1. room' = [room EXCEPT ![t] = Append(room[t], e)]
        BY <2>3, <3>2 DEF Accept, SameTransaction
      <4>2. with[w] \in Sessions
        BY <1>5, <1>8 DEF OutboxInv, SessionInv
      <4>3. Transmits(t, Head(batch[w]), with[w])
        BY <1>5, <1>8, <2>1, <4>1 DEF Transmits
      <4> QED
        BY <1>5, <1>8, <4>2, <4>3
    <3> QED
      BY <3>1, <3>2
  <2> QED
    BY <1>8, <2>2, <2>3 DEF Send
<1>9. ASSUME NEW w \in Workers, WorkerStep(w)
      PROVE  \/ UNCHANGED <<msg, room>>
             \/ \E t \in Tenants, n \in Messages :
                    \/ \E status \in {"pending", "backoff"} :
                           Waits(t, n, status)
                    \/ \E outcome \in Settled : Settles(t, n, outcome)
                    \/ \E k \in Sessions : Transmits(t, n, k)
  BY <1>3, <1>4, <1>6, <1>7, <1>8, <1>9 DEF WorkerStep
<1> QED
  BY <1>1, <1>2, <1>3, <1>9 DEF Next, Workers

\* What a room has been shown stays.
LEMMA RoomGrows ==
  ASSUME OutboxInv, OrderInv, [Next]_vars,
         NEW t \in Tenants, NEW i \in DOMAIN room[t]
  PROVE  i \in DOMAIN room'[t] /\ room'[t][i] = room[t][i]
<1>1. CASE UNCHANGED room
  BY <1>1
<1>2. ASSUME NEW u \in Tenants, NEW n \in Messages, NEW k \in Sessions,
             Transmits(u, n, k)
      PROVE  i \in DOMAIN room'[t] /\ room'[t][i] = room[t][i]
  <2>1. CASE u # t
    BY <1>2, <2>1 DEF Transmits, OutboxInv, ShapeInv
  <2>2. CASE u = t
    <3>1. room[t] \in Seq(Messages \X Sessions) /\ <<n, k>> \in Messages \X Sessions
      BY DEF OutboxInv, ShapeInv
    <3>2. room'[t] = Append(room[t], <<n, k>>)
      BY <1>2, <2>2 DEF Transmits, OutboxInv, ShapeInv
    <3>3. /\ Len(room[t]) \in Nat
          /\ DOMAIN room[t] = 1..Len(room[t])
          /\ DOMAIN room'[t] = 1..Len(room[t]) + 1
          /\ room'[t][i] = room[t][i]
      BY <3>1, <3>2, AppendProperties, LenProperties
    <3> QED
      BY <3>3
  <2> QED
    BY <2>1, <2>2
<1> QED
  BY <1>1, <1>2, StepKinds DEF Enqueues, Waits, Settles

LEMMA PrefixStep ==
  ASSUME OutboxInv, OrderInv, [Next]_vars
  PROVE  PrefixInv'
<1>1. CASE UNCHANGED msg
  BY <1>1 DEF OrderInv, PrefixInv
<1>2. ASSUME NEW t \in Tenants, NEW n \in Messages, NEW status,
             msg' = [msg EXCEPT ![t][n] = status]
      PROVE  /\ msg'[t][n] = status
             /\ \A s \in Tenants, m \in Messages :
                    s # t \/ m # n => msg'[s][m] = msg[s][m]
  BY <1>2 DEF OutboxInv, ShapeInv
<1>3. ASSUME NEW t \in Tenants, NEW n \in Messages, NEW status,
             msg[t][n] \notin Settled, status \notin Settled,
             msg' = [msg EXCEPT ![t][n] = status]
      PROVE  PrefixInv'
  BY <1>2, <1>3 DEF OrderInv, PrefixInv
<1>4. ASSUME NEW t \in Tenants, NEW n \in Messages, NEW outcome \in Settled,
             Settles(t, n, outcome)
      PROVE  PrefixInv'
  <2>1. /\ msg'[t][n] = outcome
        /\ \A s \in Tenants, m \in Messages :
               s # t \/ m # n => msg'[s][m] = msg[s][m]
    BY <1>4 DEF Settles, OutboxInv, ShapeInv
  <2> SUFFICES ASSUME NEW s \in Tenants, NEW l \in Messages, NEW m \in Messages,
                      l < m, msg'[s][m] \in Settled
               PROVE  msg'[s][l] \in Settled
    BY DEF PrefixInv
  <2>2. CASE s = t /\ l = n
    BY <1>4, <2>1, <2>2
  <2>3. CASE s = t /\ m = n
    BY <1>4, <2>1, <2>3 DEF Settles, IsNext
  <2>4. CASE s # t \/ (l # n /\ m # n)
    BY <2>1, <2>4 DEF OrderInv, PrefixInv
  <2> QED
    BY <2>2, <2>3, <2>4
<1>5. ASSUME NEW t \in Tenants, NEW n \in Messages, Enqueues(t, n)
      PROVE  PrefixInv'
  <2>1. /\ msg[t][n] \notin Settled /\ "pending" \notin Settled
        /\ msg' = [msg EXCEPT ![t][n] = "pending"]
    BY <1>5 DEF Enqueues, Settled
  <2> QED
    BY <1>3, <2>1
<1>6. ASSUME NEW t \in Tenants, NEW n \in Messages,
             NEW status \in {"pending", "backoff"}, Waits(t, n, status)
      PROVE  PrefixInv'
  BY <1>3, <1>6 DEF Waits, Settled
<1> QED
  BY <1>1, <1>4, <1>5, <1>6, StepKinds DEF Transmits

LEMMA AcceptedStep ==
  ASSUME OutboxInv, OrderInv, [Next]_vars
  PROVE  AcceptedInv'
<1> SUFFICES ASSUME NEW w \in Workers, pc'[w] = "accepted"
             PROVE  \E i \in DOMAIN room'[who'[w]] :
                        room'[who'[w]][i][1] = Head(batch'[w])
  BY DEF AcceptedInv
<1>1. CASE pc[w] = "accepted" /\ who'[w] = who[w] /\ batch'[w] = batch[w]
  <2>1. PICK i \in DOMAIN room[who[w]] : room[who[w]][i][1] = Head(batch[w])
    BY <1>1 DEF OrderInv, AcceptedInv
  <2>2. i \in DOMAIN room'[who[w]] /\ room'[who[w]][i] = room[who[w]][i]
    BY <2>1, RoomGrows DEF OutboxInv, ShapeInv
  <2> QED
    BY <1>1, <2>1, <2>2
<1>2. CASE Send(w)
  <2>1. Accept(who[w], Head(batch[w]), with[w]) /\ UNCHANGED <<who, batch>>
    BY <1>2 DEF Send, work
  <2> DEFINE t == who[w]
             e == <<Head(batch[w]), with[w]>>
  <2>2. t \in Tenants /\ room[t] \in Seq(Messages \X Sessions)
    BY DEF OutboxInv, ShapeInv
  <2>3. e \in Messages \X Sessions
    <3>1. Locking(w)
      BY <1>2 DEF Send, Locking
    <3> QED
      BY <3>1 DEF OutboxInv, HeldInv, Holds, SessionInv
  <2>4. CASE \E i \in DOMAIN room[t] : room[t][i] = e
    <3>1. PICK i \in DOMAIN room[t] : room[t][i] = e
      BY <2>4
    <3>2. i \in DOMAIN room'[t] /\ room'[t][i] = e
      BY <2>2, <3>1, RoomGrows
    <3> QED
      BY <2>1, <3>2
  <2>5. CASE ~\E i \in DOMAIN room[t] : room[t][i] = e
    <3>1. room'[t] = Append(room[t], e)
      BY <2>1, <2>2, <2>5 DEF Accept, SameTransaction, OutboxInv, ShapeInv
    <3>2. /\ Len(room[t]) + 1 \in DOMAIN room'[t]
          /\ room'[t][Len(room[t]) + 1] = e
      BY <2>2, <2>3, <3>1, AppendProperties, LenProperties
    <3> QED
      BY <2>1, <3>2
  <2> QED
    BY <2>4, <2>5
<1>3. ASSUME NEW v \in Workers, WorkerStep(v) \/ Crash(v), ~(v = w /\ Send(v))
      PROVE  pc[w] = "accepted" /\ who'[w] = who[w] /\ batch'[w] = batch[w]
  <2>1. CASE v # w
    BY <1>3, <2>1
    DEF WorkerStep, ListCandidates, BatchDone, Skip, Bury, ThrowUnreadable,
        Claim, Send, CommitSettled, CommitRetry, Crash, Goto, DropHead, work,
        OutboxInv, ShapeInv
  <2>2. CASE v = w
    <3>1. ASSUME Crash(w) PROVE FALSE
      BY <3>1 DEF Crash, Goto, OutboxInv, ShapeInv
    <3>2. ASSUME ListCandidates(w) \/ BatchDone(w) \/ ThrowUnreadable(w)
                 \/ Claim(w) \/ CommitSettled(w) \/ CommitRetry(w)
          PROVE  FALSE
      BY <3>2
      DEF ListCandidates, BatchDone, ThrowUnreadable, Claim, CommitSettled,
          CommitRetry, Goto, OutboxInv, ShapeInv
    <3>3. ASSUME Skip(w) \/ Bury(w) PROVE FALSE
      BY <3>3 DEF Skip, Bury, Claiming
    <3> QED
      BY <1>3, <2>2, <3>1, <3>2, <3>3 DEF WorkerStep
  <2> QED
    BY <2>1, <2>2
<1>4. ASSUME NEW v \in Workers,
             TriggerSweep(v) \/ \E t \in Tenants : TriggerDrain(v, t)
      PROVE  pc[w] = "accepted" /\ who'[w] = who[w] /\ batch'[w] = batch[w]
  BY <1>4 DEF TriggerSweep, TriggerDrain, Goto, OutboxInv, ShapeInv
<1>5. CASE Environment \/ UNCHANGED vars
  <2>1. UNCHANGED <<pc, who, batch>>
    BY <1>5
    DEF Environment, Publish, Login, Rebind, EndSession, BackoffElapses,
        RetireKey, vars, work
  <2> QED
    BY <1>1, <2>1
<1> QED
  BY <1>1, <1>2, <1>3, <1>4, <1>5 DEF Next, Workers

LEMMA OrderInvariantHolds == Spec => []OrderInv
<1>1. Init => OrderInv
  BY DEF Init, OrderInv, PrefixInv, AcceptedInv, Settled
<1>2. OutboxInv /\ OrderInv /\ [Next]_vars => OrderInv'
  BY PrefixStep, AcceptedStep DEF OrderInv
<1> QED
  BY <1>1, <1>2, OutboxInvariantHolds, PTL DEF Spec

-----------------------------------------------------------------------------
(* Refinement.                                                             *)

LEMMA TenantKept ==
  ASSUME NEW t \in Tenants, msg'[t] = msg[t], room'[t] = room[t]
  PROVE  /\ Published(t)' = Published(t)
         /\ Outcomes(t)' = Outcomes(t)
         /\ Shown(t)' = Shown(t)
<1>1. PublishedSet(t)' = PublishedSet(t) /\ NumSettled(t)' = NumSettled(t)
  BY DEF PublishedSet, NumSettled
<1> QED
  BY <1>1 DEF Published, Outcomes, Shown

LEMMA EnqueueMaps ==
  ASSUME OutboxInv, OrderInv, OutboxInv', OrderInv',
         NEW t \in Tenants, NEW n \in Messages, Enqueues(t, n)
  PROVE  /\ Published(t)' = Published(t) + 1
         /\ Outcomes(t)' = Outcomes(t)
         /\ Shown(t)' = Shown(t)
<1>1. /\ msg'[t][n] = "pending"
      /\ \A m \in Messages : m # n => msg'[t][m] = msg[t][m]
      /\ room'[t] = room[t]
  BY DEF Enqueues, OutboxInv, ShapeInv
<1>2. n \in Nat \ {0} /\ n - 1 \in Nat
  BY SizeAssumption DEF Messages
<1>3. PublishedSet(t) = 1..n - 1
  <2>1. \A m \in Messages : m > n => msg[t][m] = "absent"
    BY DEF OutboxInv, PublishedInv, Enqueues
  <2>2. \A m \in Messages : m \in PublishedSet(t) <=> m < n
    BY <1>2, <2>1 DEF Enqueues, PublishedSet, Messages
  <2>3. PublishedSet(t) \subseteq Messages /\ 1..n - 1 \subseteq Messages
    BY <1>2, SizeAssumption DEF PublishedSet, Messages
  <2>4. \A m \in Messages : m \in 1..n - 1 <=> m < n
    BY <1>2, SizeAssumption DEF Messages
  <2> HIDE DEF Messages
  <2> QED
    BY <2>2, <2>3, <2>4
<1>4. PublishedSet(t)' = PublishedSet(t) \cup {n}
  BY <1>1 DEF PublishedSet
<1>5. PublishedSet(t)' = 1..n
  BY <1>2, <1>3, <1>4
<1>6. Published(t) = n - 1 /\ Published(t)' = n
  BY <1>2, <1>3, <1>5, CountUpTo DEF Published
<1>7. SettledSet(t)' = SettledSet(t)
  BY <1>1 DEF SettledSet, Settled, Enqueues
<1>8. NumSettled(t)' = NumSettled(t)
  BY <1>7 DEF NumSettled, SettledSet
<1>9. \A i \in 1..NumSettled(t) : msg'[t][i] = msg[t][i]
  <2>1. \A i \in 1..NumSettled(t) : i \in Messages /\ msg[t][i] \in Settled
    BY FirstOnes DEF OrderInv, SettledSet
  <2> QED
    BY <1>1, <2>1 DEF Enqueues, Settled
<1>10. Outcomes(t)' = Outcomes(t)
  BY <1>8, <1>9 DEF Outcomes
<1> QED
  BY <1>1, <1>2, <1>6, <1>10 DEF Shown

LEMMA WaitMaps ==
  ASSUME OutboxInv, OrderInv,
         NEW t \in Tenants, NEW n \in Messages,
         NEW status \in {"pending", "backoff"}, Waits(t, n, status)
  PROVE  /\ Published(t)' = Published(t)
         /\ Outcomes(t)' = Outcomes(t)
         /\ Shown(t)' = Shown(t)
<1>1. /\ msg'[t][n] = status
      /\ \A m \in Messages : m # n => msg'[t][m] = msg[t][m]
      /\ room'[t] = room[t]
  BY DEF Waits, OutboxInv, ShapeInv
<1>2. PublishedSet(t)' = PublishedSet(t) /\ SettledSet(t)' = SettledSet(t)
  BY <1>1 DEF PublishedSet, SettledSet, Settled, Waits
<1>3. Published(t)' = Published(t) /\ NumSettled(t)' = NumSettled(t)
  BY <1>2 DEF Published, NumSettled, SettledSet
<1>4. \A i \in 1..NumSettled(t) : msg'[t][i] = msg[t][i]
  <2>1. \A i \in 1..NumSettled(t) : i \in Messages /\ msg[t][i] \in Settled
    BY FirstOnes DEF OrderInv, SettledSet
  <2> QED
    BY <1>1, <2>1 DEF Waits, Settled
<1> QED
  BY <1>1, <1>3, <1>4 DEF Outcomes, Shown

\* The oldest message that is not settled comes right behind those that are.
LEMMA NextIsCurrent ==
  ASSUME OutboxInv, OrderInv, NEW t \in Tenants, NEW n \in Messages,
         IsNext(t, n)
  PROVE  /\ n = Len(Outcomes(t)) + 1
         /\ n <= Published(t)
<1>1. n \in Nat \ {0} /\ n - 1 \in Nat
  BY SizeAssumption DEF Messages
<1>2. NumSettled(t) \in Nat /\ SettledSet(t) = 1..NumSettled(t)
  BY FirstOnes DEF OrderInv
<1>3. n \notin 1..NumSettled(t)
  BY <1>2 DEF IsNext, SettledSet, Settled
<1>4. ~(NumSettled(t) < n - 1)
  <2> SUFFICES ASSUME NumSettled(t) < n - 1 PROVE FALSE
    OBVIOUS
  <2>1. n - 1 \in Messages /\ n - 1 < n
    BY <1>1, <1>2, SizeAssumption DEF Messages
  <2>2. n - 1 \in SettledSet(t)
    BY <2>1 DEF IsNext, SettledSet
  <2> QED
    BY <1>1, <1>2, <2>2
<1>5. n = NumSettled(t) + 1
  BY <1>1, <1>2, <1>3, <1>4
<1>6. n \in 1..Published(t) /\ Published(t) \in Nat
  <2>1. n \in PublishedSet(t)
    BY DEF IsNext, PublishedSet
  <2> QED
    BY <2>1, FirstOnes DEF OrderInv
<1> QED
  BY <1>1, <1>5, <1>6, FirstOnes DEF OrderInv

LEMMA SettleMaps ==
  ASSUME OutboxInv, OrderInv, OutboxInv', OrderInv',
         NEW t \in Tenants, NEW n \in Messages, NEW outcome \in Settled,
         Settles(t, n, outcome)
  PROVE  /\ Published(t)' = Published(t)
         /\ Outcomes(t)' = Append(Outcomes(t), outcome)
         /\ Shown(t)' = Shown(t)
<1>1. /\ msg'[t][n] = outcome
      /\ \A m \in Messages : m # n => msg'[t][m] = msg[t][m]
      /\ room'[t] = room[t]
  BY DEF Settles, OutboxInv, ShapeInv
<1>2. PublishedSet(t)' = PublishedSet(t)
  BY <1>1 DEF PublishedSet, Settled, Settles, IsNext
<1>3. Published(t)' = Published(t) /\ Shown(t)' = Shown(t)
  BY <1>1, <1>2 DEF Published, Shown
<1> DEFINE k == NumSettled(t)
<1>4. /\ k \in Nat /\ n = k + 1 /\ SettledSet(t) = 1..k
      /\ Outcomes(t) \in [1..k -> Settled]
  BY NextIsCurrent, FirstOnes DEF Settles, OrderInv
<1>5. SettledSet(t)' = SettledSet(t) \cup {n}
  BY <1>1 DEF SettledSet
<1>6. SettledSet(t)' = 1..k + 1
  BY <1>4, <1>5
<1>7. NumSettled(t)' = k + 1
  <2>1. NumSettled(t)' = Cardinality(SettledSet(t)')
    BY DEF NumSettled, SettledSet
  <2>2. k + 1 \in Nat
    BY <1>4
  <2>3. Cardinality(1..k + 1) = k + 1
    BY <2>2, CountUpTo
  <2> QED
    BY <1>6, <2>1, <2>3
<1> DEFINE g == Outcomes(t)'
<1>8. g = [i \in 1..k + 1 |-> msg'[t][i]]
  BY <1>7 DEF Outcomes
<1>9. \A i \in 1..k : i \in Messages /\ i # n
  BY <1>4 DEF SettledSet
<1>10. \A i \in 1..k : g[i] = Outcomes(t)[i]
  <2> SUFFICES ASSUME NEW i \in 1..k PROVE g[i] = Outcomes(t)[i]
    OBVIOUS
  <2>1. i \in 1..k + 1 /\ g[i] = msg'[t][i]
    BY <1>4, <1>8
  <2>2. msg'[t][i] = msg[t][i]
    BY <1>1, <1>9
  <2>3. Outcomes(t)[i] = msg[t][i]
    BY DEF Outcomes
  <2> QED
    BY <2>1, <2>2, <2>3
<1>11. g[k + 1] = outcome
  BY <1>1, <1>4, <1>8
<1>12. g \in [1..k + 1 -> Settled]
  <2>1. \A i \in 1..k + 1 : i \in 1..k \/ i = k + 1
    BY <1>4
  <2>2. \A i \in 1..k + 1 : g[i] \in Settled
    BY <1>4, <1>10, <1>11, <2>1
  <2> QED
    BY <1>8, <2>2
<1> HIDE DEF g, k
<1>13. g = Append(Outcomes(t), outcome)
  BY <1>4, <1>10, <1>11, <1>12, AppendIs
<1> QED
  BY <1>3, <1>13 DEF g

LEMMA TransmitMaps ==
  ASSUME OutboxInv, OrderInv,
         NEW t \in Tenants, NEW n \in Messages, NEW k \in Sessions,
         Transmits(t, n, k)
  PROVE  /\ Published(t)' = Published(t)
         /\ Outcomes(t)' = Outcomes(t)
         /\ Shown(t)' = Append(Shown(t), n)
<1>1. msg' = msg /\ room'[t] = Append(room[t], <<n, k>>)
  BY DEF Transmits, OutboxInv, ShapeInv
<1>2. PublishedSet(t)' = PublishedSet(t) /\ NumSettled(t)' = NumSettled(t)
  BY <1>1 DEF PublishedSet, NumSettled
<1>3. Published(t)' = Published(t) /\ Outcomes(t)' = Outcomes(t)
  BY <1>1, <1>2 DEF Published, Outcomes
<1> DEFINE l == Len(room[t])
           e == <<n, k>>
           g == Shown(t)'
<1>4. room[t] \in Seq(Messages \X Sessions) /\ e \in Messages \X Sessions
  BY DEF OutboxInv, ShapeInv
<1>5. /\ l \in Nat
      /\ Len(room'[t]) = l + 1
      /\ \A i \in 1..l : room'[t][i] = room[t][i]
      /\ room'[t][l + 1] = e
      /\ \A i \in 1..l : room[t][i] \in Messages \X Sessions
  BY <1>1, <1>4, AppendProperties, LenProperties, ElementOfSeq
<1>6. Shown(t) = [i \in 1..l |-> room[t][i][1]]
  BY DEF Shown
<1>7. Shown(t) \in [1..l -> Messages]
  <2>1. \A i \in 1..l : room[t][i][1] \in Messages
    BY <1>5
  <2> QED
    BY <1>6, <2>1
<1>8. g = [i \in 1..l + 1 |-> room'[t][i][1]]
  BY <1>5 DEF Shown
<1>9. \A i \in 1..l : g[i] = Shown(t)[i]
  BY <1>5, <1>6, <1>8
<1>10. g[l + 1] = n
  BY <1>5, <1>8
<1>11. g \in [1..l + 1 -> Messages]
  <2>1. \A i \in 1..l + 1 : i \in 1..l \/ i = l + 1
    BY <1>5
  <2>2. \A i \in 1..l + 1 : g[i] \in Messages
    BY <1>7, <1>9, <1>10, <2>1
  <2> QED
    BY <1>8, <2>2
<1> HIDE DEF g, l, e
<1>12. g = Append(Shown(t), n)
  BY <1>5, <1>7, <1>9, <1>10, <1>11, AppendIs
<1> QED
  BY <1>3, <1>12 DEF g

LEMMA InitMaps == Init => Promise!Init
<1> SUFFICES ASSUME Init PROVE Promise!Init
  OBVIOUS
<1>1. ASSUME NEW t \in Tenants
      PROVE  /\ Published(t) = 0
             /\ Outcomes(t) = <<>>
             /\ Shown(t) = <<>>
  <2>1. PublishedSet(t) = {} /\ SettledSet(t) = {}
    BY DEF Init, PublishedSet, SettledSet, Settled
  <2>2. Cardinality({}) = 0
    BY FS_EmptySet
  <2>3. Published(t) = 0 /\ NumSettled(t) = 0
    BY <2>1, <2>2 DEF Published, NumSettled, SettledSet
  <2>4. room[t] = <<>> /\ Len(room[t]) = 0
    BY EmptySeq DEF Init
  <2>5. Outcomes(t) = [i \in 1..0 |-> msg[t][i]]
    BY <2>3 DEF Outcomes
  <2>6. Shown(t) = [i \in 1..0 |-> room[t][i][1]]
    BY <2>4 DEF Shown
  <2>7. Outcomes(t) \in [1..0 -> {}] /\ Shown(t) \in [1..0 -> {}]
    BY <2>5, <2>6
  <2>8. /\ Outcomes(t) \in Seq({}) /\ Len(Outcomes(t)) = 0
        /\ Shown(t) \in Seq({}) /\ Len(Shown(t)) = 0
    BY <2>7, AsSequence
  <2> QED
    BY <2>3, <2>8, EmptySeq
<1>2. /\ [t \in Tenants |-> Published(t)] = [t \in Tenants |-> 0]
      /\ [t \in Tenants |-> Outcomes(t)] = [t \in Tenants |-> <<>>]
      /\ [t \in Tenants |-> Shown(t)] = [t \in Tenants |-> <<>>]
  BY <1>1
<1> QED
  BY <1>2 DEF Promise!Init, Published, PublishedSet, Outcomes, Shown

\* What OrderedRoom sees of the tenants but t stays.
OthersKept(t) ==
    \A u \in Tenants \ {t} :
        /\ Published(u)' = Published(u)
        /\ Outcomes(u)' = Outcomes(u)
        /\ Shown(u)' = Shown(u)

LEMMA OthersAreKept ==
  ASSUME OutboxInv, NEW t \in Tenants, NEW n \in Messages,
         \/ Enqueues(t, n)
         \/ \E status \in {"pending", "backoff"} : Waits(t, n, status)
         \/ \E outcome \in Settled : Settles(t, n, outcome)
         \/ \E k \in Sessions : Transmits(t, n, k)
  PROVE  OthersKept(t)
<1>1. \A u \in Tenants \ {t} : msg'[u] = msg[u] /\ room'[u] = room[u]
  BY DEF Enqueues, Waits, Settles, Transmits, OutboxInv, ShapeInv
<1> QED
  BY <1>1, TenantKept DEF OthersKept

\* deliverOne implements OrderedRoom: each transaction of each worker enqueues,
\* transmits the oldest message that is not settled, settles it, or leaves the
\* tenant alone, whatever workers overlap, crash and lose answers.
THEOREM ImplementsOrderedRoom == Spec => PromiseSpec
<1> DEFINE Pub == [t \in Tenants |-> Published(t)]
           Out == [t \in Tenants |-> Outcomes(t)]
           Sho == [t \in Tenants |-> Shown(t)]
<1>1. OutboxInv /\ OrderInv /\ OutboxInv' /\ OrderInv' /\ [Next]_vars
          => [Promise!Next]_(Promise!vars)
  <2> SUFFICES ASSUME OutboxInv, OrderInv, OutboxInv', OrderInv', [Next]_vars
               PROVE  Promise!Next \/ UNCHANGED Promise!vars
    OBVIOUS
  <2>a. /\ Pub = [t \in Tenants |->
                     Cardinality({n \in Messages : msg[t][n] # "absent"})]
        /\ Out = [t \in Tenants |-> [i \in 1..NumSettled(t) |-> msg[t][i]]]
        /\ Sho = [t \in Tenants |->
                     [i \in 1..Len(room[t]) |-> room[t][i][1]]]
    BY DEF Published, PublishedSet, Outcomes, Shown
  <2>b. ASSUME NEW t \in Tenants, OthersKept(t)
        PROVE  /\ Pub' = [Pub EXCEPT ![t] = Published(t)']
               /\ Out' = [Out EXCEPT ![t] = Outcomes(t)']
               /\ Sho' = [Sho EXCEPT ![t] = Shown(t)']
    BY <2>b DEF OthersKept
  <2>c. ASSUME UNCHANGED <<Pub, Out, Sho>> PROVE UNCHANGED Promise!vars
    BY <2>c
    DEF Promise!vars, Published, PublishedSet, Outcomes, Shown
  <2>1. CASE UNCHANGED <<msg, room>>
    <3>1. \A t \in Tenants : /\ Published(t)' = Published(t)
                             /\ Outcomes(t)' = Outcomes(t)
                             /\ Shown(t)' = Shown(t)
      BY <2>1, TenantKept
    <3> QED
      BY <2>c, <3>1
  <2>2. ASSUME NEW t \in Tenants, NEW n \in Messages, Enqueues(t, n)
        PROVE  Promise!Publish(t)
    <3>1. OthersKept(t)
      BY <2>2, OthersAreKept
    <3>2. /\ Published(t)' = Published(t) + 1
          /\ Outcomes(t)' = Outcomes(t)
          /\ Shown(t)' = Shown(t)
      BY <2>2, EnqueueMaps
    <3>3. Pub' = [Pub EXCEPT ![t] = @ + 1] /\ UNCHANGED <<Out, Sho>>
      BY <2>b, <3>1, <3>2
    <3> QED
      BY <3>3 DEF Promise!Publish, Published, PublishedSet, Outcomes, Shown
  <2>3. ASSUME NEW t \in Tenants, NEW n \in Messages,
               NEW status \in {"pending", "backoff"}, Waits(t, n, status)
        PROVE  UNCHANGED Promise!vars
    <3>1. OthersKept(t)
      BY <2>3, OthersAreKept
    <3>2. /\ Published(t)' = Published(t)
          /\ Outcomes(t)' = Outcomes(t)
          /\ Shown(t)' = Shown(t)
      BY <2>3, WaitMaps
    <3>3. UNCHANGED <<Pub, Out, Sho>>
      BY <2>b, <3>1, <3>2
    <3> QED
      BY <2>c, <3>3
  <2>4. ASSUME NEW t \in Tenants, NEW n \in Messages, NEW outcome \in Settled,
               Settles(t, n, outcome)
        PROVE  Promise!Settle(t, outcome)
    <3>1. OthersKept(t)
      BY <2>4, OthersAreKept
    <3>2. /\ Published(t)' = Published(t)
          /\ Outcomes(t)' = Append(Outcomes(t), outcome)
          /\ Shown(t)' = Shown(t)
      BY <2>4, SettleMaps
    <3>3. /\ Out' = [Out EXCEPT ![t] = Append(@, outcome)]
          /\ UNCHANGED <<Pub, Sho>>
      BY <2>b, <3>1, <3>2
    <3>4. n = Len(Out[t]) + 1 /\ n <= Pub[t]
      BY <2>4, NextIsCurrent DEF Settles
    <3>5. outcome = "delivered" => \E i \in DOMAIN Sho[t] : Sho[t][i] = n
      <4> SUFFICES ASSUME outcome = "delivered"
                   PROVE  \E i \in DOMAIN Sho[t] : Sho[t][i] = n
        OBVIOUS
      <4>1. PICK i \in DOMAIN room[t] : room[t][i][1] = n
        BY <2>4 DEF Settles
      <4>2. DOMAIN room[t] = 1..Len(room[t])
        BY LenProperties DEF OutboxInv, ShapeInv
      <4>3. i \in DOMAIN Shown(t) /\ Shown(t)[i] = n
        BY <4>1, <4>2 DEF Shown
      <4> QED
        BY <4>3
    <3>6. Promise!Current(t) = n
      BY <2>a, <3>4 DEF Promise!Current
    <3> QED
      BY <2>a, <3>3, <3>4, <3>5, <3>6
      DEF Promise!Settle, Published, PublishedSet, Outcomes, Shown
  <2>5. ASSUME NEW t \in Tenants, NEW n \in Messages, NEW k \in Sessions,
               Transmits(t, n, k)
        PROVE  Promise!Transmit(t)
    <3>1. OthersKept(t)
      BY <2>5, OthersAreKept
    <3>2. /\ Published(t)' = Published(t)
          /\ Outcomes(t)' = Outcomes(t)
          /\ Shown(t)' = Append(Shown(t), n)
      BY <2>5, TransmitMaps
    <3>3. Sho' = [Sho EXCEPT ![t] = Append(@, n)] /\ UNCHANGED <<Pub, Out>>
      BY <2>b, <3>1, <3>2
    <3>4. n = Len(Out[t]) + 1 /\ n <= Pub[t]
      BY <2>5, NextIsCurrent DEF Transmits
    <3>5. Promise!Current(t) = n
      BY <2>a, <3>4 DEF Promise!Current
    <3> QED
      BY <2>a, <3>3, <3>4, <3>5
      DEF Promise!Transmit, Published, PublishedSet, Outcomes, Shown
  <2> QED
    <3>1. Promise!Settlements = Settled
      BY DEF Promise!Settlements, Settled
    <3> QED
      BY <2>1, <2>2, <2>3, <2>4, <2>5, <3>1, StepKinds DEF Promise!Next
<1> QED
  BY <1>1, InitMaps, OutboxInvariantHolds, OrderInvariantHolds, PTL
  DEF Spec, PromiseSpec, Promise!Spec

=============================================================================

-------------------------- MODULE EventStreamProofs --------------------------
(***************************************************************************)
(* Theorems about EventStream, for every number of writers and events and  *)
(* every page size.                                                        *)
(***************************************************************************)
EXTENDS EventStream, FiniteSetTheorems, SequenceTheorems, TLAPS

-----------------------------------------------------------------------------
(* Sets of consecutive numbers.                                            *)

LEMMA IntervalSize ==
  ASSUME NEW a \in Nat, NEW b \in Nat, a <= b
  PROVE  Cardinality(a + 1..b) = b - a
<1>1. Cardinality(a + 1..b) = IF a + 1 > b THEN 0 ELSE b - (a + 1) + 1
  BY FS_Interval
<1> QED
  BY <1>1

LEMMA RangeSize ==
  ASSUME NEW b \in Nat
  PROVE  Cardinality(1..b) = b
<1>1. Cardinality(1..b) = IF 1 > b THEN 0 ELSE b - 1 + 1
  BY FS_Interval
<1> QED
  BY <1>1

LEMMA IntervalMax ==
  ASSUME NEW a \in Nat, NEW b \in Nat, a < b
  PROVE  Max(a + 1..b) = b
<1>1. b \in a + 1..b /\ \A y \in a + 1..b : b >= y
  OBVIOUS
<1>2. \A x \in a + 1..b : (\A y \in a + 1..b : x >= y) => x = b
  BY <1>1
<1> QED
  BY <1>1, <1>2 DEF Max

LEMMA IntervalInOrder ==
  ASSUME NEW a \in Nat, NEW b \in Nat, a <= b
  PROVE  InOrder(a + 1..b) = [i \in 1..(b - a) |-> a + i]
<1>1. Cardinality(a + 1..b) = b - a
  BY IntervalSize
<1>2. ASSUME NEW n \in a + 1..b
      PROVE  Cardinality({m \in a + 1..b : m <= n}) = n - a
  <2>1. {m \in a + 1..b : m <= n} = a + 1..n
    OBVIOUS
  <2>2. n \in Nat /\ a <= n
    OBVIOUS
  <2> QED
    BY <2>1, <2>2, IntervalSize
<1>3. ASSUME NEW i \in 1..(b - a)
      PROVE  (CHOOSE n \in a + 1..b : Cardinality({m \in a + 1..b : m <= n}) = i)
                 = a + i
  <2>1. a + i \in a + 1..b
    OBVIOUS
  <2>2. \A n \in a + 1..b :
            Cardinality({m \in a + 1..b : m <= n}) = i <=> n = a + i
    BY <1>2
  <2> QED
    BY <2>1, <2>2
<1> QED
  BY <1>1, <1>3 DEF InOrder

-----------------------------------------------------------------------------
(* The invariant.                                                          *)

Count == Cardinality(Committed)

\* The log is consecutive; the lock is with one transaction, which has the next
\* number; the run has ended when its terminal event is in the log.
LogInv ==
    /\ NoHoles
    /\ Count \in 0..MaxEvents
    /\ \A w \in Writers :
           txSeq[w] # 0 =>
               /\ txSeq[w] = Count + 1
               /\ txKind[w] = "terminal" => ~ended
    /\ \A v, w \in Writers : txSeq[v] # 0 /\ txSeq[w] # 0 => v = w
    /\ ended <=> \E n \in Seqs : log[n] = "terminal"

\* The store holds the beginning of the log, and a client that wants more has
\* not seen the terminal event.
StoreInv ==
    /\ highest <= Count
    /\ Len(shown) = highest
    /\ \A i \in 1..highest : shown[i] = i
    /\ link \in {"opening", "open", "waiting"} =>
           \A i \in 1..highest : log[i] # "terminal"

\* The frames in flight follow what the store holds.
NetInv ==
    /\ link # "open" => srv = "none"
    /\ link = "open" =>
           /\ highest <= srvCursor /\ srvCursor <= Count
           /\ Len(net) = srvCursor - highest
           /\ \A i \in 1..Len(net) : net[i] = highest + i

TerminalRead == \E n \in 1..srvCursor : log[n] = "terminal"

\* A status that was read as ended is about a log that holds the terminal event.
ServerInv ==
    /\ srv = "readPage" /\ srvEnded => ended
    /\ srv = "decide" /\ srvEnded /\ ~srvMore => TerminalRead
    /\ srv = "closed" => TerminalRead

\* A reported delivery is known to the store, or waits for its event.
MarksInv ==
    /\ reported \subseteq delivered \cup pendingDeliveries
    /\ \A n \in pendingDeliveries : n > highest

StreamInv ==
    TypeOK /\ LogInv /\ StoreInv /\ NetInv /\ ServerInv /\ MarksInv

-----------------------------------------------------------------------------
LEMMA InitStreamInv == Init => StreamInv
<1> SUFFICES ASSUME Init PROVE StreamInv
  OBVIOUS
<1> USE PageAssumption, BoundAssumption
<1>1. Committed = {} /\ Count = 0
  <2>1. Committed = {}
    BY DEF Init, Committed
  <2> QED
    BY <2>1, FS_EmptySet DEF Count
<1>2. TypeOK
  <2>1. /\ log \in [Seqs -> Kinds \cup {"none"}]
        /\ txSeq \in [Writers -> Seqs \cup {0}]
        /\ txKind \in [Writers -> Kinds]
    BY DEF Init, Kinds
  <2>2. ended \in BOOLEAN /\ srvEnded \in BOOLEAN /\ srvMore \in BOOLEAN
    BY DEF Init
  <2>3. net \in Seq(Seqs) /\ shown \in Seq(Seqs)
    BY EmptySeq DEF Init
  <2>4. /\ srvCursor \in 0..MaxEvents /\ highest \in 0..MaxEvents
        /\ disturbances \in 0..MaxDisturbances
    BY DEF Init
  <2>5. /\ srv \in {"none", "readRun", "readPage", "decide", "closed"}
        /\ link \in {"off", "opening", "open", "waiting", "refused", "done"}
        /\ delivered \subseteq Seqs /\ pendingDeliveries \subseteq Seqs
        /\ reported \subseteq Seqs
    BY DEF Init
  <2> QED
    BY <2>1, <2>2, <2>3, <2>4, <2>5 DEF TypeOK
<1>3. LogInv
  BY <1>1 DEF Init, LogInv, NoHoles, Count
<1>4. StoreInv /\ NetInv /\ ServerInv /\ MarksInv
  BY <1>1 DEF Init, StoreInv, NetInv, ServerInv, MarksInv
<1> QED
  BY <1>2, <1>3, <1>4 DEF StreamInv

\* The committed numbers, as every lemma uses them.
LEMMA CommittedRange ==
  ASSUME StreamInv
  PROVE  /\ Count \in Nat /\ Count <= MaxEvents /\ MaxEvents \in Nat
         /\ Committed = 1..Count
         /\ \A n \in Seqs : n <= Count <=> log[n] # "none"
         /\ \A n \in 1..Count : n \in Seqs
<1>1. Count \in Nat /\ Count <= MaxEvents /\ MaxEvents \in Nat
  BY BoundAssumption DEF StreamInv, LogInv
<1>2. Committed = 1..Count
  BY DEF StreamInv, LogInv, NoHoles, Count
<1>3. \A n \in Seqs : n \in Committed <=> log[n] # "none"
  BY DEF Committed
<1>4. \A n \in Seqs : n \in 1..Count <=> n <= Count
  BY <1>1 DEF Seqs
<1>5. \A n \in 1..Count : n \in Seqs
  BY <1>1 DEF Seqs
<1> QED
  BY <1>1, <1>2, <1>3, <1>4, <1>5

LEMMA NextNumber ==
  ASSUME StreamInv
  PROVE  NextAfter(Committed) = Count + 1
<1>1. Count \in Nat /\ Committed = 1..Count
  BY CommittedRange
<1>2. CASE Count = 0
  BY <1>1, <1>2 DEF NextAfter
<1>3. CASE Count > 0
  <2>1. Max(0 + 1..Count) = Count
    BY <1>1, <1>3, IntervalMax
  <2>2. Max(Committed) = Count
    BY <1>1, <2>1
  <2>3. Committed # {}
    BY <1>1, <1>3
  <2> QED
    BY <2>2, <2>3 DEF NextAfter
<1> QED
  BY <1>1, <1>2, <1>3

\* The log and the readers of it are not concerned by an open transaction.
LEMMA BeginAppendStreamInv ==
  ASSUME StreamInv, NEW w \in Writers, NEW kind \in Kinds, BeginAppend(w, kind)
  PROVE  StreamInv'
<1> USE DEF StreamInv
<1>1. PICK n \in Seqs : Allocates(n) /\ txSeq' = [txSeq EXCEPT ![w] = n]
  BY DEF BeginAppend
<1>2. n = Count + 1 /\ \A v \in Writers : txSeq[v] = 0
  BY <1>1, NextNumber DEF Allocates
<1>3. /\ txKind' = [txKind EXCEPT ![w] = kind]
      /\ kind = "terminal" => ~ended
      /\ UNCHANGED <<log, ended, srv, srvCursor, srvEnded, srvMore, net, link,
                     shown, highest, delivered, pendingDeliveries, reported,
                     disturbances>>
  BY DEF BeginAppend, serverVars, storeVars
<1>4. Committed' = Committed /\ Count' = Count
  BY <1>3 DEF Committed, Count
<1>5. TypeOK'
  BY <1>1, <1>3 DEF TypeOK
<1>6. LogInv'
  <2>1. NoHoles' /\ Count' \in 0..MaxEvents
    BY <1>4 DEF LogInv, NoHoles, Count
  <2>2. /\ txSeq'[w] = Count + 1 /\ txKind'[w] = kind
        /\ \A v \in Writers \ {w} : txSeq'[v] = 0
    BY <1>1, <1>2, <1>3 DEF TypeOK
  <2>3. ended' <=> \E m \in Seqs : log'[m] = "terminal"
    BY <1>3 DEF LogInv
  <2> QED
    BY <1>3, <1>4, <2>1, <2>2, <2>3 DEF LogInv
<1>7. StoreInv' /\ NetInv'
  BY <1>3, <1>4 DEF StoreInv, NetInv
<1>8. ServerInv' /\ MarksInv'
  BY <1>3 DEF ServerInv, MarksInv, TerminalRead
<1> QED
  BY <1>5, <1>6, <1>7, <1>8

\* The number of the lock's holder becomes the last one of the log.
LEMMA CommitGrows ==
  ASSUME StreamInv, NEW w \in Writers, CommitAppend(w)
  PROVE  /\ Count + 1 \in Seqs
         /\ log' = [log EXCEPT ![Count + 1] = txKind[w]]
         /\ txKind[w] = "terminal" => ~ended
         /\ Committed' = 1..Count + 1
         /\ Count' = Count + 1
<1> USE DEF StreamInv
<1>1. txSeq[w] \in Seqs /\ txSeq[w] = Count + 1
      /\ (txKind[w] = "terminal" => ~ended)
  BY DEF CommitAppend, LogInv, TypeOK
<1>2. log' = [log EXCEPT ![Count + 1] = txKind[w]]
  BY <1>1 DEF CommitAppend
<1>3. Committed' = 1..Count + 1
  <2>1. Count \in Nat /\ Committed = 1..Count
    BY CommittedRange
  <2>2. txKind[w] # "none"
    BY DEF TypeOK, Kinds
  <2>3. \A n \in Seqs : log'[n] # "none" <=> n \in Committed \/ n = Count + 1
    BY <1>1, <1>2, <2>2 DEF TypeOK, Committed
  <2>4. Committed' = Committed \cup {Count + 1}
    BY <1>1, <2>3 DEF Committed
  <2> QED
    BY <2>1, <2>4
<1>4. Count' = Count + 1
  <2>1. Count \in Nat
    BY CommittedRange
  <2>2. Cardinality(1..Count + 1) = Count + 1
    BY <2>1, RangeSize
  <2> QED
    BY <1>3, <2>2 DEF Count
<1> QED
  BY <1>1, <1>2, <1>3, <1>4

LEMMA CommitAppendStreamInv ==
  ASSUME StreamInv, NEW w \in Writers, CommitAppend(w)
  PROVE  StreamInv'
<1> USE DEF StreamInv
<1>1. /\ Count \in Nat /\ Count + 1 \in Seqs
      /\ log' = [log EXCEPT ![Count + 1] = txKind[w]]
      /\ (txKind[w] = "terminal" => ~ended)
      /\ Committed' = 1..Count + 1 /\ Count' = Count + 1
      /\ log[Count + 1] = "none"
  BY CommitGrows, CommittedRange
<1>2. /\ ended' = (ended \/ txKind[w] = "terminal")
      /\ txSeq' = [txSeq EXCEPT ![w] = 0]
      /\ UNCHANGED <<txKind, srv, srvCursor, srvEnded, srvMore, net, link,
                     shown, highest, delivered, pendingDeliveries, reported,
                     disturbances>>
  BY DEF CommitAppend, serverVars, storeVars
<1>3. ended' \in BOOLEAN
  BY <1>2 DEF TypeOK
<1>4. TypeOK'
  BY <1>1, <1>2, <1>3 DEF TypeOK
<1>5. \A n \in Seqs : n # Count + 1 => log'[n] = log[n]
  BY <1>1 DEF TypeOK
<1>6. log'[Count + 1] = txKind[w]
  BY <1>1 DEF TypeOK
<1>7. LogInv'
  <2>1. NoHoles'
    BY <1>1 DEF NoHoles, Count
  <2>2. Count' \in 0..MaxEvents
    BY <1>1, BoundAssumption DEF Seqs
  <2>3. \A v \in Writers : txSeq'[v] = 0
    <3>1. txSeq[w] # 0
      BY DEF CommitAppend
    <3> QED
      BY <1>2, <3>1 DEF LogInv, TypeOK
  <2>4. ended' <=> \E n \in Seqs : log'[n] = "terminal"
    <3>1. ended <=> \E n \in Seqs : log[n] = "terminal"
      BY DEF LogInv
    <3>2. (\E n \in Seqs : log'[n] = "terminal")
              <=> (\E n \in Seqs : log[n] = "terminal") \/ txKind[w] = "terminal"
      BY <1>1, <1>5, <1>6
    <3> QED
      BY <1>2, <3>1, <3>2
  <2> QED
    BY <2>1, <2>2, <2>3, <2>4 DEF LogInv
<1>8. highest \in Nat /\ highest <= Count /\ MaxEvents \in Nat
  BY BoundAssumption DEF StoreInv, TypeOK
<1>9. StoreInv'
  <2>1. \A i \in 1..highest : log'[i] = log[i]
    BY <1>1, <1>5, <1>8 DEF Seqs
  <2> QED
    BY <1>1, <1>2, <1>8, <2>1 DEF StoreInv
<1>10. NetInv'
  BY <1>1, <1>2 DEF NetInv, TypeOK
<1>11. TerminalRead => TerminalRead'
  <2> SUFFICES ASSUME NEW n \in 1..srvCursor, log[n] = "terminal"
               PROVE  log'[n] = "terminal"
    BY <1>2 DEF TerminalRead
  <2>1. n \in Seqs
    BY <1>8 DEF TypeOK, Seqs
  <2> QED
    BY <1>1, <1>5, <2>1
<1>12. ServerInv' /\ MarksInv'
  BY <1>2, <1>11 DEF ServerInv, MarksInv
<1> QED
  BY <1>4, <1>7, <1>9, <1>10, <1>12

LEMMA RollbackAppendStreamInv ==
  ASSUME StreamInv, NEW w \in Writers, RollbackAppend(w)
  PROVE  StreamInv'
<1> USE DEF StreamInv
<1>1. /\ txSeq' = [txSeq EXCEPT ![w] = 0]
      /\ disturbances' \in 0..MaxDisturbances
      /\ UNCHANGED <<log, ended, txKind, srv, srvCursor, srvEnded, srvMore, net,
                     link, shown, highest, delivered, pendingDeliveries,
                     reported>>
  BY BoundAssumption DEF RollbackAppend, serverVars, storeVars, TypeOK
<1>2. Committed' = Committed /\ Count' = Count
  BY <1>1 DEF Committed, Count
<1>3. TypeOK'
  BY <1>1 DEF TypeOK
<1>4. LogInv'
  <2>1. NoHoles' /\ Count' \in 0..MaxEvents
    BY <1>2 DEF LogInv, NoHoles, Count
  <2>2. \A v \in Writers : txSeq'[v] # 0 => txSeq'[v] = txSeq[v]
    BY <1>1 DEF TypeOK
  <2>3. ended' <=> \E m \in Seqs : log'[m] = "terminal"
    BY <1>1 DEF LogInv
  <2> QED
    BY <1>1, <1>2, <2>1, <2>2, <2>3 DEF LogInv
<1>5. StoreInv' /\ NetInv'
  BY <1>1, <1>2 DEF StoreInv, NetInv
<1>6. ServerInv' /\ MarksInv'
  BY <1>1 DEF ServerInv, MarksInv, TerminalRead
<1> QED
  BY <1>3, <1>4, <1>5, <1>6

\* A step that leaves the log alone keeps what is said of it.
LEMMA LogKept ==
  ASSUME StreamInv, UNCHANGED writeVars
  PROVE  LogInv' /\ Count' = Count /\ Committed' = Committed
<1>1. Committed' = Committed /\ Count' = Count
  BY DEF writeVars, Committed, Count
<1> QED
  BY <1>1 DEF StreamInv, LogInv, NoHoles, Count, writeVars

-----------------------------------------------------------------------------
(* The stream.                                                             *)

LEMMA ReadRunStreamInv ==
  ASSUME StreamInv, ReadRun
  PROVE  StreamInv'
<1> USE DEF StreamInv
<1>1. /\ srvEnded' = ended /\ srv' = "readPage" /\ srv = "readRun"
      /\ UNCHANGED <<writeVars, srvCursor, srvMore, net, link, shown, highest,
                     delivered, pendingDeliveries, reported, disturbances>>
  BY DEF ReadRun, storeVars
<1>2. LogInv' /\ Count' = Count
  BY <1>1, LogKept
<1>3. TypeOK'
  BY <1>1 DEF TypeOK, writeVars
<1>4. StoreInv' /\ NetInv'
  BY <1>1, <1>2 DEF StoreInv, NetInv, writeVars
<1>5. ServerInv' /\ MarksInv'
  BY <1>1 DEF ServerInv, MarksInv, writeVars
<1> QED
  BY <1>2, <1>3, <1>4, <1>5

\* A page is the next stretch of the log, and no more is left when it reaches
\* the end.
LEMMA PageIsInterval ==
  ASSUME StreamInv, NEW c \in Nat, c <= Count
  PROVE  \E b \in Nat :
             /\ c <= b /\ b <= Count
             /\ Page(c) = c + 1..b
             /\ After(c) = c + 1..Count
             /\ Page(c) = After(c) => b = Count
<1>1. Count \in Nat /\ Committed = 1..Count
  BY CommittedRange
<1>2. After(c) = c + 1..Count
  BY <1>1 DEF After
<1>3. ASSUME NEW n \in After(c)
      PROVE  Cardinality({m \in After(c) : m <= n}) = n - c
  <2>1. {m \in After(c) : m <= n} = c + 1..n
    BY <1>1, <1>2
  <2>2. n \in Nat /\ c <= n
    BY <1>1, <1>2
  <2> QED
    BY <2>1, <2>2, IntervalSize
<1>4. Page(c) = {n \in After(c) : n - c <= PageLimit}
  BY <1>3 DEF Page
<1> DEFINE b == IF c + PageLimit < Count THEN c + PageLimit ELSE Count
<1>5. b \in Nat /\ c <= b /\ b <= Count
  BY <1>1, PageAssumption
<1>6. Page(c) = c + 1..b
  BY <1>1, <1>2, <1>4, PageAssumption
<1>7. c + 1..b = c + 1..Count => b = Count
  <2> SUFFICES ASSUME b # Count PROVE c + 1..b # c + 1..Count
    OBVIOUS
  <2>1. Count \in c + 1..Count /\ Count \notin c + 1..b
    BY <1>1, <1>5
  <2> QED
    BY <2>1
<1> QED
  BY <1>2, <1>5, <1>6, <1>7

LEMMA ReadPageStreamInv ==
  ASSUME StreamInv, ReadPage
  PROVE  StreamInv'
<1> USE DEF StreamInv
<1>1. /\ net' = net \o InOrder(Page(srvCursor))
      /\ srvCursor' = IF Page(srvCursor) = {} THEN srvCursor
                      ELSE Max(Page(srvCursor))
      /\ srvMore' = (Page(srvCursor) # After(srvCursor))
      /\ srv = "readPage" /\ srv' = "decide"
      /\ UNCHANGED <<writeVars, srvEnded, link, shown, highest, delivered,
                     pendingDeliveries, reported, disturbances>>
  BY DEF ReadPage, storeVars
<1>2. LogInv' /\ Count' = Count
  BY <1>1, LogKept
<1>3. /\ link = "open"
      /\ highest \in Nat /\ srvCursor \in Nat /\ Count \in Nat
      /\ highest <= srvCursor /\ srvCursor <= Count
      /\ MaxEvents \in Nat /\ Count <= MaxEvents
  BY <1>1, CommittedRange, BoundAssumption DEF NetInv, TypeOK
<1>4. PICK b \in Nat :
          /\ srvCursor <= b /\ b <= Count
          /\ Page(srvCursor) = srvCursor + 1..b
          /\ After(srvCursor) = srvCursor + 1..Count
          /\ Page(srvCursor) = After(srvCursor) => b = Count
  BY <1>3, PageIsInterval
<1>5. srvCursor' = b
  <2>1. CASE b = srvCursor
    BY <1>1, <1>3, <1>4, <2>1
  <2>2. CASE srvCursor < b
    <3>1. Max(srvCursor + 1..b) = b
      BY <1>3, <2>2, IntervalMax
    <3>2. b \in srvCursor + 1..b
      BY <1>3, <2>2
    <3> QED
      BY <1>1, <1>4, <3>1, <3>2
  <2> QED
    BY <1>3, <1>4, <2>1, <2>2
<1> DEFINE frames == [i \in 1..(b - srvCursor) |-> srvCursor + i]
<1>6. InOrder(Page(srvCursor)) = frames
  BY <1>3, <1>4, IntervalInOrder
<1>7. frames \in Seq(Seqs) /\ Len(frames) = b - srvCursor
  <2>1. b - srvCursor \in Nat
    BY <1>3, <1>4
  <2>2. \A i \in 1..(b - srvCursor) : srvCursor + i \in Seqs
    BY <1>3, <1>4 DEF Seqs
  <2> QED
    BY <2>1, <2>2
<1> HIDE DEF frames
<1>8. /\ net' \in Seq(Seqs)
      /\ Len(net') = b - highest
      /\ \A i \in 1..Len(net') : net'[i] = highest + i
  <2>1. net \in Seq(Seqs) /\ Len(net) = srvCursor - highest
        /\ \A i \in 1..Len(net) : net[i] = highest + i
    BY <1>3 DEF NetInv, TypeOK
  <2>2. /\ net' \in Seq(Seqs) /\ Len(net') = Len(net) + Len(frames)
        /\ \A i \in 1..Len(net) + Len(frames) :
               net'[i] = IF i <= Len(net) THEN net[i] ELSE frames[i - Len(net)]
    BY <1>1, <1>6, <1>7, <2>1, ConcatProperties
  <2>3. Len(net') = b - highest
    BY <1>3, <1>7, <2>1, <2>2
  <2>4. ASSUME NEW i \in 1..Len(net') PROVE net'[i] = highest + i
    <3>1. CASE i <= Len(net)
      BY <1>3, <2>1, <2>2, <3>1
    <3>2. CASE i > Len(net)
      <4>1. i - Len(net) \in 1..(b - srvCursor)
        BY <1>3, <1>4, <2>1, <2>3, <3>2
      <4>2. net'[i] = frames[i - Len(net)]
        BY <1>3, <1>4, <2>1, <2>2, <3>2
      <4>3. frames[i - Len(net)] = srvCursor + (i - Len(net))
        BY <4>1 DEF frames
      <4> QED
        BY <1>3, <2>1, <4>2, <4>3
    <3> QED
      BY <1>3, <2>1, <3>1, <3>2
  <2> QED
    BY <2>2, <2>3, <2>4
<1>9. TypeOK'
  <2>1. srvMore' \in BOOLEAN
    BY <1>1
  <2>2. srvCursor' \in 0..MaxEvents
    BY <1>3, <1>4, <1>5
  <2> QED
    BY <1>1, <1>8, <2>1, <2>2 DEF TypeOK, writeVars
<1>10. StoreInv'
  BY <1>1, <1>2 DEF StoreInv, writeVars
<1>11. NetInv'
  <2>1. link' = "open" /\ highest' = highest /\ srvCursor' = b
    BY <1>1, <1>3, <1>5
  <2> QED
    BY <1>2, <1>3, <1>4, <1>8, <2>1 DEF NetInv
<1>12. ServerInv'
  <2>1. srv' = "decide"
    BY <1>1
  <2>2. ASSUME srvEnded', ~srvMore' PROVE TerminalRead'
    <3>1. b = Count /\ ended
      BY <1>1, <1>4, <2>2 DEF ServerInv
    <3>2. PICK n \in Seqs : log[n] = "terminal"
      BY <3>1 DEF LogInv
    <3>3. n <= Count
      BY <3>2, CommittedRange
    <3>4. n \in 1..srvCursor'
      BY <1>3, <1>5, <3>1, <3>3 DEF Seqs
    <3> QED
      BY <1>1, <3>2, <3>4 DEF TerminalRead, writeVars
  <2> QED
    BY <2>1, <2>2 DEF ServerInv
<1>13. MarksInv'
  BY <1>1 DEF MarksInv
<1> QED
  BY <1>2, <1>9, <1>10, <1>11, <1>12, <1>13

LEMMA DecideCloseStreamInv ==
  ASSUME StreamInv, DecideClose
  PROVE  StreamInv'
<1> USE DEF StreamInv
<1>1. /\ srv = "decide"
      /\ srv' = IF ~srvMore /\ srvEnded THEN "closed" ELSE "readRun"
      /\ UNCHANGED <<writeVars, srvCursor, srvEnded, srvMore, net, link, shown,
                     highest, delivered, pendingDeliveries, reported,
                     disturbances>>
  BY DEF DecideClose, EndedBeforePage, storeVars
<1>2. LogInv' /\ Count' = Count
  BY <1>1, LogKept
<1>3. TypeOK'
  BY <1>1 DEF TypeOK, writeVars
<1>4. StoreInv' /\ NetInv'
  BY <1>1, <1>2 DEF StoreInv, NetInv, writeVars
<1>5. ServerInv' /\ MarksInv'
  BY <1>1 DEF ServerInv, MarksInv, TerminalRead, writeVars
<1> QED
  BY <1>2, <1>3, <1>4, <1>5

-----------------------------------------------------------------------------
(* The client.                                                             *)

\* Whether the terminal event is in the store.
LEMMA StoredTerminal ==
  ASSUME StreamInv
  PROVE  StoreHasTerminal <=> \E i \in 1..highest : log[i] = "terminal"
<1> USE DEF StreamInv
<1>1. DOMAIN shown = 1..highest
  BY LenProperties DEF TypeOK, StoreInv
<1> QED
  BY <1>1 DEF StoreHasTerminal, StoreInv

\* The steps that only move the connection: all of them leave it closed.
LEMMA LinkStreamInv ==
  ASSUME StreamInv,
         link' \in {"off", "opening", "waiting", "refused", "done"},
         link' \in {"opening", "waiting"} =>
             \A i \in 1..highest : log[i] # "terminal",
         srv' = "none", net' = <<>> \/ net' = net,
         disturbances' \in 0..MaxDisturbances,
         UNCHANGED <<writeVars, srvCursor, srvEnded, srvMore, storeVars,
                     reported>>
  PROVE  StreamInv'
<1> USE DEF StreamInv
<1>1. LogInv' /\ Count' = Count
  BY LogKept
<1>2. TypeOK'
  <2>1. net' \in Seq(Seqs)
    BY EmptySeq DEF TypeOK
  <2> QED
    BY <2>1 DEF TypeOK, writeVars, storeVars
<1>3. StoreInv'
  BY <1>1 DEF StoreInv, writeVars, storeVars
<1>4. NetInv' /\ ServerInv' /\ MarksInv'
  BY DEF NetInv, ServerInv, MarksInv, storeVars
<1> QED
  BY <1>1, <1>2, <1>3, <1>4

LEMMA ConnectionStreamInv ==
  ASSUME StreamInv,
         \/ Connect \/ Dispose \/ OpenFailed \/ OpenRefused
         \/ ConnectionLost \/ Reconnect
  PROVE  StreamInv'
<1>1. disturbances' \in 0..MaxDisturbances
  BY BoundAssumption
  DEF StreamInv, TypeOK, Connect, Dispose, OpenFailed, OpenRefused,
      ConnectionLost, Reconnect, Disturb
<1>2. UNCHANGED <<writeVars, srvCursor, srvEnded, srvMore, storeVars, reported>>
  BY DEF Connect, Dispose, OpenFailed, OpenRefused, ConnectionLost, Reconnect,
     serverVars
<1>3. srv' = "none" /\ (net' = <<>> \/ net' = net)
  BY DEF StreamInv, NetInv, Connect, Dispose, OpenFailed, OpenRefused,
     ConnectionLost, Reconnect, Forget, serverVars
<1>4. CASE Connect
  <2>1. ~StoreHasTerminal => \A i \in 1..highest : log[i] # "terminal"
    BY StoredTerminal
  <2>2. link' = IF StoreHasTerminal THEN "done" ELSE "opening"
    BY <1>4 DEF Connect, KnownTerminal
  <2> QED
    BY <1>1, <1>2, <1>3, <2>1, <2>2, LinkStreamInv
<1>5. CASE Dispose \/ OpenRefused
  <2>1. link' \in {"off", "refused"}
    BY <1>5 DEF Dispose, OpenRefused
  <2> QED
    BY <1>1, <1>2, <1>3, <2>1, LinkStreamInv
<1>6. CASE OpenFailed \/ ConnectionLost \/ Reconnect
  <2>1. link' \in {"opening", "waiting"} /\ link \in {"opening", "open", "waiting"}
    BY <1>6 DEF OpenFailed, ConnectionLost, Reconnect
  <2>2. \A i \in 1..highest : log[i] # "terminal"
    BY <2>1 DEF StreamInv, StoreInv
  <2> QED
    BY <1>1, <1>2, <1>3, <2>1, <2>2, LinkStreamInv
<1> QED
  BY <1>4, <1>5, <1>6

LEMMA OpenAcceptedStreamInv ==
  ASSUME StreamInv, OpenAccepted
  PROVE  StreamInv'
<1> USE DEF StreamInv
<1>1. /\ link = "opening" /\ link' = "open" /\ srv' = "readRun"
      /\ srvCursor' = highest /\ net' = <<>>
      /\ UNCHANGED <<writeVars, srvEnded, srvMore, shown, highest, delivered,
                     pendingDeliveries, reported, disturbances>>
  BY DEF OpenAccepted, storeVars
<1>2. LogInv' /\ Count' = Count
  BY <1>1, LogKept
<1>3. net' \in Seq(Seqs) /\ Len(net') = 0
  BY <1>1, EmptySeq
<1>4. TypeOK'
  BY <1>1, <1>3 DEF TypeOK, writeVars
<1>5. StoreInv'
  BY <1>1, <1>2 DEF StoreInv, writeVars
<1>6. NetInv'
  <2>1. highest \in Nat /\ highest <= Count
    BY BoundAssumption DEF TypeOK, StoreInv
  <2> QED
    BY <1>1, <1>2, <1>3, <2>1 DEF NetInv
<1>7. ServerInv' /\ MarksInv'
  BY <1>1 DEF ServerInv, MarksInv
<1> QED
  BY <1>2, <1>4, <1>5, <1>6, <1>7

\* The first frame is the event behind those in the store, and is committed.
LEMMA HeadIsNext ==
  ASSUME StreamInv, link = "open", net # <<>>
  PROVE  /\ Head(net) = highest + 1
         /\ highest + 1 \in Seqs /\ highest + 1 <= srvCursor
         /\ highest + 1 <= Count
         /\ Tail(net) \in Seq(Seqs)
         /\ Len(Tail(net)) = srvCursor - (highest + 1)
         /\ \A i \in 1..Len(Tail(net)) : Tail(net)[i] = highest + 1 + i
<1> USE DEF StreamInv
<1>1. /\ net \in Seq(Seqs) /\ Len(net) = srvCursor - highest
      /\ \A i \in 1..Len(net) : net[i] = highest + i
      /\ highest \in Nat /\ srvCursor \in Nat /\ srvCursor <= Count
      /\ Count \in Nat /\ Count <= MaxEvents
  BY BoundAssumption, CommittedRange DEF NetInv, TypeOK
<1>2. Len(net) \in Nat \ {0}
  BY <1>1, EmptySeq
<1>3. Head(net) = net[1]
  BY <1>1
<1>4. Head(net) = highest + 1
  BY <1>1, <1>2, <1>3
<1>5. highest + 1 \in Seqs /\ highest + 1 <= srvCursor /\ highest + 1 <= Count
  BY <1>1, <1>2, BoundAssumption DEF Seqs
<1>6. /\ Tail(net) \in Seq(Seqs) /\ Len(Tail(net)) = Len(net) - 1
      /\ \A i \in 1..Len(Tail(net)) : Tail(net)[i] = net[i + 1]
  BY <1>1, HeadTailProperties
<1>7. \A i \in 1..Len(Tail(net)) : Tail(net)[i] = highest + 1 + i
  BY <1>1, <1>2, <1>6
<1> QED
  BY <1>1, <1>4, <1>5, <1>6, <1>7

\* What a frame does to the store.
LEMMA ReceiveStores ==
  ASSUME StreamInv, Receive
  PROVE  /\ link = "open" /\ net # <<>>
         /\ highest' = highest + 1
         /\ shown' = Append(shown, highest + 1)
         /\ delivered' = delivered \cup (pendingDeliveries \cap {highest + 1})
         /\ pendingDeliveries' = pendingDeliveries \ {highest + 1}
         /\ UNCHANGED <<writeVars, srvCursor, srvEnded, srvMore, reported,
                        disturbances>>
<1>1. /\ link = "open" /\ net # <<>> /\ AddEvent(Head(net))
      /\ UNCHANGED <<writeVars, srvCursor, srvEnded, srvMore, reported,
                     disturbances>>
  BY DEF Receive
<1>2. Head(net) = highest + 1 /\ highest \in Nat
  BY <1>1, HeadIsNext DEF StreamInv, TypeOK
<1>3. Head(net) > highest
  BY <1>2
<1> QED
  BY <1>1, <1>2, <1>3 DEF AddEvent

LEMMA ReceiveStreamInv ==
  ASSUME StreamInv, Receive
  PROVE  StreamInv'
<1> USE DEF StreamInv
<1> DEFINE n == highest + 1
<1>1. /\ link = "open" /\ net # <<>>
      /\ highest' = n /\ shown' = Append(shown, n)
      /\ delivered' = delivered \cup (pendingDeliveries \cap {n})
      /\ pendingDeliveries' = pendingDeliveries \ {n}
      /\ UNCHANGED <<writeVars, srvCursor, srvEnded, srvMore, reported,
                     disturbances>>
  BY ReceiveStores
<1>2. \/ link' = "done" /\ net' = <<>> /\ srv' = "none"
      \/ /\ ~StoreHasTerminal' /\ net' = Tail(net)
         /\ link' = link /\ srv' = srv
  BY DEF Receive, Forget
<1>3. /\ n \in Seqs /\ n <= srvCursor /\ n <= Count
      /\ Tail(net) \in Seq(Seqs)
      /\ Len(Tail(net)) = srvCursor - n
      /\ \A i \in 1..Len(Tail(net)) : Tail(net)[i] = n + i
  BY <1>1, HeadIsNext
<1>4. LogInv' /\ Count' = Count
  BY <1>1, LogKept
<1>5. /\ shown' \in Seq(Seqs) /\ Len(shown') = n
      /\ \A i \in 1..n : shown'[i] = i
  <2>1. /\ shown \in Seq(Seqs) /\ Len(shown) = highest /\ highest \in Nat
        /\ \A i \in 1..highest : shown[i] = i
    BY DEF TypeOK, StoreInv
  <2>2. /\ shown' \in Seq(Seqs) /\ Len(shown') = Len(shown) + 1
        /\ \A i \in 1..Len(shown) : shown'[i] = shown[i]
        /\ shown'[Len(shown) + 1] = n
    BY <1>1, <1>3, <2>1, AppendProperties
  <2>3. ASSUME NEW i \in 1..n PROVE shown'[i] = i
    <3>1. CASE i = n
      BY <2>1, <2>2, <3>1
    <3>2. CASE i # n
      <4>1. i \in 1..highest
        BY <2>1, <3>2
      <4> QED
        BY <2>1, <2>2, <4>1
    <3> QED
      BY <3>1, <3>2
  <2> QED
    BY <2>1, <2>2, <2>3
<1>6. TypeOK'
  <2>1. net' \in Seq(Seqs)
    BY <1>2, <1>3, EmptySeq
  <2>2. /\ link' \in {"off", "opening", "open", "waiting", "refused", "done"}
        /\ srv' \in {"none", "readRun", "readPage", "decide", "closed"}
    BY <1>2 DEF TypeOK
  <2>3. highest' \in 0..MaxEvents
    BY <1>1, <1>3 DEF Seqs
  <2> QED
    BY <1>1, <1>3, <1>5, <2>1, <2>2, <2>3 DEF TypeOK, writeVars
<1>7. ~StoreHasTerminal' => \A i \in 1..n : log[i] # "terminal"
  <2>1. DOMAIN shown' = 1..n
    BY <1>5, LenProperties
  <2> QED
    BY <1>1, <1>5, <2>1 DEF StoreHasTerminal, writeVars
<1>8. StoreInv'
  BY <1>1, <1>2, <1>3, <1>4, <1>5, <1>7 DEF StoreInv, writeVars
<1>9. NetInv'
  <2>1. srvCursor <= Count
    BY <1>1 DEF NetInv
  <2> QED
    BY <1>1, <1>2, <1>3, <1>4, <2>1 DEF NetInv
<1>10. ServerInv'
  <2>1. TerminalRead' = TerminalRead
    BY <1>1 DEF TerminalRead, writeVars
  <2> QED
    BY <1>1, <1>2, <2>1 DEF ServerInv, writeVars
<1>11. MarksInv'
  <2>1. ASSUME NEW m \in pendingDeliveries' PROVE m > n
    <3>1. m > highest /\ m # n /\ m \in Nat /\ highest \in Nat
      BY <1>1, <2>1 DEF MarksInv, TypeOK, Seqs
    <3> QED
      BY <3>1
  <2> QED
    BY <1>1, <2>1 DEF MarksInv
<1> QED
  BY <1>4, <1>6, <1>8, <1>9, <1>10, <1>11

LEMMA DeliveryReportedStreamInv ==
  ASSUME StreamInv, NEW n \in Seqs, DeliveryReported(n)
  PROVE  StreamInv'
<1> USE DEF StreamInv
<1>1. /\ reported' = reported \cup {n}
      /\ MarkDelivered(n)
      /\ UNCHANGED <<writeVars, serverVars, net, link, shown, highest,
                     disturbances>>
  BY DEF DeliveryReported
<1>2. LogInv' /\ Count' = Count
  BY <1>1, LogKept
<1>3. (\E i \in DOMAIN shown : shown[i] = n) <=> n <= highest
  <2>1. DOMAIN shown = 1..highest /\ \A i \in 1..highest : shown[i] = i
    BY LenProperties DEF TypeOK, StoreInv
  <2>2. n \in Nat /\ n >= 1 /\ highest \in Nat
    BY BoundAssumption DEF TypeOK, Seqs
  <2> QED
    BY <2>1, <2>2
<1>4. \/ /\ n <= highest /\ delivered' = delivered \cup {n}
         /\ pendingDeliveries' = pendingDeliveries
      \/ /\ n > highest /\ delivered' = delivered
         /\ pendingDeliveries' = pendingDeliveries \cup {n}
  <2>1. n \in Nat /\ highest \in Nat
    BY BoundAssumption DEF TypeOK, Seqs
  <2> QED
    BY <1>1, <1>3, <2>1 DEF MarkDelivered
<1>5. TypeOK'
  BY <1>1, <1>4 DEF TypeOK, writeVars, serverVars
<1>6. StoreInv' /\ NetInv'
  BY <1>1, <1>2 DEF StoreInv, NetInv, writeVars, serverVars
<1>7. ServerInv'
  BY <1>1 DEF ServerInv, TerminalRead, writeVars, serverVars
<1>8. MarksInv'
  BY <1>1, <1>4 DEF MarksInv
<1> QED
  BY <1>2, <1>5, <1>6, <1>7, <1>8

LEMMA NextStreamInv == StreamInv /\ [Next]_vars => StreamInv'
<1> SUFFICES ASSUME StreamInv, [Next]_vars PROVE StreamInv'
  OBVIOUS
<1>1. CASE UNCHANGED vars
  <2>1. LogInv' /\ Count' = Count
    BY <1>1, LogKept DEF vars
  <2>2. TypeOK' /\ StoreInv' /\ NetInv' /\ ServerInv' /\ MarksInv'
    BY <1>1, <2>1 DEF vars, writeVars, serverVars, storeVars, StreamInv, TypeOK,
       StoreInv, NetInv, ServerInv, MarksInv, TerminalRead
  <2> QED
    BY <2>1, <2>2 DEF StreamInv
<1>2. ASSUME NEW w \in Writers, NEW kind \in Kinds, BeginAppend(w, kind)
      PROVE  StreamInv'
  BY <1>2, BeginAppendStreamInv
<1>3. ASSUME NEW w \in Writers, CommitAppend(w) \/ RollbackAppend(w)
      PROVE  StreamInv'
  BY <1>3, CommitAppendStreamInv, RollbackAppendStreamInv
<1>4. CASE Server
  BY <1>4, ReadRunStreamInv, ReadPageStreamInv, DecideCloseStreamInv DEF Server
<1>5. CASE \/ Connect \/ Dispose \/ OpenFailed \/ OpenRefused
           \/ ConnectionLost \/ Reconnect
  BY <1>5, ConnectionStreamInv
<1>6. CASE OpenAccepted \/ Receive
  BY <1>6, OpenAcceptedStreamInv, ReceiveStreamInv
<1>7. ASSUME NEW n \in Seqs, DeliveryReported(n) PROVE StreamInv'
  BY <1>7, DeliveryReportedStreamInv
<1> QED
  BY <1>1, <1>2, <1>3, <1>4, <1>5, <1>6, <1>7 DEF Next, Client, Trouble, Quiet

-----------------------------------------------------------------------------
\* The inductive invariant of the log, the stream and the store.
THEOREM StreamInvariantHolds == Spec => []StreamInv
<1>1. Init => StreamInv
  BY InitStreamInv
<1>2. StreamInv /\ [Next]_vars => StreamInv'
  BY NextStreamInv
<1> QED
  BY <1>1, <1>2, PTL DEF Spec

\* append_run_event: no reader can ever see a hole in the log.
THEOREM NoHolesHolds == Spec => []NoHoles
<1>1. StreamInv => NoHoles
  BY DEF StreamInv, LogInv
<1> QED
  BY <1>1, StreamInvariantHolds, PTL

\* streamRunEvents: a stream that was closed by the server has carried the
\* terminal event, wherever the appends fell between its two queries.
THEOREM ClosedAfterTerminalHolds == Spec => []ClosedAfterTerminal
<1>1. StreamInv => ClosedAfterTerminal
  BY DEF StreamInv, ServerInv, TerminalRead, ClosedAfterTerminal
<1> QED
  BY <1>1, StreamInvariantHolds, PTL

\* markMatrixDelivered and addEvent: a report that overtakes its event is kept.
THEOREM ReportsKeptHolds == Spec => []ReportsKept
<1>1. StreamInv => ReportsKept
  <2> SUFFICES ASSUME StreamInv, NEW i \in DOMAIN shown, shown[i] \in reported
               PROVE  shown[i] \in delivered
    BY DEF ReportsKept
  <2>1. DOMAIN shown = 1..highest /\ shown[i] = i /\ highest \in Nat
    BY LenProperties DEF StreamInv, TypeOK, StoreInv
  <2>2. i <= highest /\ i \in Nat
    BY <2>1
  <2> QED
    BY <2>1, <2>2 DEF StreamInv, MarksInv
<1> QED
  BY <1>1, StreamInvariantHolds, PTL

-----------------------------------------------------------------------------
(* Refinement.                                                             *)

\* The log and the store as RunFeed sees them.
Published == [n \in 1..Count |-> log[n]]

Displayed == [i \in 1..Len(shown) |-> log[shown[i]]]

LEMMA KindsSeq ==
  ASSUME NEW k \in Nat, NEW f, \A n \in 1..k : f[n] \in Kinds
  PROVE  /\ [n \in 1..k |-> f[n]] \in Seq(Kinds)
         /\ Len([n \in 1..k |-> f[n]]) = k
         /\ \A m \in 1..k : [n \in 1..k |-> f[n]][m] = f[m]
OBVIOUS

LEMMA PublishedIsSeq ==
  ASSUME StreamInv
  PROVE  /\ Published \in Seq(Kinds) /\ Len(Published) = Count
         /\ \A n \in 1..Count : Published[n] = log[n]
<1>1. Count \in Nat /\ \A n \in 1..Count : n \in Seqs /\ log[n] # "none"
  BY CommittedRange
<1>2. \A n \in 1..Count : log[n] \in Kinds
  BY <1>1 DEF StreamInv, TypeOK
<1> QED
  BY <1>1, <1>2 DEF Published

LEMMA DisplayedIsSeq ==
  ASSUME StreamInv
  PROVE  /\ Displayed \in Seq(Kinds) /\ Len(Displayed) = highest
         /\ \A i \in 1..highest : Displayed[i] = log[i]
<1>1. /\ highest \in Nat /\ highest <= Count /\ Len(shown) = highest
      /\ \A i \in 1..highest : shown[i] = i
  BY BoundAssumption DEF StreamInv, TypeOK, StoreInv
<1>2. Count \in Nat /\ \A n \in 1..Count : n \in Seqs /\ log[n] # "none"
  BY CommittedRange
<1>3. \A i \in 1..highest : log[shown[i]] = log[i] /\ log[i] \in Kinds
  BY <1>1, <1>2 DEF StreamInv, TypeOK
<1> QED
  BY <1>1, <1>3 DEF Displayed

LEMMA CommitPublishes ==
  ASSUME StreamInv, StreamInv', NEW w \in Writers, CommitAppend(w)
  PROVE  /\ txKind[w] \in Kinds
         /\ txKind[w] = "terminal" => \A n \in 1..Count : log[n] # "terminal"
         /\ Published' = Append(Published, txKind[w])
         /\ Displayed' = Displayed
<1>1. /\ Count + 1 \in Seqs /\ Count' = Count + 1
      /\ log' = [log EXCEPT ![Count + 1] = txKind[w]]
      /\ (txKind[w] = "terminal" => ~ended)
  BY CommitGrows
<1>2. /\ Count \in Nat /\ \A n \in 1..Count : n \in Seqs
      /\ txKind[w] \in Kinds
      /\ highest \in Nat /\ highest <= Count /\ shown' = shown /\ highest' = highest
  BY CommittedRange, BoundAssumption
  DEF CommitAppend, StreamInv, TypeOK, StoreInv, storeVars
<1>3. txKind[w] = "terminal" => \A n \in 1..Count : log[n] # "terminal"
  BY <1>1, <1>2 DEF StreamInv, LogInv
<1>4. /\ \A n \in 1..Count : log'[n] = log[n]
      /\ log'[Count + 1] = txKind[w]
  BY <1>1, <1>2 DEF StreamInv, TypeOK
<1>5. Published' = Append(Published, txKind[w])
  <2>1. /\ Published \in Seq(Kinds) /\ Len(Published) = Count
        /\ \A n \in 1..Count : Published[n] = log[n]
    BY PublishedIsSeq
  <2>2. /\ Published' \in Seq(Kinds) /\ Len(Published') = Count + 1
        /\ \A n \in 1..Count + 1 : Published'[n] = log'[n]
    <3>1. \A n \in 1..Count + 1 : log'[n] \in Kinds
      <4>1. \A n \in 1..Count : log[n] \in Kinds
        BY <2>1, ElementOfSeq
      <4> QED
        BY <1>2, <1>4, <4>1
    <3>2. Published' = [n \in 1..Count + 1 |-> log'[n]]
      BY <1>1 DEF Published
    <3>3. Count + 1 \in Nat
      BY <1>2
    <3> QED
      BY <3>1, <3>2, <3>3, KindsSeq
  <2> DEFINE longer == Append(Published, txKind[w])
  <2>3. /\ longer \in Seq(Kinds) /\ Len(longer) = Count + 1
        /\ \A n \in 1..Count : longer[n] = Published[n]
        /\ longer[Count + 1] = txKind[w]
    BY <1>2, <2>1, AppendProperties
  <2>4. ASSUME NEW n \in 1..Count + 1 PROVE Published'[n] = longer[n]
    <3>1. CASE n = Count + 1
      BY <1>4, <2>2, <2>3, <3>1
    <3>2. CASE n # Count + 1
      <4>1. n \in 1..Count
        BY <1>2, <3>2
      <4> QED
        BY <1>4, <2>1, <2>2, <2>3, <4>1
    <3> QED
      BY <3>1, <3>2
  <2> HIDE DEF longer
  <2>5. Published' = longer
    BY <2>2, <2>3, <2>4, SeqEqual
  <2> QED
    BY <2>5 DEF longer
<1>6. Displayed' = Displayed
  <2>1. /\ Len(shown) = highest /\ \A i \in 1..highest : shown[i] = i
    BY DEF StreamInv, StoreInv
  <2>2. \A i \in 1..highest : log'[shown[i]] = log[shown[i]]
    BY <1>2, <1>4, <2>1
  <2> QED
    BY <1>2, <2>1, <2>2 DEF Displayed
<1> QED
  BY <1>2, <1>3, <1>5, <1>6

LEMMA ReceiveDisplays ==
  ASSUME StreamInv, Receive
  PROVE  /\ Len(Displayed) < Len(Published)
         /\ \A i \in 1..Len(Displayed) : Displayed[i] # "terminal"
         /\ Displayed' = Append(Displayed, Published[Len(Displayed) + 1])
         /\ Published' = Published
<1> USE DEF StreamInv
<1>1. /\ link = "open" /\ net # <<>>
      /\ shown' = Append(shown, highest + 1) /\ highest' = highest + 1
      /\ UNCHANGED writeVars
  BY ReceiveStores
<1>2. highest + 1 \in Seqs /\ highest + 1 <= Count /\ highest \in Nat
  BY <1>1, HeadIsNext DEF TypeOK
<1>3. /\ Published \in Seq(Kinds) /\ Len(Published) = Count
      /\ \A n \in 1..Count : Published[n] = log[n]
  BY PublishedIsSeq
<1>4. /\ Displayed \in Seq(Kinds) /\ Len(Displayed) = highest
      /\ \A i \in 1..highest : Displayed[i] = log[i]
  BY DisplayedIsSeq
<1>5. \A i \in 1..highest : log[i] # "terminal"
  BY <1>1 DEF StoreInv
<1>6. Published' = Published
  <2>1. Count' = Count /\ log' = log
    BY <1>1, LogKept DEF writeVars
  <2> QED
    BY <2>1 DEF Published
<1>7. Published[highest + 1] = log[highest + 1] /\ log[highest + 1] \in Kinds
  BY <1>2, <1>3, CommittedRange DEF TypeOK
<1>8. Displayed' = Append(Displayed, log[highest + 1])
  <2>1. /\ log' = log /\ Len(shown') = highest + 1
        /\ \A i \in 1..highest + 1 : shown'[i] = i
    <3>1. StreamInv'
      BY ReceiveStreamInv
    <3> QED
      BY <1>1, <3>1 DEF StoreInv, writeVars
  <2>2. /\ Displayed' \in Seq(Kinds) /\ Len(Displayed') = highest + 1
        /\ \A i \in 1..highest + 1 : Displayed'[i] = log'[i]
    <3>1. \A i \in 1..highest + 1 : log[i] \in Kinds
      <4>1. \A i \in 1..Count : log[i] \in Kinds
        BY <1>3, ElementOfSeq
      <4> QED
        BY <1>2, <4>1, CommittedRange
    <3>2. Displayed' = [i \in 1..highest + 1 |-> log[shown'[i]]]
      BY <2>1 DEF Displayed
    <3>3. Displayed' = [i \in 1..highest + 1 |-> log[i]]
      BY <2>1, <3>2
    <3>4. highest + 1 \in Nat
      BY <1>2
    <3> QED
      BY <2>1, <3>1, <3>3, <3>4, KindsSeq
  <2> DEFINE longer == Append(Displayed, log[highest + 1])
  <2>3. /\ longer \in Seq(Kinds) /\ Len(longer) = highest + 1
        /\ \A i \in 1..highest : longer[i] = Displayed[i]
        /\ longer[highest + 1] = log[highest + 1]
    BY <1>4, <1>7, AppendProperties
  <2>4. ASSUME NEW i \in 1..highest + 1 PROVE Displayed'[i] = longer[i]
    <3>1. log' = log
      BY <1>1 DEF writeVars
    <3>2. CASE i = highest + 1
      BY <2>2, <2>3, <3>1, <3>2
    <3>3. CASE i # highest + 1
      <4>1. i \in 1..highest
        BY <1>2, <3>3
      <4> QED
        BY <1>4, <2>2, <2>3, <3>1, <4>1
    <3> QED
      BY <3>2, <3>3
  <2> HIDE DEF longer
  <2>5. Displayed' = longer
    BY <2>2, <2>3, <2>4, SeqEqual
  <2> QED
    BY <2>5 DEF longer
<1> QED
  BY <1>2, <1>3, <1>4, <1>5, <1>6, <1>7, <1>8

\* Row locks, pages, broken connections and reconnects implement RunFeed: the
\* reader is shown the log in order, without holes, up to the terminal event.
THEOREM ImplementsFeed == Spec => FeedSpec
<1>1. Init => Feed!Init
  <2> SUFFICES ASSUME Init PROVE Feed!Init
    OBVIOUS
  <2>1. Committed = {} /\ shown = <<>>
    BY DEF Init, Committed
  <2>2. Cardinality(Committed) = 0 /\ Len(shown) = 0
    BY <2>1, FS_EmptySet
  <2> QED
    BY <2>2 DEF Feed!Init
<1>2. StreamInv /\ StreamInv' /\ [Next]_vars => [Feed!Next]_(Feed!vars)
  <2> SUFFICES ASSUME StreamInv, StreamInv', [Next]_vars
               PROVE  Feed!Next \/ UNCHANGED Feed!vars
    OBVIOUS
  <2>1. CASE UNCHANGED <<log, shown>>
    BY <2>1 DEF Feed!vars, Committed
  <2>2. ASSUME NEW w \in Writers, CommitAppend(w) PROVE Feed!Next
    <3>1. PICK kind \in Kinds :
              /\ kind = "terminal" => \A n \in 1..Count : log[n] # "terminal"
              /\ Published' = Append(Published, kind)
              /\ Displayed' = Displayed
      BY <2>2, CommitPublishes
    <3>2. kind = "terminal"
              => ~(\E i \in DOMAIN Published : Published[i] = "terminal")
      <4>1. DOMAIN Published = 1..Count
        BY DEF Published
      <4> QED
        BY <3>1, <4>1 DEF Published
    <3>3. Feed!Publish(kind)
      BY <3>1, <3>2 DEF Feed!Publish, Feed!Contains, Published, Displayed, Count
    <3>4. kind \in Feed!Kinds
      BY <3>1 DEF Feed!Kinds, Kinds
    <3> QED
      BY <3>3, <3>4 DEF Feed!Next
  <2>3. CASE Receive
    <3>1. /\ Len(Displayed) < Len(Published)
          /\ \A i \in 1..Len(Displayed) : Displayed[i] # "terminal"
          /\ Displayed' = Append(Displayed, Published[Len(Displayed) + 1])
          /\ Published' = Published
          /\ DOMAIN Displayed = 1..Len(Displayed)
      BY <2>3, ReceiveDisplays, DisplayedIsSeq, LenProperties
    <3>2. Feed!Show
      BY <3>1 DEF Feed!Show, Feed!Contains, Published, Displayed, Count
    <3> QED
      BY <3>2 DEF Feed!Next
  <2>4. ASSUME NEW w \in Writers, NEW kind \in Kinds, BeginAppend(w, kind)
        PROVE  UNCHANGED <<log, shown>>
    BY <2>4 DEF BeginAppend, storeVars
  <2>5. CASE Server
    BY <2>1, <2>5 DEF Server, ReadRun, ReadPage, DecideClose, writeVars, storeVars
  <2>6. CASE \/ Connect \/ OpenAccepted \/ Reconnect \/ Dispose \/ OpenFailed
             \/ OpenRefused \/ ConnectionLost
    BY <2>1, <2>6 DEF Connect, OpenAccepted, Reconnect, Dispose, OpenFailed,
       OpenRefused, ConnectionLost, writeVars, storeVars
  <2>7. ASSUME NEW n \in Seqs, DeliveryReported(n) PROVE UNCHANGED <<log, shown>>
    BY <2>7 DEF DeliveryReported, writeVars
  <2>8. CASE UNCHANGED vars
    BY <2>1, <2>8 DEF vars, writeVars, storeVars
  <2>9. ASSUME NEW w \in Writers, RollbackAppend(w) PROVE UNCHANGED <<log, shown>>
    BY <2>9 DEF RollbackAppend, storeVars
  <2> QED
    BY <2>1, <2>2, <2>3, <2>4, <2>5, <2>6, <2>7, <2>8, <2>9
    DEF Next, Client, Trouble, Quiet
<1> QED
  BY <1>1, <1>2, StreamInvariantHolds, PTL DEF Spec, FeedSpec, Feed!Spec

=============================================================================

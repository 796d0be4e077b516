------------------------ MODULE GithubWorkspaceProofs ------------------------
(***************************************************************************)
(* Theorems about GithubWorkspace, for every number of attempts, faults    *)
(* and changes and all contents of the form.                               *)
(***************************************************************************)
EXTENDS GithubWorkspace, TLAPS

-----------------------------------------------------------------------------
(* The invariant.                                                          *)

Unsent == {"approve", "enqueue"}
Owning == {"recheck", "call", "settle"}
Positions == {"unused", "done", "find", "gate", "insert"} \cup Unsent \cup Owning

Numbers == 0..MaxAttempts
Jobs == [content : Contents \cup {Nothing}, key : Numbers, approval : Numbers]
Told == {"succeeded", "duplicate"}
Results == {"idle", "submitting", "denied", "expired", "failed"} \cup Told

TypeOK ==
    /\ content \in Contents \cup {Nothing}
    /\ reviewing \in BOOLEAN
    /\ shown \in Results
    /\ pending \in Jobs
    /\ waiting \in Numbers
    /\ pc \in [Attempts -> Positions]
    /\ job \in [Attempts -> Jobs]
    /\ status \in [Keys -> {"none", "queued", "completed", "failed"}]
    /\ ordered \in [Keys -> Contents \cup {Nothing}]
    /\ intent \in [Attempts -> Numbers]
    /\ applied \in [Attempts -> Nat]
    /\ attempts \in Numbers

Began == 1..attempts

\* An attempt carries what was on the form, the key it drew or that of an
\* earlier attempt, and belongs to an intent that began no later.
AttemptInv ==
    /\ \A n \in Attempts : n \in Began <=> pc[n] # "unused"
    /\ \A n \in Attempts : n \notin Began => job[n].key = 0
    /\ \A n \in Began :
           /\ job[n].content # Nothing
           /\ job[n].key \in 1..n
           /\ intent[n] \in 1..n

\* A key stands for one content: of the attempts that carry it, of the ref,
\* and of the command that was stored under it.
KeyInv ==
    /\ \A m, n \in Began :
           job[m].key = job[n].key => job[m].content = job[n].content
    /\ \/ pending.key = 0 /\ pending.content = Nothing
       \/ \E n \in Began : pending.key = job[n].key /\ pending.content = job[n].content
    /\ \A k \in Keys :
           status[k] # "none" =>
               /\ k \in Began
               /\ \A n \in Began : job[n].key = k => ordered[k] = job[n].content

\* What the screen waits for is its last attempt, for the content under review;
\* a result that names a command is about the pending one.
ScreenInv ==
    /\ reviewing => content # Nothing
    /\ waiting # 0 =>
           /\ reviewing /\ shown = "submitting"
           /\ waiting = attempts
           /\ pc[waiting] \notin {"unused", "done"}
           /\ job[waiting].content = content /\ lastContent = content
           /\ pc[waiting] \notin Unsent =>
                 pending.key = job[waiting].key /\ pending.content = content
    /\ reviewing /\ shown \in Told =>
           /\ commandId = pending.key
           /\ pending.content = content
           /\ lastContent = content
           /\ commandId \in Keys
           /\ status[commandId] # "none"
    /\ reviewing /\ shown = "succeeded" => applied[intent[attempts]] = 1

\* The request that stored the command is the only one to work on it.
OwnerInv ==
    /\ \A n \in Attempts : pc[n] \in Owning => status[job[n].key] = "queued"
    /\ \A m, n \in Attempts :
           pc[m] \in Owning /\ pc[n] \in Owning /\ job[m].key = job[n].key => m = n

\* An attempt that drew a key nobody else has seen.
Fresh(n) ==
    /\ job[n].key = n
    /\ status[n] = "none"
    /\ pending.key # n
    /\ \A m \in Attempts : job[m].key = n => m = n

\* It was lost before its command was sent.
Dead(n) == pc[n] = "done" /\ Fresh(n)

\* The attempts of one intent that reach the command route carry one key.
IntentInv ==
    \A m, n \in Began :
        intent[m] = intent[n] =>
            job[m].key = job[n].key \/ Dead(m) \/ Dead(n)

Current == {m \in Began : intent[m] = intent[attempts]}

\* The next attempt of the current intent will carry that key: it is the
\* pending one, or none was sent.
CurrentInv ==
    lastContent # Nothing =>
        /\ attempts # 0
        /\ pending.content = lastContent =>
               \A n \in Current : job[n].key = pending.key \/ Dead(n)
        /\ pending.content # lastContent =>
               \A n \in Current :
                   \/ Dead(n)
                   \/ waiting = n /\ pc[n] \in Unsent /\ Fresh(n)

\* An effect was caused under a key whose command no request can call again.
Spent(k) ==
    /\ status[k] # "none"
    /\ \A n \in Attempts : job[n].key = k => pc[n] \notin {"recheck", "call"}

EffectInv ==
    /\ \A i \in Attempts : applied[i] \in {0, 1}
    /\ \A i \in Attempts :
           applied[i] = 1 =>
               \E n \in Began : intent[n] = i /\ Spent(job[n].key)
    /\ \A n \in Attempts : pc[n] = "settle" => applied[intent[n]] = 1

WorkspaceInv ==
    /\ TypeOK
    /\ AttemptInv
    /\ KeyInv
    /\ ScreenInv
    /\ OwnerInv
    /\ IntentInv
    /\ CurrentInv
    /\ EffectInv

-----------------------------------------------------------------------------
LEMMA InitWorkspaceInv == Init => WorkspaceInv
<1> SUFFICES ASSUME Init PROVE WorkspaceInv
  OBVIOUS
<1>1. TypeOK
  <2>1. 0 \in Numbers
    BY BoundAssumption DEF Numbers
  <2>2. pending \in Jobs
    BY <2>1 DEF Init, Jobs
  <2> QED
    BY <2>1, <2>2 DEF Init, TypeOK, Positions, Results
<1>2. AttemptInv /\ KeyInv
  BY DEF Init, AttemptInv, KeyInv, Began, Attempts, Keys
<1>3. ScreenInv /\ OwnerInv
  BY DEF Init, ScreenInv, OwnerInv, Owning
<1>4. IntentInv /\ CurrentInv
  BY DEF Init, IntentInv, CurrentInv, Began
<1>5. EffectInv
  BY DEF Init, EffectInv
<1> QED
  BY <1>1, <1>2, <1>3, <1>4, <1>5 DEF WorkspaceInv

-----------------------------------------------------------------------------
(* The kinds of steps.                                                     *)

core == <<pending, pc, job, status, ordered, intent, applied, lastContent,
          attempts>>

\* Began is a set of attempts, and a key that was drawn belongs to one.
LEMMA Drawn ==
  ASSUME TypeOK, AttemptInv
  PROVE  /\ attempts \in Nat /\ MaxAttempts \in Nat /\ attempts <= MaxAttempts
         /\ Began \subseteq Attempts
         /\ \A n \in Began : job[n].key \in Keys /\ intent[n] \in Attempts
BY BoundAssumption DEF TypeOK, AttemptInv, Began, Attempts, Keys, Numbers

LEMMA Moved ==
  ASSUME TypeOK, NEW n \in Attempts, NEW p \in Positions, Goto(n, p)
  PROVE  /\ pc' \in [Attempts -> Positions]
         /\ pc'[n] = p
         /\ \A m \in Attempts : m # n => pc'[m] = pc[m]
BY DEF TypeOK, Goto

\* Steps that leave the form, the report and the attempts alone.
LEMMA QuietStep ==
  ASSUME WorkspaceInv, UNCHANGED <<content, reviewing, report, core>>
  PROVE  WorkspaceInv'
<1>1. TypeOK'
  BY DEF WorkspaceInv, TypeOK, report, core
<1>2. AttemptInv' /\ KeyInv'
  BY DEF WorkspaceInv, AttemptInv, KeyInv, Began, core
<1>3. ScreenInv' /\ OwnerInv'
  BY DEF WorkspaceInv, ScreenInv, OwnerInv, report, core
<1>4. IntentInv' /\ CurrentInv'
  BY DEF WorkspaceInv, IntentInv, CurrentInv, Current, Dead, Fresh, Began,
         report, core
<1>5. EffectInv'
  BY DEF WorkspaceInv, EffectInv, Spent, Began, core
<1> QED
  BY <1>1, <1>2, <1>3, <1>4, <1>5 DEF WorkspaceInv

\* Steps that leave the attempts alone.
LEMMA FormStep ==
  ASSUME WorkspaceInv, UNCHANGED <<waiting, core>>, TypeOK', ScreenInv'
  PROVE  WorkspaceInv'
<1>2. AttemptInv' /\ KeyInv'
  BY DEF WorkspaceInv, AttemptInv, KeyInv, Began, core
<1>3. OwnerInv'
  BY DEF WorkspaceInv, OwnerInv, core
<1>4. IntentInv' /\ CurrentInv'
  BY DEF WorkspaceInv, IntentInv, CurrentInv, Current, Dead, Fresh, Began, core
<1>5. EffectInv'
  BY DEF WorkspaceInv, EffectInv, Spent, Began, core
<1> QED
  BY <1>2, <1>3, <1>4, <1>5 DEF WorkspaceInv

LEMMA EditStep ==
  ASSUME WorkspaceInv, NEW c \in Contents, Edit(c)
  PROVE  WorkspaceInv'
<1>1. UNCHANGED <<reviewing, report, core>> /\ ~reviewing /\ content' = c
  BY DEF Edit, report, server, ghost, bounds, core
<1>2. TypeOK'
  BY <1>1 DEF WorkspaceInv, TypeOK, report, core
<1>3. ScreenInv'
  BY <1>1 DEF WorkspaceInv, ScreenInv, report, core
<1> QED
  BY <1>1, <1>2, <1>3, FormStep DEF report

LEMMA ReviewStep ==
  ASSUME WorkspaceInv, Review
  PROVE  WorkspaceInv'
<1>1. /\ UNCHANGED <<content, waiting, core>>
      /\ content # Nothing /\ ~reviewing
      /\ reviewing' = TRUE /\ shown' = "idle"
  BY DEF Review, server, ghost, bounds, core
<1>2. TypeOK'
  BY <1>1 DEF WorkspaceInv, TypeOK, Results, core
<1>3. ScreenInv'
  BY <1>1 DEF WorkspaceInv, ScreenInv, Told, core
<1> QED
  BY <1>1, <1>2, <1>3, FormStep

LEMMA DismissStep ==
  ASSUME WorkspaceInv, Dismiss
  PROVE  WorkspaceInv'
<1>1. /\ UNCHANGED <<content, report, core>>
      /\ shown # "submitting" /\ reviewing' = FALSE
  BY DEF Dismiss, server, ghost, bounds, core
<1>2. TypeOK'
  BY <1>1 DEF WorkspaceInv, TypeOK, report, core
<1>3. ScreenInv'
  BY <1>1 DEF WorkspaceInv, ScreenInv, report, core
<1> QED
  BY <1>1, <1>2, <1>3, FormStep DEF report

LEMMA ReopenStep ==
  ASSUME WorkspaceInv, Reopen
  PROVE  WorkspaceInv'
<1>1. /\ UNCHANGED <<pc, job, status, ordered, intent, applied, attempts>>
      /\ reviewing' = FALSE /\ waiting' = 0 /\ shown' = "idle"
      /\ content' = Nothing /\ lastContent' = Nothing
      /\ pending' = [content |-> Nothing, key |-> 0, approval |-> 0]
  BY DEF Reopen, server, bounds
<1>2. TypeOK'
  <2>1. pending' \in Jobs /\ waiting' \in Numbers
    BY <1>1, BoundAssumption DEF Jobs, Numbers
  <2> QED
    BY <1>1, <2>1 DEF WorkspaceInv, TypeOK, Results
<1>3. AttemptInv' /\ KeyInv'
  BY <1>1 DEF WorkspaceInv, AttemptInv, KeyInv, Began
<1>4. ScreenInv' /\ OwnerInv'
  BY <1>1 DEF WorkspaceInv, ScreenInv, OwnerInv
<1>5. \A n \in Attempts : Fresh(n) => Fresh(n)'
  BY <1>1 DEF Fresh, Attempts
<1>6. IntentInv' /\ CurrentInv'
  <2>1. Began \subseteq Attempts
    BY Drawn DEF WorkspaceInv
  <2> QED
    BY <1>1, <1>5, <2>1 DEF WorkspaceInv, IntentInv, CurrentInv, Dead, Began
<1>7. EffectInv'
  BY <1>1 DEF WorkspaceInv, EffectInv, Spent, Began
<1> QED
  BY <1>2, <1>3, <1>4, <1>6, <1>7 DEF WorkspaceInv

-----------------------------------------------------------------------------
(* Confirmations.                                                          *)

\* The key an attempt begins with is that of the pending mutation, which was
\* for this content, or nobody has seen it.
BeginsWith(n, p, k) ==
    /\ n \in Attempts
    /\ reviewing /\ waiting = 0
    /\ \E a : Begin(n, p, k, a) /\ a \in Numbers
    /\ p \in {"approve", "find"}
    /\ pending.content = content => k = pending.key
    /\ pending.content # content => k = n /\ p = "approve"
    /\ UNCHANGED <<form, pending, status, ordered, applied>>

LEMMA ConfirmBegins ==
  ASSUME WorkspaceInv, NEW n \in Attempts, Confirm(n)
  PROVE  BeginsWith(n, "approve", KeyFor(n))
<1>1. reviewing /\ waiting = 0
  BY DEF Confirm, WorkspaceInv, ScreenInv
<1>2. n \in Numbers
  BY BoundAssumption DEF Attempts, Numbers
<1> QED
  BY <1>1, <1>2 DEF Confirm, BeginsWith, KeyFor, server

LEMMA VerifyBegins ==
  ASSUME WorkspaceInv, NEW n \in Attempts, Verify(n)
  PROVE  BeginsWith(n, "find", pending.key)
<1>1. reviewing /\ waiting = 0 /\ pending.content = content
  BY DEF Verify, WorkspaceInv, ScreenInv, Told
<1>2. pending.approval \in Numbers
  BY DEF WorkspaceInv, TypeOK, Jobs
<1> QED
  BY <1>1, <1>2 DEF Verify, BeginsWith, server

LEMMA BeginStep ==
  ASSUME WorkspaceInv, NEW n, NEW p, NEW k, BeginsWith(n, p, k)
  PROVE  WorkspaceInv'
<1>1. PICK a \in Numbers : Begin(n, p, k, a)
  BY DEF BeginsWith
<1>2. /\ n \in Attempts /\ n = attempts + 1 /\ attempts' = n
      /\ reviewing /\ waiting = 0 /\ waiting' = n
      /\ shown' = "submitting" /\ lastContent' = content
      /\ UNCHANGED <<content, reviewing, pending, status, ordered, applied>>
      /\ p \in {"approve", "find"}
  BY <1>1 DEF BeginsWith, Begin, form
<1>3. /\ attempts \in Nat /\ attempts <= MaxAttempts
      /\ Began \subseteq Attempts
      /\ Began' = Began \cup {n} /\ n \notin Began
      /\ \A m \in Began :
             m \in Nat /\ m < n /\ job[m].key \in 1..m /\ intent[m] \in 1..m
  BY <1>2, Drawn DEF WorkspaceInv, Began, AttemptInv, Attempts
<1>4. content # Nothing /\ content \in Contents \cup {Nothing}
  BY <1>2 DEF WorkspaceInv, ScreenInv, TypeOK
<1>5. pending.content = content =>
          /\ k = pending.key
          /\ \E m \in Began : k = job[m].key /\ content = job[m].content
  BY <1>4 DEF BeginsWith, WorkspaceInv, KeyInv
<1>6. pending.content # content => k = n /\ p = "approve"
  BY DEF BeginsWith
<1>7. k \in 1..n /\ k \in Numbers /\ n \in Nat
  BY <1>2, <1>3, <1>5, <1>6, BoundAssumption DEF Attempts, Numbers
<1>8. /\ pc' \in [Attempts -> Positions]
      /\ pc'[n] = p
      /\ \A m \in Attempts : m # n => pc'[m] = pc[m]
      /\ pc[n] = "unused"
  BY <1>1, <1>2, <1>3
  DEF Begin, WorkspaceInv, TypeOK, AttemptInv, Positions, Unsent
<1>9. /\ job' \in [Attempts -> Jobs]
      /\ job'[n].content = content /\ job'[n].key = k
      /\ \A m \in Attempts : m # n => job'[m] = job[m]
  BY <1>1, <1>2, <1>4, <1>7 DEF Begin, WorkspaceInv, TypeOK, Jobs
<1>10. intent[attempts] \in Numbers \/ content # lastContent
  BY <1>3, <1>4, BoundAssumption
  DEF WorkspaceInv, TypeOK, CurrentInv, Attempts
<1>11. /\ intent' \in [Attempts -> Numbers]
       /\ intent'[n] = IF content = lastContent THEN intent[attempts] ELSE n
       /\ \A m \in Attempts : m # n => intent'[m] = intent[m]
  BY <1>1, <1>2, <1>7, <1>10, BoundAssumption
  DEF Begin, WorkspaceInv, TypeOK, Numbers, Attempts
<1>12. TypeOK'
  BY <1>2, <1>7, <1>8, <1>9, <1>11, BoundAssumption
  DEF WorkspaceInv, TypeOK, Results, Attempts, Numbers
<1>13. content = lastContent =>
           attempts \in Began /\ intent[attempts] \in 1..attempts
  BY <1>3, <1>4 DEF WorkspaceInv, CurrentInv, Began
<1>14. AttemptInv'
  <2>1. intent'[n] \in 1..n
    BY <1>2, <1>3, <1>11, <1>13
  <2> QED
    BY <1>2, <1>3, <1>4, <1>7, <1>8, <1>9, <1>11, <2>1
    DEF WorkspaceInv, AttemptInv
<1>15. KeyInv'
  <2>1. \A m \in Began :
            job[m].key = k => k = pending.key /\ job[m].content = content
    <3>1. CASE pending.content = content
      BY <1>5, <3>1 DEF WorkspaceInv, KeyInv
    <3>2. CASE pending.content # content
      BY <1>2, <1>3, <1>6, <3>2
    <3> QED
      BY <3>1, <3>2
  <2>2. \A i, j \in Began' :
            job'[i].key = job'[j].key => job'[i].content = job'[j].content
    BY <1>3, <1>9, <2>1 DEF WorkspaceInv, KeyInv
  <2>3. \/ pending'.key = 0 /\ pending'.content = Nothing
        \/ \E m \in Began' :
               pending'.key = job'[m].key /\ pending'.content = job'[m].content
    BY <1>2, <1>3, <1>9 DEF WorkspaceInv, KeyInv
  <2>4. ASSUME NEW x \in Keys, status'[x] # "none", NEW m \in Began',
               job'[m].key = x
        PROVE  ordered'[x] = job'[m].content
    <3>1. x \in Began
      BY <1>2, <2>4 DEF WorkspaceInv, KeyInv
    <3>2. CASE m \in Began
      BY <1>2, <1>3, <1>9, <2>4, <3>2 DEF WorkspaceInv, KeyInv
    <3>3. CASE m = n
      BY <1>2, <1>3, <1>5, <1>6, <1>9, <2>4, <3>1, <3>3
      DEF WorkspaceInv, KeyInv
    <3> QED
      BY <1>3, <3>2, <3>3
  <2>5. \A x \in Keys : status'[x] # "none" => x \in Began'
    BY <1>2, <1>3 DEF WorkspaceInv, KeyInv
  <2> QED
    BY <2>2, <2>3, <2>4, <2>5 DEF KeyInv
<1>16. ScreenInv'
  BY <1>2, <1>3, <1>4, <1>5, <1>6, <1>8, <1>9
  DEF WorkspaceInv, ScreenInv, Told, Unsent
<1>17. OwnerInv'
  BY <1>2, <1>8, <1>9 DEF WorkspaceInv, OwnerInv, Owning
<1>18. \A m \in Began : Dead(m) => Dead(m)'
  BY <1>2, <1>3, <1>5, <1>6, <1>8, <1>9 DEF Dead, Fresh
<1>19. pending.content # content => Fresh(n)'
  <2>1. pending.key # n
    BY <1>2, <1>3 DEF WorkspaceInv, KeyInv
  <2>2. status[n] = "none"
    BY <1>2, <1>3 DEF WorkspaceInv, KeyInv, Keys
  <2>3. \A m \in Attempts : m # n => job[m].key # n
    BY <1>2, <1>3 DEF WorkspaceInv, AttemptInv
  <2> QED
    BY <1>2, <1>6, <1>9, <2>1, <2>2, <2>3 DEF Fresh
<1>20. ASSUME NEW m \in Began, intent[m] = intent'[n]
       PROVE  /\ m \in Current /\ content = lastContent
              /\ pending.content = content => job[m].key = k \/ Dead(m)
              /\ pending.content # content => Dead(m)
  <2>1. content = lastContent /\ m \in Current
    BY <1>2, <1>3, <1>11, <1>20 DEF Current
  <2> QED
    BY <1>2, <1>3, <1>4, <1>5, <2>1 DEF WorkspaceInv, CurrentInv
<1>21. IntentInv'
  <2>1. ASSUME NEW i \in Began, NEW j \in Began, intent[i] = intent[j]
        PROVE  job'[i].key = job'[j].key \/ Dead(i)' \/ Dead(j)'
    BY <1>3, <1>9, <1>18, <2>1 DEF WorkspaceInv, IntentInv
  <2>2. ASSUME NEW i \in Began, intent[i] = intent'[n]
        PROVE  job'[i].key = job'[n].key \/ Dead(i)'
    BY <1>3, <1>9, <1>18, <1>20, <2>2
  <2> QED
    BY <1>3, <1>11, <2>1, <2>2 DEF IntentInv
<1>22. CurrentInv'
  <2>1. \A m \in Current' :
            m = n \/ (m \in Began /\ intent[m] = intent'[n])
    BY <1>2, <1>3, <1>11 DEF Current
  <2>2. attempts' # 0
    BY <1>2, <1>3
  <2>3. pending.content = content =>
            \A m \in Current' : job'[m].key = k \/ Dead(m)'
    BY <1>3, <1>9, <1>18, <1>20, <2>1
  <2>4. pending.content # content =>
            \A m \in Current' : m = n \/ Dead(m)'
    BY <1>18, <1>20, <2>1
  <2> QED
    BY <1>2, <1>5, <1>6, <1>8, <1>19, <2>2, <2>3, <2>4
    DEF CurrentInv, Unsent
<1>23. EffectInv'
  <2>1. \A i \in Attempts : applied'[i] = 1 =>
            \E m \in Began' : intent'[m] = i /\ Spent(job[m].key)'
    <3> SUFFICES ASSUME NEW i \in Attempts, applied'[i] = 1
                 PROVE  \E m \in Began' : intent'[m] = i /\ Spent(job[m].key)'
      OBVIOUS
    <3>1. PICK m \in Began : intent[m] = i /\ Spent(job[m].key)
      BY <1>2 DEF WorkspaceInv, EffectInv
    <3>2. m \in Began' /\ intent'[m] = i /\ job'[m].key = job[m].key
      BY <1>3, <1>9, <1>11, <3>1
    <3>3. Spent(job[m].key)'
      BY <3>1, <3>2, <1>2, <1>8, <1>9 DEF Spent
    <3> QED
      BY <3>2, <3>3
  <2>2. \A m \in Attempts : pc'[m] = "settle" => applied'[intent'[m]] = 1
    BY <1>2, <1>8, <1>11 DEF WorkspaceInv, EffectInv
  <2> QED
    BY <1>2, <2>1, <2>2 DEF WorkspaceInv, EffectInv
<1> QED
  BY <1>12, <1>14, <1>15, <1>16, <1>17, <1>21, <1>22, <1>23 DEF WorkspaceInv

-----------------------------------------------------------------------------
(* Answers.                                                                *)

\* The attempt that a live request is, and what its screen waits for.
LEMMA LiveAttempt ==
  ASSUME WorkspaceInv, NEW n \in Attempts, pc[n] \notin {"unused", "done"}
  PROVE  /\ n \in Began /\ job[n].key \in Keys /\ ~Dead(n)
         /\ waiting = n =>
                /\ n = attempts /\ n \in Current
                /\ reviewing /\ shown = "submitting"
                /\ job[n].content = content /\ lastContent = content
                /\ content # Nothing
                /\ pc[n] \notin Unsent =>
                      pending.key = job[n].key /\ pending.content = content
<1>1. n \in Began /\ job[n].key \in Keys
  BY Drawn DEF WorkspaceInv, AttemptInv
<1>2. ~Dead(n)
  BY DEF Dead
<1>3. waiting = n => n = attempts /\ waiting # 0
  BY DEF Attempts, WorkspaceInv, ScreenInv
<1> QED
  BY <1>1, <1>2, <1>3 DEF WorkspaceInv, ScreenInv, Current

\* Effects are left alone, no request comes to call again under a key that has
\* a command, and commands stay.
LEMMA EffectKept ==
  ASSUME WorkspaceInv, UNCHANGED <<job, intent, applied, attempts>>,
         \A k \in Keys : status[k] # "none" => status'[k] # "none",
         \A m \in Attempts :
             /\ pc'[m] = "settle" => pc[m] = "settle"
             /\ pc'[m] \in {"recheck", "call"} =>
                    pc[m] \in {"recheck", "call"} \/ status[job[m].key] = "none"
  PROVE  EffectInv'
<1>1. \A k \in Keys : Spent(k) => Spent(k)'
  BY DEF Spent
<1>2. \A m \in Began : job[m].key \in Keys
  BY Drawn DEF WorkspaceInv
<1>3. \A i \in Attempts :
          applied[i] = 1 => \E m \in Began : intent[m] = i /\ Spent(job[m].key)'
  <2>1. ASSUME NEW i \in Attempts, applied[i] = 1
        PROVE  \E m \in Began : intent[m] = i /\ Spent(job[m].key)'
    <3>1. PICK m \in Began : intent[m] = i /\ Spent(job[m].key)
      BY <2>1 DEF WorkspaceInv, EffectInv
    <3> QED
      BY <1>2, <3>1 DEF Spent
  <2> QED
    BY <2>1
<1>4. Began' = Began
  BY DEF Began
<1> QED
  BY <1>3, <1>4 DEF WorkspaceInv, EffectInv

\* Drawn keys that nobody has seen stay unseen while keys and the ref stay.
LEMMA FreshKept ==
  ASSUME NEW m, Fresh(m), UNCHANGED <<job, pending>>, status'[m] = "none"
  PROVE  Fresh(m)'
BY DEF Fresh

\* An answer that is lost on its way back.
LEMMA LoseAnswerStep ==
  ASSUME WorkspaceInv, NEW n \in Attempts, LoseAnswer(n)
  PROVE  WorkspaceInv'
<1>1. /\ waiting = n /\ waiting' = 0 /\ shown' = "failed"
      /\ pc[n] \notin Unsent
      /\ UNCHANGED <<content, reviewing, core>>
  BY DEF LoseAnswer, Tell, ShownAfter, form, server, ghost, core, Unsent, Attempts
<1>2. waiting # 0
  BY <1>1 DEF Attempts
<1>3. TypeOK'
  BY <1>1, BoundAssumption DEF WorkspaceInv, TypeOK, Results, Numbers, core
<1>4. AttemptInv' /\ KeyInv'
  BY <1>1 DEF WorkspaceInv, AttemptInv, KeyInv, Began, core
<1>5. ScreenInv' /\ OwnerInv'
  BY <1>1, <1>2 DEF WorkspaceInv, ScreenInv, OwnerInv, Told, core
<1>6. IntentInv' /\ CurrentInv'
  BY <1>1 DEF WorkspaceInv, IntentInv, CurrentInv, Current, Dead, Fresh, Began,
     core
<1>7. EffectInv'
  BY <1>1 DEF WorkspaceInv, EffectInv, Spent, Began, core
<1> QED
  BY <1>3, <1>4, <1>5, <1>6, <1>7 DEF WorkspaceInv

\* A request is over: nothing is stored, or its owner closes the command.
Closes(n) ==
    \/ status' = status
    \/ /\ pc[n] \in Owning
       /\ \E s \in {"completed", "failed"} :
              status' = [status EXCEPT ![job[n].key] = s]

\* What it is answered is true.
Truthful(n, result) ==
    /\ result \in {"denied", "expired", "failed"} \cup Told
    /\ result \in Told =>
           pc[n] \notin Unsent /\ status'[job[n].key] # "none"
    /\ result = "succeeded" => applied'[intent[n]] = 1

LEMMA ReplyStep ==
  ASSUME WorkspaceInv, NEW n \in Attempts, pc[n] \notin {"unused", "done"},
         NEW result, Reply(n, result), Truthful(n, result), Closes(n),
         UNCHANGED <<content, reviewing, pending, job, ordered, intent,
                     lastContent, attempts>>,
         applied' \in [Attempts -> Nat],
         \A i \in Attempts : applied[i] = 1 => applied'[i] = 1,
         EffectInv'
  PROVE  WorkspaceInv'
<1>1. /\ pc' \in [Attempts -> Positions]
      /\ pc'[n] = "done"
      /\ \A m \in Attempts : m # n => pc'[m] = pc[m]
  BY Moved DEF WorkspaceInv, Reply, Positions
<1>2. /\ waiting = n => waiting' = 0 /\ shown' = result
      /\ waiting # n => waiting' = waiting /\ shown' = shown
      /\ waiting = n /\ result \in Told => commandId' = job[n].key
      /\ waiting # n => commandId' = commandId
  BY DEF Reply, Tell, ShownAfter, Told
<1>3. n \in Began /\ job[n].key \in Keys /\ ~Dead(n)
  BY LiveAttempt
<1>4. waiting = n =>
          /\ n = attempts /\ n \in Current /\ reviewing
          /\ lastContent = content /\ content # Nothing
          /\ pc[n] \notin Unsent =>
                pending.key = job[n].key /\ pending.content = content
  BY LiveAttempt
<1>5. /\ status' \in [Keys -> {"none", "queued", "completed", "failed"}]
      /\ \A k \in Keys : status'[k] = "none" <=> status[k] = "none"
      /\ \A k \in Keys : k # job[n].key => status'[k] = status[k]
      /\ pc[n] \notin Owning => status' = status
  BY <1>3 DEF Closes, WorkspaceInv, TypeOK, OwnerInv
<1>6. TypeOK'
  BY <1>1, <1>2, <1>5, BoundAssumption
  DEF WorkspaceInv, TypeOK, Truthful, Results, Numbers
<1>7. AttemptInv'
  BY <1>1, <1>3 DEF WorkspaceInv, AttemptInv, Began
<1>8. KeyInv'
  BY <1>5 DEF WorkspaceInv, KeyInv, Began
<1>9. ScreenInv'
  <2>1. CASE waiting = n
    BY <1>2, <1>3, <1>4, <2>1 DEF WorkspaceInv, ScreenInv, Truthful, Told, Unsent
  <2>2. CASE waiting # n
    <3>1. waiting' # 0 =>
              /\ waiting' = attempts
              /\ pc'[waiting'] = pc[waiting]
      BY <1>1, <1>2, <2>2, Drawn DEF WorkspaceInv, ScreenInv, Attempts, TypeOK, Numbers
    <3>2. reviewing /\ shown = "succeeded" => applied'[intent[attempts]] = 1
      BY Drawn DEF WorkspaceInv, ScreenInv, Told, AttemptInv, Began
    <3> QED
      BY <1>2, <1>5, <2>2, <3>1, <3>2 DEF WorkspaceInv, ScreenInv, Told
  <2> QED
    BY <2>1, <2>2
<1>10. OwnerInv'
  <2>1. ASSUME NEW m \in Attempts, pc'[m] \in Owning
        PROVE  pc[m] \in Owning /\ status'[job[m].key] = "queued"
    <3>1. m # n /\ pc[m] \in Owning /\ status[job[m].key] = "queued"
      BY <1>1, <2>1 DEF WorkspaceInv, OwnerInv, Owning
    <3>2. job[m].key \in Keys
      BY <3>1, LiveAttempt DEF Owning
    <3> QED
      BY <1>5, <3>1, <3>2 DEF WorkspaceInv, OwnerInv
  <2> QED
    BY <2>1 DEF WorkspaceInv, OwnerInv
<1>11. \A m \in Began : Fresh(m) => Fresh(m)'
  BY <1>5, Drawn DEF WorkspaceInv, Fresh, Keys
<1>12. \A m \in Began : Dead(m) => Dead(m)'
  BY <1>1, <1>3, <1>11, Drawn DEF WorkspaceInv, Dead
<1>13. IntentInv'
  BY <1>12 DEF WorkspaceInv, IntentInv, Began
<1>14. CurrentInv'
  <2>1. Current' = Current /\ Current \subseteq Began
    BY DEF Current, Began
  <2>2. ASSUME NEW m \in Current, waiting = m, pc[m] \in Unsent, Fresh(m)
        PROVE  Dead(m)' \/ (waiting' = m /\ pc'[m] \in Unsent /\ Fresh(m)')
    BY <1>1, <1>2, <1>11, <2>1, <2>2, Drawn DEF WorkspaceInv, Dead
  <2> QED
    BY <1>12, <2>1, <2>2 DEF WorkspaceInv, CurrentInv
<1> QED
  BY <1>6, <1>7, <1>8, <1>9, <1>10, <1>13, <1>14 DEF WorkspaceInv

-----------------------------------------------------------------------------
(* The steps of a request.                                                 *)

\* Steps to the next query, with nothing stored and nobody told.
LEMMA PassStep ==
  ASSUME WorkspaceInv, NEW n \in Attempts, pc[n] \notin {"unused", "done"},
         NEW p \in Positions \ {"unused", "done"}, Goto(n, p),
         p \in Unsent <=> pc[n] \in Unsent,
         p \in Owning <=> pc[n] \in Owning,
         UNCHANGED <<content, reviewing, report, pending, job, status, ordered,
                     intent, lastContent, attempts>>,
         applied' \in [Attempts -> Nat],
         \A i \in Attempts : applied[i] = 1 => applied'[i] = 1,
         EffectInv'
  PROVE  WorkspaceInv'
<1>1. /\ pc' \in [Attempts -> Positions]
      /\ pc'[n] = p
      /\ \A m \in Attempts : m # n => pc'[m] = pc[m]
  BY Moved DEF WorkspaceInv
<1>2. n \in Began /\ ~Dead(n) /\ Began' = Began /\ Began \subseteq Attempts
  BY LiveAttempt, Drawn DEF WorkspaceInv, Began
<1>3. TypeOK'
  BY <1>1 DEF WorkspaceInv, TypeOK, report
<1>4. AttemptInv' /\ KeyInv'
  BY <1>1, <1>2 DEF WorkspaceInv, AttemptInv, KeyInv
<1>5. ScreenInv'
  <2>1. waiting # 0 => waiting \in Attempts
    BY DEF WorkspaceInv, ScreenInv, TypeOK, Numbers, Attempts
  <2>2. reviewing /\ shown = "succeeded" => applied'[intent[attempts]] = 1
    BY Drawn DEF WorkspaceInv, ScreenInv, Told, CurrentInv, Began
  <2> QED
    BY <1>1, <2>1, <2>2 DEF WorkspaceInv, ScreenInv, report
<1>6. OwnerInv'
  BY <1>1 DEF WorkspaceInv, OwnerInv
<1>7. \A m \in Began : /\ Dead(m) => Dead(m)'
                       /\ Fresh(m) => Fresh(m)'
  BY <1>1, <1>2 DEF Dead, Fresh
<1>8. IntentInv'
  BY <1>2, <1>7 DEF WorkspaceInv, IntentInv
<1>9. CurrentInv'
  <2>1. Current' = Current /\ Current \subseteq Began
    BY <1>2 DEF Current
  <2>2. \A m \in Attempts : pc[m] \in Unsent => pc'[m] \in Unsent
    BY <1>1
  <2> QED
    BY <1>2, <1>7, <2>1, <2>2 DEF WorkspaceInv, CurrentInv, report
<1> QED
  BY <1>3, <1>4, <1>5, <1>6, <1>8, <1>9 DEF WorkspaceInv

LEMMA AdvanceStep ==
  ASSUME WorkspaceInv, NEW n \in Attempts, pc[n] \notin {"unused", "done"},
         NEW p \in Positions \ {"unused", "done", "settle"}, Goto(n, p),
         p \in Unsent <=> pc[n] \in Unsent,
         p \in Owning <=> pc[n] \in Owning,
         p \in {"recheck", "call"} => pc[n] \in {"recheck", "call"},
         UNCHANGED <<content, reviewing, report, pending, job, status, ordered,
                     intent, applied, lastContent, attempts>>
  PROVE  WorkspaceInv'
<1>1. /\ pc'[n] = p
      /\ \A m \in Attempts : m # n => pc'[m] = pc[m]
  BY Moved DEF WorkspaceInv
<1>2. EffectInv'
  BY <1>1, EffectKept
<1>3. applied' \in [Attempts -> Nat]
  BY DEF WorkspaceInv, TypeOK
<1> QED
  BY <1>2, <1>3, PassStep

LEMMA ApproveStep ==
  ASSUME WorkspaceInv, NEW n \in Attempts, Approve(n)
  PROVE  WorkspaceInv'
BY AdvanceStep
DEF Approve, form, report, ghost, bounds, Positions, Unsent, Owning

\* A request that is answered without anything being stored.
LEMMA AnswerStep ==
  ASSUME WorkspaceInv, NEW n \in Attempts, pc[n] \notin {"unused", "done"},
         NEW result, Reply(n, result), Truthful(n, result),
         UNCHANGED <<content, reviewing, pending, job, ordered, intent,
                     lastContent, attempts, applied, status>>
  PROVE  WorkspaceInv'
<1>1. \A m \in Attempts : pc'[m] # "done" => pc'[m] = pc[m]
  BY Moved DEF WorkspaceInv, Reply, Positions
<1>2. EffectInv'
  BY <1>1, EffectKept
<1>3. Closes(n) /\ applied' \in [Attempts -> Nat]
  BY DEF Closes, WorkspaceInv, TypeOK
<1> QED
  BY <1>2, <1>3, ReplyStep

LEMMA DropStep ==
  ASSUME WorkspaceInv, NEW n \in Attempts, Drop(n)
  PROVE  WorkspaceInv'
BY AnswerStep DEF Drop, Truthful, Told, form, server, ghost

LEMMA FindStep ==
  ASSUME WorkspaceInv, NEW n \in Attempts, Find(n)
  PROVE  WorkspaceInv'
<1>1. CASE status[job[n].key] = "none" /\ Goto(n, "gate") /\ UNCHANGED report
  BY <1>1, AdvanceStep
  DEF Find, form, server, ghost, bounds, Positions, Unsent, Owning
<1>2. CASE status[job[n].key] # "none" /\ Reply(n, "duplicate")
  BY <1>2, AnswerStep
  DEF Find, Truthful, Told, Unsent, form, server, ghost, bounds
<1> QED
  BY <1>1, <1>2 DEF Find

LEMMA GateStep ==
  ASSUME WorkspaceInv, NEW n \in Attempts, Gate(n)
  PROVE  WorkspaceInv'
<1>1. CASE Goto(n, "insert") /\ UNCHANGED report
  BY <1>1, AdvanceStep
  DEF Gate, form, server, ghost, bounds, Positions, Unsent, Owning
<1>2. ASSUME NEW code \in Refusals(n), Reply(n, code)
      PROVE  WorkspaceInv'
  BY <1>2, AnswerStep
  DEF Gate, Refusals, Truthful, Told, form, server, ghost, bounds
<1> QED
  BY <1>1, <1>2 DEF Gate

\* The ref takes the key that is about to be sent.
LEMMA EnqueueStep ==
  ASSUME WorkspaceInv, NEW n \in Attempts, Enqueue(n)
  PROVE  WorkspaceInv'
<1>1. /\ pc[n] = "enqueue" /\ Goto(n, "find")
      /\ waiting = n => pending' = job[n]
      /\ waiting # n => pending' = pending
      /\ UNCHANGED <<content, reviewing, report, job, status, ordered, intent,
                     applied, lastContent, attempts>>
  BY DEF Enqueue, form, server, ghost, bounds
<1>2. /\ pc' \in [Attempts -> Positions]
      /\ pc'[n] = "find"
      /\ \A m \in Attempts : m # n => pc'[m] = pc[m]
  BY <1>1, Moved DEF WorkspaceInv, Positions
<1>3. /\ n \in Began /\ job[n].key \in Keys /\ ~Dead(n)
      /\ Began' = Began /\ Began \subseteq Attempts
      /\ waiting = n =>
             /\ n = attempts /\ n \in Current /\ shown = "submitting"
             /\ job[n].content = content /\ lastContent = content
             /\ content # Nothing
  BY <1>1, LiveAttempt, Drawn DEF WorkspaceInv, Began
<1>4. TypeOK'
  BY <1>1, <1>2 DEF WorkspaceInv, TypeOK, report
<1>5. AttemptInv'
  BY <1>1, <1>2, <1>3 DEF WorkspaceInv, AttemptInv
<1>6. KeyInv'
  BY <1>1, <1>3 DEF WorkspaceInv, KeyInv
<1>7. ScreenInv'
  <2>1. waiting # 0 => waiting \in Attempts
    BY DEF WorkspaceInv, ScreenInv, TypeOK, Numbers, Attempts
  <2> QED
    BY <1>1, <1>2, <1>3, <2>1
    DEF WorkspaceInv, ScreenInv, report, Told, Unsent
<1>8. OwnerInv'
  BY <1>1, <1>2 DEF WorkspaceInv, OwnerInv, Owning
<1>9. \A m \in Began : Dead(m) => Dead(m)'
  BY <1>1, <1>2, <1>3 DEF Dead, Fresh
<1>10. IntentInv'
  BY <1>1, <1>3, <1>9 DEF WorkspaceInv, IntentInv
<1>11. CurrentInv'
  <2>1. Current' = Current /\ Current \subseteq Began
    BY <1>1, <1>3 DEF Current
  <2>2. CASE waiting = n
    <3>1. \A m \in Current : job[m].key = job[n].key \/ Dead(m)
      BY <1>3, <2>1, <2>2 DEF WorkspaceInv, IntentInv, Current
    <3> QED
      BY <1>1, <1>3, <1>9, <2>1, <2>2, <3>1 DEF WorkspaceInv, CurrentInv
  <2>3. CASE waiting # n
    <3>1. \A m \in Began : m # n /\ Fresh(m) => Fresh(m)'
      BY <1>1, <2>3 DEF Fresh
    <3>2. \A m \in Began : waiting = m => m # n /\ pc'[m] = pc[m]
      BY <1>2, <1>3, <2>3
    <3> QED
      BY <1>1, <1>9, <2>1, <2>3, <3>1, <3>2
      DEF WorkspaceInv, CurrentInv, report
  <2> QED
    BY <2>2, <2>3
<1>12. EffectInv'
  BY <1>1, <1>2, EffectKept
<1> QED
  BY <1>4, <1>5, <1>6, <1>7, <1>8, <1>10, <1>11, <1>12 DEF WorkspaceInv

\* The command is stored under a key that had none.
LEMMA InsertStep ==
  ASSUME WorkspaceInv, NEW n \in Attempts, Insert(n)
  PROVE  WorkspaceInv'
<1>1. CASE ~IsFirst(n)
  BY <1>1, AnswerStep
  DEF Insert, IsFirst, Truthful, Told, Unsent, form, server, ghost, bounds
<1>2. CASE IsFirst(n)
  <2> DEFINE k == job[n].key
  <2>1. /\ pc[n] = "insert" /\ Goto(n, "recheck") /\ status[k] = "none"
        /\ status' = [status EXCEPT ![k] = "queued"]
        /\ ordered' = [ordered EXCEPT ![k] = job[n].content]
        /\ UNCHANGED <<content, reviewing, report, pending, job, intent,
                       applied, lastContent, attempts>>
    BY <1>2 DEF Insert, IsFirst, form, ghost, bounds
  <2>2. /\ pc' \in [Attempts -> Positions]
        /\ pc'[n] = "recheck"
        /\ \A m \in Attempts : m # n => pc'[m] = pc[m]
    BY <2>1, Moved DEF WorkspaceInv, Positions, Owning
  <2>3. /\ n \in Began /\ k \in Keys /\ k \in Began /\ ~Dead(n)
        /\ Began' = Began /\ Began \subseteq Attempts
        /\ \A m \in Began : job[m].key \in Keys
    <3>1. n \in Began /\ k \in Keys /\ ~Dead(n)
      BY <2>1, LiveAttempt
    <3>2. k \in 1..n /\ attempts \in Nat /\ n <= attempts /\ n \in Nat
      BY <3>1, Drawn DEF WorkspaceInv, AttemptInv, Began
    <3> QED
      BY <2>1, <3>1, <3>2, Drawn DEF WorkspaceInv, Began
  <2>4. /\ status'[k] = "queued" /\ ordered'[k] = job[n].content
        /\ \A x \in Keys :
               x # k => status'[x] = status[x] /\ ordered'[x] = ordered[x]
    BY <2>1, <2>3 DEF WorkspaceInv, TypeOK
  <2>5. TypeOK'
    BY <2>1, <2>2, <2>3 DEF WorkspaceInv, TypeOK, Jobs, report
  <2>6. AttemptInv'
    BY <2>1, <2>2, <2>3 DEF WorkspaceInv, AttemptInv
  <2>7. KeyInv'
    BY <2>1, <2>3, <2>4 DEF WorkspaceInv, KeyInv
  <2>8. ScreenInv'
    <3>1. waiting # 0 => waiting \in Attempts
      BY DEF WorkspaceInv, ScreenInv, TypeOK, Numbers, Attempts
    <3>2. /\ content' = content /\ reviewing' = reviewing /\ shown' = shown
          /\ commandId' = commandId /\ waiting' = waiting
          /\ pending' = pending /\ job' = job /\ lastContent' = lastContent
          /\ attempts' = attempts /\ intent' = intent /\ applied' = applied
      BY <2>1 DEF report
    <3>3. commandId \in Keys /\ status[commandId] # "none" =>
              status'[commandId] # "none"
      BY <2>1, <2>4
    <3>4. waiting # 0 =>
              /\ pc'[waiting] \in Unsent <=> pc[waiting] \in Unsent
              /\ pc'[waiting] \in {"unused", "done"}
                     <=> pc[waiting] \in {"unused", "done"}
      BY <2>1, <2>2, <3>1 DEF Unsent
    <3> QED
      BY <3>2, <3>3, <3>4 DEF WorkspaceInv, ScreenInv
  <2>9. OwnerInv'
    <3>1. ASSUME NEW m \in Attempts, pc'[m] \in Owning, m # n
          PROVE  /\ pc[m] \in Owning
                 /\ job[m].key # k
                 /\ status'[job[m].key] = "queued"
      <4>1. pc[m] \in Owning /\ status[job[m].key] = "queued"
        BY <2>2, <3>1 DEF WorkspaceInv, OwnerInv
      <4>2. job[m].key \in Keys
        BY <4>1, LiveAttempt DEF Owning
      <4> QED
        BY <2>1, <2>4, <4>1, <4>2
    <3> QED
      BY <2>1, <2>4, <3>1 DEF WorkspaceInv, OwnerInv
  <2>10. \A m \in Began :
             /\ m # n /\ Fresh(m) => Fresh(m)'
             /\ Dead(m) => Dead(m)'
    BY <2>1, <2>2, <2>3, <2>4 DEF Dead, Fresh, Keys, Attempts
  <2>11. IntentInv'
    BY <2>1, <2>3, <2>10 DEF WorkspaceInv, IntentInv
  <2>12. CurrentInv'
    <3>1. Current' = Current /\ Current \subseteq Began
      BY <2>1, <2>3 DEF Current
    <3>2. \A m \in Attempts :
              pc[m] \in Unsent => m # n /\ pc'[m] \in Unsent
      BY <2>1, <2>2 DEF Unsent
    <3> QED
      BY <2>1, <2>3, <2>10, <3>1, <3>2 DEF WorkspaceInv, CurrentInv, report
  <2>13. EffectInv'
    BY <2>1, <2>2, <2>4, EffectKept
  <2> QED
    BY <2>5, <2>6, <2>7, <2>8, <2>9, <2>11, <2>12, <2>13 DEF WorkspaceInv
<1> QED
  BY <1>1, <1>2

\* An owner that closes its command.
LEMMA OwnerCloses ==
  ASSUME WorkspaceInv, NEW n \in Attempts, pc[n] \in Owning,
         NEW s \in {"completed", "failed"},
         status' = [status EXCEPT ![job[n].key] = s]
  PROVE  /\ Closes(n)
         /\ status'[job[n].key] # "none"
         /\ \A k \in Keys : status[k] # "none" => status'[k] # "none"
<1>1. job[n].key \in Keys
  BY LiveAttempt DEF Owning
<1> QED
  BY <1>1 DEF Closes, WorkspaceInv, TypeOK

LEMMA RecheckStep ==
  ASSUME WorkspaceInv, NEW n \in Attempts, Recheck(n)
  PROVE  WorkspaceInv'
<1>1. CASE Goto(n, "call") /\ UNCHANGED <<status, report>>
  BY <1>1, AdvanceStep DEF Recheck, form, ghost, bounds, Positions, Unsent, Owning
<1>2. ASSUME NEW code \in Refusals(n), Reply(n, code),
             status' = [status EXCEPT ![job[n].key] = "failed"]
      PROVE  WorkspaceInv'
  <2>1. /\ pc[n] = "recheck" /\ code \in {"denied", "expired"}
        /\ UNCHANGED <<content, reviewing, pending, job, ordered, intent,
                       applied, lastContent, attempts>>
    BY DEF Recheck, Refusals, form, ghost, bounds
  <2>2. /\ Closes(n)
        /\ \A k \in Keys : status[k] # "none" => status'[k] # "none"
    BY <1>2, <2>1, OwnerCloses DEF Owning
  <2>3. \A m \in Attempts : pc'[m] # "done" => pc'[m] = pc[m]
    BY <1>2, Moved DEF WorkspaceInv, Reply, Positions
  <2>4. EffectInv'
    BY <2>1, <2>2, <2>3, EffectKept
  <2>5. applied' \in [Attempts -> Nat]
    BY <2>1 DEF WorkspaceInv, TypeOK
  <2> QED
    BY <1>2, <2>1, <2>2, <2>4, <2>5, ReplyStep DEF Truthful, Told
<1> QED
  BY <1>1, <1>2 DEF Recheck

LEMMA SettleStep ==
  ASSUME WorkspaceInv, NEW n \in Attempts, Settle(n)
  PROVE  WorkspaceInv'
<1>1. /\ pc[n] = "settle" /\ Reply(n, "succeeded")
      /\ status' = [status EXCEPT ![job[n].key] = "completed"]
      /\ UNCHANGED <<content, reviewing, pending, job, ordered, intent,
                     applied, lastContent, attempts>>
  BY DEF Settle, form, ghost, bounds
<1>2. /\ Closes(n)
      /\ status'[job[n].key] # "none"
      /\ \A k \in Keys : status[k] # "none" => status'[k] # "none"
  BY <1>1, OwnerCloses DEF Owning
<1>3. \A m \in Attempts : pc'[m] # "done" => pc'[m] = pc[m]
  BY <1>1, Moved DEF WorkspaceInv, Reply, Positions
<1>4. EffectInv'
  BY <1>1, <1>2, <1>3, EffectKept
<1>5. applied' \in [Attempts -> Nat] /\ applied'[intent[n]] = 1
  BY <1>1 DEF WorkspaceInv, TypeOK, EffectInv
<1> QED
  BY <1>1, <1>2, <1>4, <1>5, ReplyStep DEF Truthful, Told, Unsent

-----------------------------------------------------------------------------
(* The call.                                                               *)

\* The intent of a request about to call has no effect yet: whoever had caused
\* one would carry the key that this request owns.
LEMMA NoEffectYet ==
  ASSUME WorkspaceInv, NEW n \in Attempts, pc[n] = "call"
  PROVE  applied[intent[n]] = 0
<1>1. n \in Began /\ ~Dead(n) /\ intent[n] \in Attempts
  BY LiveAttempt, Drawn DEF WorkspaceInv
<1>2. ASSUME applied[intent[n]] = 1
      PROVE  FALSE
  <2>1. PICK m \in Began : intent[m] = intent[n] /\ Spent(job[m].key)
    BY <1>1, <1>2 DEF WorkspaceInv, EffectInv
  <2>2. job[m].key # job[n].key
    BY <2>1 DEF Spent
  <2>3. ~Dead(m)
    BY <2>1 DEF Dead, Fresh, Spent
  <2> QED
    BY <1>1, <2>1, <2>2, <2>3 DEF WorkspaceInv, IntentInv
<1> QED
  BY <1>1, <1>2 DEF WorkspaceInv, EffectInv

\* The effect is the first of its intent, and its key is spent.
LEMMA EffectCaused ==
  ASSUME WorkspaceInv, NEW n \in Attempts, pc[n] = "call", Affect(n),
         NEW p \in {"settle", "done"}, Goto(n, p),
         \A k \in Keys : status[k] # "none" => status'[k] # "none",
         UNCHANGED <<job, intent, attempts>>
  PROVE  /\ EffectInv'
         /\ applied' \in [Attempts -> Nat]
         /\ \A i \in Attempts : applied[i] = 1 => applied'[i] = 1
<1>1. /\ pc'[n] = p
      /\ \A m \in Attempts : m # n => pc'[m] = pc[m]
  BY Moved DEF WorkspaceInv, Positions, Owning
<1>2. /\ n \in Began /\ intent[n] \in Attempts /\ Began' = Began
      /\ \A m \in Began : job[m].key \in Keys
  BY LiveAttempt, Drawn DEF WorkspaceInv, Began
<1>3. /\ applied' \in [Attempts -> Nat]
      /\ applied'[intent[n]] = 1
      /\ \A i \in Attempts : i # intent[n] => applied'[i] = applied[i]
  BY <1>2, NoEffectYet DEF Affect, WorkspaceInv, TypeOK
<1>4. Spent(job[n].key)'
  <2>1. status'[job[n].key] # "none"
    BY <1>2 DEF WorkspaceInv, OwnerInv, Owning
  <2>2. \A m \in Attempts :
            job[m].key = job[n].key => pc'[m] \notin {"recheck", "call"}
    BY <1>1 DEF WorkspaceInv, OwnerInv, Owning
  <2> QED
    BY <2>1, <2>2 DEF Spent
<1>5. ASSUME NEW i \in Attempts, applied[i] = 1
      PROVE  \E m \in Began : intent[m] = i /\ Spent(job[m].key)'
  <2>1. PICK m \in Began : intent[m] = i /\ Spent(job[m].key)
    BY <1>5 DEF WorkspaceInv, EffectInv
  <2> QED
    BY <1>1, <1>2, <2>1 DEF Spent
<1>6. \A i \in Attempts : applied'[i] = 1 =>
          \E m \in Began : intent[m] = i /\ Spent(job[m].key)'
  BY <1>2, <1>3, <1>4, <1>5
<1>7. \A i \in Attempts : applied'[i] \in {0, 1}
  BY <1>3 DEF WorkspaceInv, EffectInv
<1>8. \A m \in Attempts : pc'[m] = "settle" => applied'[intent[m]] = 1
  <2>1. ASSUME NEW m \in Attempts, pc'[m] = "settle", m # n
        PROVE  applied'[intent[m]] = 1
    <3>1. pc[m] = "settle" /\ applied[intent[m]] = 1
      BY <1>1, <2>1 DEF WorkspaceInv, EffectInv
    <3>2. intent[m] \in Attempts
      BY <3>1, LiveAttempt, Drawn DEF WorkspaceInv
    <3> QED
      BY <1>3, <3>1, <3>2
  <2> QED
    BY <1>3, <2>1
<1>9. EffectInv'
  BY <1>2, <1>6, <1>7, <1>8 DEF EffectInv
<1> QED
  BY <1>3, <1>9

LEMMA CallStep ==
  ASSUME WorkspaceInv, NEW n \in Attempts, Call(n)
  PROVE  WorkspaceInv'
<1>1. /\ pc[n] = "call"
      /\ UNCHANGED <<content, reviewing, pending, job, ordered, intent,
                     lastContent, attempts>>
  BY DEF Call, form, ghost, bounds
<1>2. CASE Affect(n) /\ Goto(n, "settle") /\ UNCHANGED <<status, report>>
  <2>1. EffectInv' /\ applied' \in [Attempts -> Nat]
        /\ \A i \in Attempts : applied[i] = 1 => applied'[i] = 1
    BY <1>1, <1>2, EffectCaused
  <2> QED
    BY <1>1, <1>2, <2>1, PassStep DEF Positions, Unsent, Owning
<1>3. CASE /\ Affect(n) \/ UNCHANGED applied
           /\ status' = [status EXCEPT ![job[n].key] = "failed"]
           /\ Reply(n, "failed")
  <2>1. /\ Closes(n)
        /\ \A k \in Keys : status[k] # "none" => status'[k] # "none"
    BY <1>1, <1>3, OwnerCloses DEF Owning
  <2>2. /\ EffectInv'
        /\ applied' \in [Attempts -> Nat]
        /\ \A i \in Attempts : applied[i] = 1 => applied'[i] = 1
    <3>1. CASE Affect(n)
      BY <1>1, <1>3, <2>1, <3>1, EffectCaused DEF Reply
    <3>2. CASE UNCHANGED applied
      <4>1. \A m \in Attempts : pc'[m] # "done" => pc'[m] = pc[m]
        BY <1>3, Moved DEF WorkspaceInv, Reply, Positions
      <4> QED
        BY <1>1, <2>1, <3>2, <4>1, EffectKept DEF WorkspaceInv, TypeOK
    <3> QED
      BY <1>3, <3>1, <3>2
  <2> QED
    BY <1>1, <1>3, <2>1, <2>2, ReplyStep DEF Truthful, Told
<1> QED
  BY <1>2, <1>3 DEF Call

-----------------------------------------------------------------------------
(* The theorems.                                                           *)

LEMMA NextWorkspaceInv == WorkspaceInv /\ [Next]_vars => WorkspaceInv'
<1> SUFFICES ASSUME WorkspaceInv, [Next]_vars
             PROVE  WorkspaceInv'
  OBVIOUS
<1>1. CASE RequestGrant
  BY <1>1, QuietStep DEF RequestGrant, server, ghost, bounds, core
<1>2. CASE Review
  BY <1>2, ReviewStep
<1>3. CASE Dismiss
  BY <1>3, DismissStep
<1>4. CASE Reopen
  BY <1>4, ReopenStep
<1>5. CASE ChangeGrant
  BY <1>5, QuietStep DEF ChangeGrant, form, server, ghost, core
<1>6. ASSUME NEW c \in Contents, Edit(c)
      PROVE  WorkspaceInv'
  BY <1>6, EditStep
<1>7. ASSUME NEW n \in Attempts, Confirm(n)
      PROVE  WorkspaceInv'
  BY <1>7, ConfirmBegins, BeginStep
<1>8. ASSUME NEW n \in Attempts, Verify(n)
      PROVE  WorkspaceInv'
  BY <1>8, VerifyBegins, BeginStep
<1>9. ASSUME NEW n \in Attempts, Step(n)
      PROVE  WorkspaceInv'
  BY <1>9, ApproveStep, EnqueueStep, FindStep, GateStep, InsertStep,
     RecheckStep, CallStep, SettleStep DEF Step
<1>10. ASSUME NEW n \in Attempts, Drop(n)
       PROVE  WorkspaceInv'
  BY <1>10, DropStep
<1>11. ASSUME NEW n \in Attempts, LoseAnswer(n)
       PROVE  WorkspaceInv'
  BY <1>11, LoseAnswerStep
<1>12. ASSUME NEW n \in Attempts, ApprovalExpires(n)
       PROVE  WorkspaceInv'
  BY <1>12, QuietStep DEF ApprovalExpires, form, ghost, core
<1>13. CASE UNCHANGED vars
  BY <1>13, QuietStep DEF vars, form, report, server, ghost, bounds, core
<1> QED
  BY <1>1, <1>2, <1>3, <1>4, <1>5, <1>6, <1>7, <1>8, <1>9, <1>10, <1>11,
     <1>12, <1>13 DEF Next

\* The attempts of a screen, the keys they carry and the commands behind the
\* keys fit together in every reachable state.
THEOREM WorkspaceInvariantHolds == Spec => []WorkspaceInv
<1>1. Init => WorkspaceInv
  BY InitWorkspaceInv
<1>2. WorkspaceInv /\ [Next]_vars => WorkspaceInv'
  BY NextWorkspaceInv
<1> QED
  BY <1>1, <1>2, PTL DEF Spec

\* Confirming one content again, after answers that were lost and requests
\* that failed, has one effect at GitHub at most.
THEOREM OneEffectPerIntentHolds == Spec => []OneEffectPerIntent
<1>1. WorkspaceInv => OneEffectPerIntent
  BY DEF WorkspaceInv, EffectInv, OneEffectPerIntent
<1> QED
  BY <1>1, WorkspaceInvariantHolds, PTL

\* The panel does not call completed, or already submitted, what is a command
\* for another content, or what GitHub has not applied.
THEOREM ReportIsTrueHolds == Spec => []ReportIsTrue
<1>1. WorkspaceInv => ReportIsTrue
  <2> SUFFICES ASSUME WorkspaceInv, reviewing
               PROVE  /\ shown \in Told => ordered[commandId] = content
                      /\ shown = "succeeded" => applied[intent[attempts]] = 1
    BY DEF ReportIsTrue, Told
  <2>1. ASSUME shown \in Told
        PROVE  ordered[commandId] = content
    <3>1. /\ commandId = pending.key /\ pending.content = content
          /\ content # Nothing
          /\ commandId \in Keys /\ status[commandId] # "none"
      BY <2>1 DEF WorkspaceInv, ScreenInv
    <3>2. PICK n \in Began :
              pending.key = job[n].key /\ pending.content = job[n].content
      BY <3>1 DEF WorkspaceInv, KeyInv
    <3> QED
      BY <3>1, <3>2 DEF WorkspaceInv, KeyInv
  <2> QED
    BY <2>1 DEF WorkspaceInv, ScreenInv
<1> QED
  BY <1>1, WorkspaceInvariantHolds, PTL

=============================================================================

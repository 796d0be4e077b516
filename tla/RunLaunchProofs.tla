-------------------------- MODULE RunLaunchProofs --------------------------
(***************************************************************************)
(* Theorems about RunLaunch, for every number of submissions and faults    *)
(* and all contents of the form.                                           *)
(***************************************************************************)
EXTENDS RunLaunch, SequenceTheorems, TLAPS

-----------------------------------------------------------------------------
(* The invariant.                                                          *)

Early == {"unused", "access", "lookup", "profiles", "insert"}
Preparing == {"rows", "event"}
Positions == Early \cup Preparing \cup {"dispatch", "done"}

Statuses == {"none", "queued", "running", "cancelling", "cancelled", "ended"}

Numbers == 0..MaxSubmissions
Launches == [content : Contents \cup {Nothing}, key : Numbers]

ShapeInv ==
    /\ content \in Contents
    /\ pending \in Launches
    /\ waiting \in Numbers
    /\ started \in Numbers
    /\ pc \in [Submissions -> Positions]
    /\ job \in [Submissions -> Launches]
    /\ owner \in [Keys -> Numbers]
    /\ ordered \in [Runs -> Contents \cup {Nothing}]
    /\ status \in [Runs -> Statuses]
    /\ prepared \in [Runs -> BOOLEAN]
    /\ log = [r \in Runs |-> log[r]]
    /\ dispatched \in [Runs -> BOOLEAN]
    /\ intent \in [Submissions -> Numbers]
    /\ submissions \in Numbers

\* A key is an intent: the ref holds the key of the newest submission until
\* that is launched, and then nothing.
KeyInv ==
    /\ \A n \in Submissions :
           n > submissions => pc[n] = "unused" /\ job[n] = NoLaunch
    /\ \A n \in Submissions :
           n <= submissions =>
               /\ job[n].key \in 1..submissions
               /\ intent[n] = job[n].key
    /\ \A m, n \in Submissions :
           /\ m <= submissions
           /\ n <= submissions
           /\ job[m].key = job[n].key
           => job[m].content = job[n].content
    /\ pending.content = lastContent
    /\ lastContent # Nothing =>
           submissions # 0 /\ pending = job[submissions]

\* A key is owned by the run that was created with it.
OwnerInv ==
    /\ \A k \in Keys :
           owner[k] # 0 =>
               /\ owner[k] <= submissions
               /\ job[owner[k]].key = k
               /\ ordered[owner[k]] = job[owner[k]].content
    /\ \A r \in Runs :
           status[r] # "none" =>
               r <= submissions /\ owner[job[r].key] = r
    /\ \A n \in Submissions : pc[n] \in Early => status[n] = "none"
    /\ \A n \in Submissions :
           pc[n] \in Preparing \cup {"dispatch"} => status[n] # "none"

Queued == "run.queued"
Started == "run.started"
Cancelled == "run.cancelled"
Requested == "run.cancellation_requested"
Ended == "run.ended"

\* The log of a run, by its status.
LogOf(r) ==
    \/ status[r] = "none" /\ log[r] = <<>>
    \/ status[r] = "queued" /\ log[r] \in {<<>>, <<Queued>>}
    \/ status[r] = "running" /\ log[r] = <<Queued, Started>>
    \/ status[r] = "cancelling" /\ log[r] = <<Queued, Started, Requested>>
    \/ /\ status[r] = "cancelled"
       /\ log[r] \in {<<Cancelled>>, <<Queued, Cancelled>>,
                      <<Cancelled, Queued>>}
    \/ /\ status[r] = "ended"
       /\ log[r] \in {<<Queued, Started, Ended>>,
                      <<Queued, Started, Requested, Ended>>}

Unannounced(r) == log[r] \in {<<>>, <<Cancelled>>}

LogInv ==
    \A r \in Runs :
        /\ LogOf(r)
        /\ pc[r] \in Preparing => Unannounced(r)
        /\ pc[r] = "event" => prepared[r]
        /\ pc[r] = "dispatch" \/ dispatched[r] =>
               prepared[r] /\ ~Unannounced(r)
        /\ status[r] \in {"running", "cancelling", "ended"} => prepared[r]

LaunchInv == ShapeInv /\ KeyInv /\ OwnerInv /\ LogInv

\* The event key is set or not, and stays so.
SetupInv == eventKey \in BOOLEAN

-----------------------------------------------------------------------------
LEMMA InitLaunchInv == Init => LaunchInv
<1> SUFFICES ASSUME Init PROVE LaunchInv
  OBVIOUS
<1> USE BoundAssumption DEF Submissions, Runs, Keys, Numbers
<1>1. ShapeInv
  <2>1. NoLaunch \in Launches
    BY DEF NoLaunch, Launches
  <2> QED
    BY <2>1 DEF Init, ShapeInv, Positions, Early, Statuses
<1>2. KeyInv
  BY DEF Init, KeyInv, NoLaunch
<1>3. OwnerInv
  BY DEF Init, OwnerInv, Preparing
<1>4. LogInv
  BY DEF Init, LogInv, LogOf, Preparing
<1> QED
  BY <1>1, <1>2, <1>3, <1>4 DEF LaunchInv

-----------------------------------------------------------------------------
(* What several steps have in common.                                      *)

\* The ref and the last content are kept, or cleared together.
KeptOrCleared ==
    \/ UNCHANGED <<pending, lastContent>>
    \/ pending' = NoLaunch /\ lastContent' = Nothing

\* A request that touches no row goes on, or is over.
GoesOn ==
    \A n \in Submissions :
        \/ pc'[n] = pc[n]
        \/ pc[n] # "unused" /\ pc'[n] = "done"
        \/ pc[n] \in Early \ {"unused"} /\ pc'[n] \in Early

LEMMA KeyKept ==
  ASSUME KeyInv, KeptOrCleared, UNCHANGED <<job, intent, submissions>>,
         \A n \in Submissions : pc[n] = "unused" => pc'[n] = "unused"
  PROVE  KeyInv'
<1>1. pending'.content = lastContent'
  BY DEF KeyInv, KeptOrCleared, NoLaunch
<1>2. lastContent' # Nothing => submissions' # 0 /\ pending' = job'[submissions']
  BY DEF KeyInv, KeptOrCleared
<1> QED
  BY <1>1, <1>2 DEF KeyInv

LEMMA QuietStep ==
  ASSUME LaunchInv, ShapeInv', KeptOrCleared, GoesOn,
         UNCHANGED <<job, intent, submissions, owner, ordered, status, prepared,
                     log, dispatched>>
  PROVE  LaunchInv'
<1>1. \A n \in Submissions : pc[n] = "unused" => pc'[n] = "unused"
  BY DEF GoesOn, Early
<1>2. KeyInv'
  BY <1>1, KeyKept DEF LaunchInv
<1>3. \A n \in Submissions :
          /\ pc'[n] \in Early => pc[n] \in Early
          /\ pc'[n] \in Preparing \cup {"dispatch"} => pc'[n] = pc[n]
  BY DEF GoesOn, Early, Preparing
<1>4. OwnerInv'
  BY <1>3 DEF LaunchInv, OwnerInv
<1>5. LogInv'
  BY <1>3 DEF LaunchInv, LogInv, LogOf, Unannounced, Runs, Preparing
<1> QED
  BY <1>2, <1>4, <1>5 DEF LaunchInv

-----------------------------------------------------------------------------
(* The steps.                                                              *)

LEMMA FailQuiet ==
  ASSUME ShapeInv, NEW n \in Submissions, pc[n] # "unused", Fail(n)
  PROVE  /\ KeptOrCleared /\ GoesOn
         /\ waiting' \in Numbers
         /\ pc' \in [Submissions -> Positions]
         /\ UNCHANGED <<content, pending, started, intent>>
<1>1. GoesOn /\ pc' \in [Submissions -> Positions]
  BY DEF Fail, Goto, GoesOn, ShapeInv, Positions
<1>2. waiting' \in Numbers
  BY BoundAssumption DEF Fail, ShapeInv, Numbers
<1> QED
  BY <1>1, <1>2 DEF Fail, KeptOrCleared, ghost

LEMMA LaunchedShape ==
  ASSUME ShapeInv, NEW n \in Submissions, NEW r \in Runs, pc[n] # "unused",
         Launched(n, r)
  PROVE  /\ KeptOrCleared /\ GoesOn
         /\ waiting' \in Numbers /\ started' \in Numbers
         /\ pending' \in Launches
         /\ pc' \in [Submissions -> Positions]
         /\ UNCHANGED <<content, intent>>
<1>1. GoesOn /\ pc' \in [Submissions -> Positions]
  BY DEF Launched, Goto, GoesOn, ShapeInv, Positions
<1>2. waiting' \in Numbers /\ started' \in Numbers
  BY BoundAssumption DEF Launched, ShapeInv, Numbers, Runs, Submissions
<1>3. KeptOrCleared /\ pending' \in Launches
  BY BoundAssumption
     DEF Launched, KeptOrCleared, ShapeInv, Launches, NoLaunch, Numbers
<1> QED
  BY <1>1, <1>2, <1>3 DEF Launched

\* A position other than "done" that a request takes while it writes nothing.
LEMMA GotoQuiet ==
  ASSUME ShapeInv, NEW n \in Submissions, pc[n] \in Early \ {"unused"},
         NEW position \in Early, Goto(n, position),
         UNCHANGED <<pending, lastContent>>
  PROVE  KeptOrCleared /\ GoesOn /\ pc' \in [Submissions -> Positions]
BY DEF Goto, GoesOn, KeptOrCleared, ShapeInv, Positions

LEMMA ReadingStep ==
  ASSUME LaunchInv, NEW n \in Submissions,
         \/ CheckAccess(n) \/ Lookup(n) \/ ReadProfiles(n)
         \/ DispatchFails(n) \/ Drop(n) \/ LoseAnswer(n)
  PROVE  LaunchInv'
<1> USE DEF LaunchInv
<1>1. ASSUME pc[n] # "unused", Fail(n),
             UNCHANGED <<job, submissions, owner, ordered, status, prepared,
                         log, dispatched>>
      PROVE  LaunchInv'
  <2>1. KeptOrCleared /\ GoesOn
    BY <1>1, FailQuiet
  <2>2. ShapeInv'
    BY <1>1, FailQuiet DEF ShapeInv
  <2> QED
    BY <1>1, <2>1, <2>2, FailQuiet, QuietStep
<1>2. ASSUME NEW position \in Early, pc[n] \in Early \ {"unused"},
             Goto(n, position), UNCHANGED <<composer, ghost>>,
             UNCHANGED <<job, submissions, owner, ordered, status, prepared,
                         log, dispatched>>
      PROVE  LaunchInv'
  <2>1. UNCHANGED <<content, pending, waiting, started, intent, lastContent>>
    BY <1>2 DEF composer, ghost
  <2>2. KeptOrCleared /\ GoesOn /\ pc' \in [Submissions -> Positions]
    BY <1>2, <2>1, GotoQuiet
  <2>3. ShapeInv'
    BY <1>2, <2>1, <2>2 DEF ShapeInv
  <2> QED
    BY <1>2, <2>1, <2>2, <2>3, QuietStep
<1>3. CASE CheckAccess(n)
  BY <1>1, <1>2, <1>3 DEF CheckAccess, runs, bounds, Early
<1>4. CASE ReadProfiles(n)
  BY <1>1, <1>2, <1>4 DEF ReadProfiles, runs, bounds, Early
<1>5. CASE DispatchFails(n)
  BY <1>1, <1>5 DEF DispatchFails, AnswersError, runs
<1>6. CASE Drop(n)
  BY <1>1, <1>6 DEF Drop, runs
<1>7. CASE Lookup(n)
  <2>1. UNCHANGED <<job, submissions, owner, ordered, status, prepared, log,
                    dispatched>>
    BY <1>7 DEF Lookup, runs, bounds
  <2> DEFINE r == owner[job[n].key]
  <2>2. CASE r = 0 /\ Goto(n, "profiles") /\ UNCHANGED <<composer, ghost>>
    BY <1>2, <1>7, <2>1, <2>2 DEF Lookup, Early
  <2>3. CASE r # 0 /\ Launched(n, r)
    <3>1. r \in Runs /\ pc[n] = "lookup"
      <4>1. n <= submissions
        BY <1>7 DEF Lookup, KeyInv, ShapeInv, Numbers, Submissions
      <4>2. job[n].key \in Keys
        BY <4>1 DEF KeyInv, ShapeInv, Numbers, Keys, Submissions
      <4> QED
        BY <1>7, <2>3, <4>2
           DEF Lookup, ShapeInv, Numbers, Runs, Submissions
    <3>2. KeptOrCleared /\ GoesOn
      BY <2>3, <3>1, LaunchedShape
    <3>3. ShapeInv'
      BY <2>1, <2>3, <3>1, LaunchedShape DEF ShapeInv
    <3> QED
      BY <2>1, <2>3, <3>1, <3>2, <3>3, LaunchedShape, QuietStep
  <2> QED
    BY <1>7, <2>2, <2>3 DEF Lookup
<1>8. CASE LoseAnswer(n)
  <2>1. UNCHANGED <<content, pending, started, pc, job, intent, lastContent,
                    submissions, owner, ordered, status, prepared, log,
                    dispatched>>
    BY <1>8 DEF LoseAnswer, runs, ghost
  <2>2. ShapeInv'
    BY <1>8, <2>1, BoundAssumption DEF LoseAnswer, ShapeInv, Numbers
  <2> QED
    BY <2>1, <2>2, QuietStep DEF KeptOrCleared, GoesOn
<1> QED
  BY <1>3, <1>4, <1>5, <1>6, <1>7, <1>8

LEMMA FormStep ==
  ASSUME LaunchInv, (\E c \in Contents : Edit(c)) \/ Rebind \/ UNCHANGED vars
  PROVE  LaunchInv'
<1>1. /\ content' \in Contents
      /\ UNCHANGED <<pending, waiting, started, pc, job, intent, lastContent,
                     submissions, owner, ordered, status, prepared, log,
                     dispatched>>
  BY DEF Edit, Rebind, vars, composer, runs, ghost, bounds, LaunchInv, ShapeInv
<1>2. ShapeInv'
  BY <1>1 DEF LaunchInv, ShapeInv
<1> QED
  BY <1>1, <1>2, QuietStep DEF KeptOrCleared, GoesOn

LEMMA SubmitStep ==
  ASSUME LaunchInv, NEW n \in Submissions, Submit(n)
  PROVE  LaunchInv'
<1> USE DEF LaunchInv
<1> DEFINE key == KeyFor(n)
           launch == [content |-> content, key |-> key]
<1>1. /\ n = submissions + 1 /\ submissions' = n
      /\ n \in Nat /\ n # 0 /\ n <= MaxSubmissions /\ submissions \in Nat
      /\ MaxSubmissions \in Nat
  BY BoundAssumption DEF Submit, Submissions, ShapeInv, Numbers
<1>2. /\ job' = [job EXCEPT ![n] = launch]
      /\ pending' = launch
      /\ lastContent' = content
      /\ pc' = [pc EXCEPT ![n] = "access"]
      /\ UNCHANGED <<content, owner, ordered, status, prepared, log, dispatched>>
  BY DEF Submit, runs, ShapeInv
<1>3. content \in Contents /\ content # Nothing
  BY ContentAssumption DEF ShapeInv
\* Either the key of the newest submission, for the same content, or a new one.
<1>4. \/ /\ submissions \in Submissions
         /\ key = job[submissions].key /\ content = job[submissions].content
         /\ content = lastContent
      \/ key = n /\ content # lastContent
  <2>1. CASE content = lastContent
    <3>1. submissions # 0 /\ pending = job[submissions]
      BY <1>3, <2>1 DEF KeyInv
    <3>2. submissions \in Submissions
      BY <1>1, <3>1 DEF Submissions
    <3> QED
      BY <2>1, <3>1, <3>2 DEF KeyFor, KeyInv
  <2>2. CASE content # lastContent
    BY <2>2 DEF KeyFor, KeyInv
  <2> QED
    BY <2>1, <2>2
<1>5. key \in 1..n /\ key \in Numbers
  BY <1>1, <1>4 DEF KeyInv, Numbers
<1>6. /\ job'[n] = launch
      /\ \A m \in Submissions : m # n => job'[m] = job[m]
      /\ \A m \in Submissions : m # n => pc'[m] = pc[m]
      /\ pc'[n] = "access" /\ pc[n] = "unused"
  BY <1>1, <1>2 DEF ShapeInv, KeyInv
<1>7. intent'[n] = key /\ \A m \in Submissions : m # n => intent'[m] = intent[m]
  <2>1. intent' = [intent EXCEPT ![n] =
                      IF content = lastContent THEN intent[submissions] ELSE n]
    BY DEF Submit
  <2>2. content = lastContent => intent[submissions] = key
    BY <1>1, <1>4 DEF KeyInv
  <2>3. content # lastContent => key = n
    BY <1>4
  <2> QED
    BY <2>1, <2>2, <2>3 DEF ShapeInv
<1>8. ShapeInv'
  <2>1. launch \in Launches
    BY <1>3, <1>5 DEF Launches
  <2>2. job' \in [Submissions -> Launches] /\ pending' \in Launches
    BY <1>2, <2>1 DEF ShapeInv
  <2>3. pc' \in [Submissions -> Positions]
    BY <1>2 DEF ShapeInv, Positions, Early
  <2>4. /\ waiting' \in Numbers /\ started' \in Numbers
        /\ submissions' \in Numbers
    BY <1>1 DEF Submit, Numbers
  <2>5. intent' \in [Submissions -> Numbers]
    <3>1. intent' = [m \in Submissions |-> intent'[m]]
      BY DEF Submit, ShapeInv
    <3>2. \A m \in Submissions : intent'[m] \in Numbers
      BY <1>5, <1>7 DEF ShapeInv
    <3> QED
      BY <3>1, <3>2
  <2> QED
    BY <1>2, <2>2, <2>3, <2>4, <2>5 DEF ShapeInv
<1>9. KeyInv'
  <2>1. \A m \in Submissions :
            m > submissions' => pc'[m] = "unused" /\ job'[m] = NoLaunch
    BY <1>1, <1>6 DEF KeyInv, Submissions
  <2>2. \A m \in Submissions :
            m <= submissions' =>
                job'[m].key \in 1..submissions' /\ intent'[m] = job'[m].key
    <3> SUFFICES ASSUME NEW m \in Submissions, m <= submissions'
                 PROVE  job'[m].key \in 1..n /\ intent'[m] = job'[m].key
      BY <1>1
    <3>1. CASE m = n
      BY <1>5, <1>6, <1>7, <3>1
    <3>2. CASE m # n
      <4>1. m <= submissions
        BY <1>1, <3>2 DEF Submissions
      <4> QED
        BY <1>1, <1>6, <1>7, <3>2, <4>1 DEF KeyInv
    <3> QED
      BY <3>1, <3>2
  <2>3. \A m \in Submissions :
            m <= submissions /\ job[m].key = key => job[m].content = content
    <3> SUFFICES ASSUME NEW m \in Submissions, m <= submissions,
                        job[m].key = key
                 PROVE  job[m].content = content
      OBVIOUS
    <3>1. job[m].key # n
      BY <1>1 DEF KeyInv
    <3>2. submissions \in Submissions /\ submissions <= submissions
      BY <1>1, <1>4, <3>1 DEF Submissions
    <3>3. job[submissions].key = key /\ job[submissions].content = content
      BY <1>4, <3>1
    <3> QED
      BY <3>2, <3>3 DEF KeyInv
  <2>4. \A l, m \in Submissions :
            /\ l <= submissions' /\ m <= submissions'
            /\ job'[l].key = job'[m].key
            => job'[l].content = job'[m].content
    <3> SUFFICES ASSUME NEW l \in Submissions, NEW m \in Submissions,
                        l <= n, m <= n, job'[l].key = job'[m].key
                 PROVE  job'[l].content = job'[m].content
      BY <1>1
    <3>1. (l # n => l <= submissions) /\ (m # n => m <= submissions)
      BY <1>1 DEF Submissions
    <3>2. CASE l = n /\ m # n
      BY <1>6, <2>3, <3>1, <3>2
    <3>3. CASE l # n /\ m = n
      BY <1>6, <2>3, <3>1, <3>3
    <3>4. CASE l # n /\ m # n
      BY <1>6, <3>1, <3>4 DEF KeyInv
    <3> QED
      BY <3>2, <3>3, <3>4
  <2>5. pending'.content = lastContent' /\ submissions' # 0
        /\ pending' = job'[submissions']
    BY <1>1, <1>2, <1>6
  <2> QED
    BY <2>1, <2>2, <2>4, <2>5 DEF KeyInv
<1>10. \A r \in Runs : r <= submissions => r # n
  BY <1>1 DEF Runs, Submissions
<1>11. OwnerInv'
  <2>1. \A k \in Keys :
            owner'[k] # 0 =>
                /\ owner'[k] <= submissions'
                /\ job'[owner'[k]].key = k
                /\ ordered'[owner'[k]] = job'[owner'[k]].content
    <3> SUFFICES ASSUME NEW k \in Keys, owner[k] # 0
                 PROVE  /\ owner[k] <= n
                        /\ job'[owner[k]].key = k
                        /\ ordered[owner[k]] = job'[owner[k]].content
      BY <1>1, <1>2
    <3>1. owner[k] \in Submissions /\ owner[k] <= submissions
      BY <1>1 DEF OwnerInv, ShapeInv, Numbers, Submissions
    <3>2. owner[k] # n
      BY <1>1, <1>10, <3>1 DEF Runs
    <3>3. job'[owner[k]] = job[owner[k]]
      BY <1>6, <3>1, <3>2
    <3> QED
      BY <1>1, <3>1, <3>3 DEF OwnerInv, Submissions
  <2>2. \A r \in Runs :
            status'[r] # "none" =>
                r <= submissions' /\ owner'[job'[r].key] = r
    BY <1>1, <1>2, <1>6, <1>10 DEF OwnerInv, Runs, Submissions
  <2>3. status[n] = "none"
    BY <1>6 DEF OwnerInv, Early
  <2>4. \A m \in Submissions : pc'[m] \in Early => status'[m] = "none"
    BY <1>2, <1>6, <2>3 DEF OwnerInv
  <2>5. \A m \in Submissions :
            pc'[m] \in Preparing \cup {"dispatch"} => status'[m] # "none"
    BY <1>2, <1>6 DEF OwnerInv, Preparing
  <2> QED
    BY <2>1, <2>2, <2>4, <2>5 DEF OwnerInv
<1>12. LogInv'
  <2> SUFFICES ASSUME NEW r \in Runs
               PROVE  /\ LogOf(r)'
                      /\ pc'[r] \in Preparing => Unannounced(r)'
                      /\ pc'[r] = "event" => prepared'[r]
                      /\ pc'[r] = "dispatch" \/ dispatched'[r] =>
                             prepared'[r] /\ ~Unannounced(r)'
                      /\ status'[r] \in {"running", "cancelling", "ended"} =>
                             prepared'[r]
    BY DEF LogInv
  <2>1. pc'[r] = pc[r] \/ pc'[r] = "access"
    BY <1>6 DEF Runs
  <2> QED
    BY <1>2, <2>1 DEF LogInv, LogOf, Unannounced, Preparing
<1> QED
  BY <1>8, <1>9, <1>11, <1>12

\* createRun: the key had no run, and this submission has none.
LEMMA CreateStep ==
  ASSUME LaunchInv, NEW n \in Submissions, CreateRun(n)
  PROVE  LaunchInv'
<1> USE DEF LaunchInv
<1> DEFINE k == job[n].key
<1>1. /\ pc[n] = "insert" /\ n <= submissions /\ n \in Nat /\ n # 0
      /\ k \in Keys /\ status[n] = "none" /\ log[n] = <<>>
      /\ ~dispatched[n]
  <2>1. pc[n] = "insert"
    BY DEF CreateRun
  <2>2. n <= submissions /\ n \in Nat /\ n # 0
    BY <2>1 DEF KeyInv, ShapeInv, Numbers, Submissions
  <2>3. k \in Keys
    BY <2>2, BoundAssumption DEF KeyInv, ShapeInv, Numbers, Keys, Submissions
  <2>4. status[n] = "none"
    BY <2>1 DEF OwnerInv, Early
  <2>5. log[n] = <<>>
    BY <2>4 DEF LogInv, LogOf, Runs
  <2>6. ~dispatched[n]
    BY <2>5 DEF LogInv, Unannounced, Runs
  <2> QED
    BY <2>1, <2>2, <2>3, <2>4, <2>5, <2>6
<1>2. UNCHANGED <<job, prepared, log, dispatched, submissions>>
  BY DEF CreateRun, bounds
<1>3. CASE Fail(n) /\ UNCHANGED <<owner, ordered, status>>
  <2>1. KeptOrCleared /\ GoesOn
    BY <1>1, <1>3, FailQuiet
  <2>2. ShapeInv'
    BY <1>1, <1>2, <1>3, FailQuiet DEF ShapeInv
  <2> QED
    BY <1>1, <1>2, <1>3, <2>1, <2>2, FailQuiet, QuietStep
<1>4. CASE /\ owner[k] = 0
           /\ owner' = [owner EXCEPT ![k] = n]
           /\ ordered' = [ordered EXCEPT ![n] = job[n].content]
           /\ status' = [status EXCEPT ![n] = "queued"]
           /\ Goto(n, "rows")
           /\ UNCHANGED <<composer, ghost>>
  <2>1. UNCHANGED <<content, pending, waiting, started, intent, lastContent>>
    BY <1>4 DEF composer, ghost
  <2>2. /\ status'[n] = "queued" /\ pc'[n] = "rows" /\ owner'[k] = n
        /\ ordered'[n] = job[n].content
        /\ \A m \in Submissions :
               m # n => /\ status'[m] = status[m] /\ pc'[m] = pc[m]
                        /\ ordered'[m] = ordered[m]
        /\ \A j \in Keys : j # k => owner'[j] = owner[j]
    BY <1>1, <1>4 DEF ShapeInv, Goto, Runs
  <2>3. ShapeInv'
    <3>1. owner' \in [Keys -> Numbers]
      BY <1>1, <1>4, BoundAssumption DEF ShapeInv, Numbers, Submissions
    <3>2. ordered' \in [Runs -> Contents \cup {Nothing}]
      BY <1>4 DEF ShapeInv, Launches
    <3>3. status' \in [Runs -> Statuses] /\ pc' \in [Submissions -> Positions]
      BY <1>4 DEF ShapeInv, Statuses, Goto, Positions, Preparing
    <3> QED
      BY <1>2, <2>1, <3>1, <3>2, <3>3 DEF ShapeInv
  <2>4. KeyInv'
    <3>1. \A m \in Submissions : pc[m] = "unused" => pc'[m] = "unused"
      BY <1>1, <2>2
    <3> QED
      BY <1>2, <2>1, <3>1, KeyKept DEF KeptOrCleared
  <2>5. OwnerInv'
    <3>1. \A j \in Keys :
              owner'[j] # 0 =>
                  /\ owner'[j] <= submissions'
                  /\ job'[owner'[j]].key = j
                  /\ ordered'[owner'[j]] = job'[owner'[j]].content
      <4> SUFFICES ASSUME NEW j \in Keys, owner'[j] # 0
                   PROVE  /\ owner'[j] <= submissions
                          /\ job[owner'[j]].key = j
                          /\ ordered'[owner'[j]] = job[owner'[j]].content
        BY <1>2
      <4>1. CASE j = k
        BY <1>1, <2>2, <4>1
      <4>2. CASE j # k
        <5>1. owner'[j] = owner[j] /\ owner[j] \in Submissions
          BY <2>2, <4>2 DEF ShapeInv, Numbers, Submissions
        <5>2. owner[j] # n
          BY <4>2, <5>1 DEF OwnerInv
        <5> QED
          BY <2>2, <5>1, <5>2 DEF OwnerInv
      <4> QED
        BY <4>1, <4>2
    <3>2. \A r \in Runs :
              status'[r] # "none" =>
                  r <= submissions' /\ owner'[job'[r].key] = r
      <4> SUFFICES ASSUME NEW r \in Runs, status'[r] # "none"
                   PROVE  r <= submissions /\ owner'[job[r].key] = r
        BY <1>2
      <4>1. CASE r = n
        BY <1>1, <2>2, <4>1
      <4>2. CASE r # n
        <5>1. r <= submissions /\ owner[job[r].key] = r
          BY <2>2, <4>2 DEF OwnerInv, Runs
        <5>2. job[r].key # k
          BY <1>4, <5>1 DEF Runs, Submissions
        <5>3. job[r].key \in Keys
          BY <5>1, BoundAssumption
             DEF KeyInv, ShapeInv, Numbers, Keys, Runs, Submissions
        <5> QED
          BY <2>2, <5>1, <5>2, <5>3
      <4> QED
        BY <4>1, <4>2
    <3>3. \A m \in Submissions : pc'[m] \in Early => status'[m] = "none"
      BY <2>2 DEF OwnerInv, Early
    <3>4. \A m \in Submissions :
              pc'[m] \in Preparing \cup {"dispatch"} => status'[m] # "none"
      BY <2>2 DEF OwnerInv
    <3> QED
      BY <3>1, <3>2, <3>3, <3>4 DEF OwnerInv
  <2>6. LogInv'
    <3> SUFFICES ASSUME NEW r \in Runs
                 PROVE  /\ LogOf(r)'
                        /\ pc'[r] \in Preparing => Unannounced(r)'
                        /\ pc'[r] = "event" => prepared'[r]
                        /\ pc'[r] = "dispatch" \/ dispatched'[r] =>
                               prepared'[r] /\ ~Unannounced(r)'
                        /\ status'[r] \in {"running", "cancelling", "ended"} =>
                               prepared'[r]
      BY DEF LogInv
    <3>1. CASE r = n
      BY <1>1, <1>2, <2>2, <3>1 DEF LogOf, Unannounced
    <3>2. CASE r # n
      BY <1>2, <2>2, <3>2 DEF LogInv, LogOf, Unannounced, Runs
    <3> QED
      BY <3>1, <3>2
  <2> QED
    BY <2>3, <2>4, <2>5, <2>6
<1> QED
  BY <1>3, <1>4 DEF CreateRun

\* A step that leaves the submissions and the owners of the keys alone, and
\* gives no run its first status or position.
LEMMA RowStep ==
  ASSUME LaunchInv, ShapeInv', LogInv', KeptOrCleared,
         UNCHANGED <<job, intent, submissions, owner, ordered>>,
         \A r \in Runs : (status[r] = "none") <=> (status'[r] = "none"),
         \A m \in Submissions :
             \/ pc'[m] = pc[m]
             \/ /\ pc[m] \in Preparing \cup {"dispatch"}
                /\ pc'[m] \in Preparing \cup {"dispatch", "done"}
  PROVE  LaunchInv'
<1>1. KeyInv'
  <2>1. \A m \in Submissions : pc[m] = "unused" => pc'[m] = "unused"
    BY DEF Preparing
  <2> QED
    BY <2>1, KeyKept DEF LaunchInv
<1>2. OwnerInv'
  BY DEF LaunchInv, OwnerInv, Preparing, Early, Runs
<1> QED
  BY <1>1, <1>2 DEF LaunchInv

\* The clauses of the log's invariant, for one run.
LogFits(r) ==
    /\ LogOf(r)
    /\ pc[r] \in Preparing => Unannounced(r)
    /\ pc[r] = "event" => prepared[r]
    /\ pc[r] = "dispatch" \/ dispatched[r] => prepared[r] /\ ~Unannounced(r)
    /\ status[r] \in {"running", "cancelling", "ended"} => prepared[r]

\* Short logs.
LEMMA AppendNone ==
  ASSUME NEW a
  PROVE  Append(<<>>, a) = <<a>>
OBVIOUS

LEMMA AppendOne ==
  ASSUME NEW a, NEW b
  PROVE  Append(<<a>>, b) = <<a, b>>
<1> DEFINE S == {a, b}
           s == Append(<<a>>, b)
           t == <<a, b>>
<1>1. /\ <<a>> \in Seq(S) /\ b \in S /\ Len(<<a>>) = 1
      /\ <<a>>[1] = a
  OBVIOUS
<1>2. /\ s \in Seq(S) /\ Len(s) = 1 + 1
      /\ (\A i \in 1..1 : s[i] = <<a>>[i]) /\ s[1 + 1] = b
  <2> HIDE DEF S
  <2> QED
    BY ONLY <1>1, AppendProperties
<1>3. /\ t \in Seq(S) /\ Len(t) = 2
      /\ t[1] = a /\ t[2] = b
  OBVIOUS
<1> HIDE DEF s, t, S
<1>4. \A i \in 1..Len(s) : s[i] = t[i]
  BY <1>1, <1>2, <1>3
<1>5. s = t
  BY <1>2, <1>3, <1>4, SeqEqual
<1> QED
  BY <1>5 DEF s, t

LEMMA AppendTwo ==
  ASSUME NEW a, NEW b, NEW c
  PROVE  Append(<<a, b>>, c) = <<a, b, c>>
<1> DEFINE S == {a, b, c}
           s == Append(<<a, b>>, c)
           t == <<a, b, c>>
<1>1. /\ <<a, b>> \in Seq(S) /\ c \in S /\ Len(<<a, b>>) = 2
      /\ <<a, b>>[1] = a /\ <<a, b>>[2] = b
  OBVIOUS
<1>2. /\ s \in Seq(S) /\ Len(s) = 2 + 1
      /\ (\A i \in 1..2 : s[i] = <<a, b>>[i]) /\ s[2 + 1] = c
  <2> HIDE DEF S
  <2> QED
    BY ONLY <1>1, AppendProperties
<1>3. /\ t \in Seq(S) /\ Len(t) = 3
      /\ t[1] = a /\ t[2] = b /\ t[3] = c
  OBVIOUS
<1> HIDE DEF s, t, S
<1>4. \A i \in 1..Len(s) : s[i] = t[i]
  BY <1>1, <1>2, <1>3
<1>5. s = t
  BY <1>2, <1>3, <1>4, SeqEqual
<1> QED
  BY <1>5 DEF s, t

LEMMA AppendThree ==
  ASSUME NEW a, NEW b, NEW c, NEW d
  PROVE  Append(<<a, b, c>>, d) = <<a, b, c, d>>
<1> DEFINE S == {a, b, c, d}
           s == Append(<<a, b, c>>, d)
           t == <<a, b, c, d>>
<1>1. /\ <<a, b, c>> \in Seq(S) /\ d \in S /\ Len(<<a, b, c>>) = 3
      /\ <<a, b, c>>[1] = a /\ <<a, b, c>>[2] = b /\ <<a, b, c>>[3] = c
  OBVIOUS
<1>2. /\ s \in Seq(S) /\ Len(s) = 3 + 1
      /\ (\A i \in 1..3 : s[i] = <<a, b, c>>[i]) /\ s[3 + 1] = d
  <2> HIDE DEF S
  <2> QED
    BY ONLY <1>1, AppendProperties
<1>3. /\ t \in Seq(S) /\ Len(t) = 4
      /\ t[1] = a /\ t[2] = b /\ t[3] = c /\ t[4] = d
  OBVIOUS
<1> HIDE DEF s, t, S
<1>4. \A i \in 1..Len(s) : s[i] = t[i]
  BY <1>1, <1>2, <1>3
<1>5. s = t
  BY <1>2, <1>3, <1>4, SeqEqual
<1> QED
  BY <1>5 DEF s, t

LEMMA LongIsAnnounced ==
  ASSUME NEW a, NEW b, NEW c, NEW d
  PROVE  /\ <<a, b>> \notin {<<>>, <<Cancelled>>}
         /\ <<a, b, c>> \notin {<<>>, <<Cancelled>>}
         /\ <<a, b, c, d>> \notin {<<>>, <<Cancelled>>}
<1>1. Len(<<a, b>>) = 2 /\ Len(<<a, b, c>>) = 3 /\ Len(<<a, b, c, d>>) = 4
  OBVIOUS
<1>2. Len(<<>>) = 0 /\ Len(<<Cancelled>>) = 1
  OBVIOUS
<1> QED
  BY <1>1, <1>2

\* A step of one run leaves the logs of the others as they are.
LEMMA OtherLogs ==
  ASSUME LaunchInv, NEW n \in Runs, LogFits(n)',
         \A r \in Runs :
             r # n => /\ pc'[r] = pc[r] /\ status'[r] = status[r]
                      /\ log'[r] = log[r] /\ prepared'[r] = prepared[r]
                      /\ dispatched'[r] = dispatched[r]
  PROVE  LogInv'
<1> SUFFICES ASSUME NEW r \in Runs PROVE LogFits(r)'
  BY DEF LogInv, LogFits
<1>1. CASE r = n
  BY <1>1
<1>2. CASE r # n
  BY <1>2 DEF LaunchInv, LogInv, LogFits, LogOf, Unannounced
<1> QED
  BY <1>1, <1>2

LEMMA InsertStep ==
  ASSUME LaunchInv, NEW n \in Submissions, InsertSpecialists(n)
  PROVE  LaunchInv'
<1> USE DEF LaunchInv
<1>1. /\ pc[n] = "rows" /\ pc' = [pc EXCEPT ![n] = "event"]
      /\ prepared' = [prepared EXCEPT ![n] = TRUE]
      /\ UNCHANGED <<content, pending, waiting, started, job, owner, ordered,
                     status, log, dispatched, intent, lastContent, submissions>>
  BY DEF InsertSpecialists, Goto, composer, ghost, bounds
<1>2. ShapeInv'
  <2>1. pc' \in [Submissions -> Positions]
    BY <1>1 DEF ShapeInv, Positions, Preparing
  <2>2. prepared' \in [Runs -> BOOLEAN]
    BY <1>1 DEF ShapeInv
  <2> QED
    BY <1>1, <2>1, <2>2 DEF ShapeInv
<1>3. LogInv'
  <2>1. pc'[n] = "event" /\ prepared'[n] = TRUE /\ n \in Runs
    BY <1>1 DEF ShapeInv, Runs
  <2>2. LogFits(n)'
    BY <1>1, <2>1 DEF LogInv, LogFits, LogOf, Unannounced, Preparing
  <2> QED
    BY <1>1, <2>1, <2>2, OtherLogs DEF ShapeInv, Runs
<1>4. \A m \in Submissions :
          \/ pc'[m] = pc[m]
          \/ /\ pc[m] \in Preparing \cup {"dispatch"}
             /\ pc'[m] \in Preparing \cup {"dispatch", "done"}
  BY <1>1 DEF ShapeInv, Preparing
<1> QED
  BY <1>1, <1>2, <1>3, <1>4, RowStep DEF KeptOrCleared

LEMMA PublishStep ==
  ASSUME LaunchInv, NEW n \in Submissions, PublishQueued(n)
  PROVE  LaunchInv'
<1> USE DEF LaunchInv
<1>1. /\ pc[n] = "event" /\ pc' = [pc EXCEPT ![n] = "dispatch"]
      /\ log' = [log EXCEPT ![n] = Append(@, Queued)]
      /\ UNCHANGED <<content, pending, waiting, started, job, owner, ordered,
                     status, prepared, dispatched, intent, lastContent,
                     submissions>>
  BY DEF PublishQueued, Goto, Write, composer, ghost, bounds, Queued
<1>2. ShapeInv'
  <2>1. pc' \in [Submissions -> Positions]
    BY <1>1 DEF ShapeInv, Positions
  <2>2. log' = [r \in Runs |-> log'[r]]
    BY <1>1 DEF ShapeInv
  <2> QED
    BY <1>1, <2>1, <2>2 DEF ShapeInv
<1>3. LogInv'
  <2>1. pc'[n] = "dispatch" /\ log'[n] = Append(log[n], Queued) /\ n \in Runs
    BY <1>1 DEF ShapeInv, Runs
  <2>2. prepared[n] /\ Unannounced(n) /\ status[n] # "none" /\ LogOf(n)
    BY <1>1, <2>1 DEF LogInv, OwnerInv, Preparing
  <2>3. \/ status[n] = "queued" /\ log[n] = <<>>
        \/ status[n] = "cancelled" /\ log[n] = <<Cancelled>>
    BY <2>2 DEF LogOf, Unannounced, Queued, Started, Cancelled
  <2>4. \/ status[n] = "queued" /\ log'[n] = <<Queued>>
        \/ status[n] = "cancelled" /\ log'[n] = <<Cancelled, Queued>>
    <3>1. CASE status[n] = "queued" /\ log[n] = <<>>
      BY <2>1, <3>1, AppendNone
    <3>2. CASE status[n] = "cancelled" /\ log[n] = <<Cancelled>>
      BY <2>1, <3>2, AppendOne
    <3> QED
      BY <2>3, <3>1, <3>2
  <2>5. ~Unannounced(n)'
    <3>1. <<Queued>> # <<Cancelled>>
      BY DEF Queued, Cancelled
    <3> QED
      BY <2>4, <3>1, LongIsAnnounced DEF Unannounced
  <2>6. LogOf(n)'
    BY <1>1, <2>4 DEF LogOf
  <2>7. LogFits(n)'
    BY <1>1, <2>1, <2>2, <2>5, <2>6, <2>4 DEF LogFits, Preparing
  <2> QED
    BY <1>1, <2>1, <2>7, OtherLogs DEF ShapeInv, Runs
<1>4. \A m \in Submissions :
          \/ pc'[m] = pc[m]
          \/ /\ pc[m] \in Preparing \cup {"dispatch"}
             /\ pc'[m] \in Preparing \cup {"dispatch", "done"}
  BY <1>1 DEF ShapeInv, Preparing
<1> QED
  BY <1>1, <1>2, <1>3, <1>4, RowStep DEF KeptOrCleared

LEMMA DispatchStep ==
  ASSUME LaunchInv, SetupInv, NEW n \in Submissions, DispatchAndAnswer(n)
  PROVE  LaunchInv'
<1> USE DEF LaunchInv
<1>1. /\ pc[n] = "dispatch" /\ n \in Runs
      /\ dispatched' = [dispatched EXCEPT ![n] = eventKey]
      /\ Launched(n, n)
      /\ UNCHANGED <<job, owner, ordered, status, prepared, log, submissions>>
  BY DEF DispatchAndAnswer, Dispatchable, bounds, Runs
<1>2. /\ KeptOrCleared
      /\ waiting' \in Numbers /\ started' \in Numbers /\ pending' \in Launches
      /\ pc' \in [Submissions -> Positions]
      /\ UNCHANGED <<content, intent>>
  BY <1>1, LaunchedShape
<1>3. dispatched' \in [Runs -> BOOLEAN]
  BY <1>1 DEF ShapeInv, SetupInv
<1>4. ShapeInv'
  BY <1>1, <1>2, <1>3 DEF ShapeInv
<1>5. pc' = [pc EXCEPT ![n] = "done"]
  BY <1>1 DEF Launched, Goto
<1>6. LogInv'
  <2>1. pc'[n] = "done" /\ dispatched'[n] \in BOOLEAN
    BY <1>1, <1>3, <1>5 DEF ShapeInv
  <2>2. LogFits(n)'
    BY <1>1, <2>1 DEF LogInv, LogFits, LogOf, Unannounced, Preparing
  <2> QED
    BY <1>1, <1>5, <2>2, OtherLogs DEF ShapeInv, Runs
<1>7. \A m \in Submissions :
          \/ pc'[m] = pc[m]
          \/ /\ pc[m] \in Preparing \cup {"dispatch"}
             /\ pc'[m] \in Preparing \cup {"dispatch", "done"}
  BY <1>1, <1>5 DEF ShapeInv
<1> QED
  BY <1>1, <1>2, <1>4, <1>6, <1>7, RowStep

\* The run row and its log, when the run begins, ends or is cancelled.
LEMMA RunStep ==
  ASSUME LaunchInv, Cancel \/ (\E r \in Runs : Begin(r) \/ End(r))
  PROVE  LaunchInv'
<1> USE DEF LaunchInv
<1> DEFINE Moves(r, from, to, event) ==
             /\ status[r] = from
             /\ status' = [status EXCEPT ![r] = to]
             /\ log' = [log EXCEPT ![r] = Append(@, event)]
<1>1. UNCHANGED <<content, pending, waiting, started, pc, job, owner, ordered,
                  prepared, dispatched, intent, lastContent, submissions>>
  BY DEF Cancel, Begin, End, composer, ghost, bounds
<1>2. PICK r \in Runs :
          \/ Moves(r, "queued", "cancelled", Cancelled)
          \/ Moves(r, "running", "cancelling", Requested)
          \/ dispatched[r] /\ Moves(r, "queued", "running", Started)
          \/ Moves(r, "running", "ended", Ended)
          \/ Moves(r, "cancelling", "ended", Ended)
  <2>1. CASE Cancel
    <3>1. started \in Runs
      BY <2>1, BoundAssumption
         DEF Cancel, ShapeInv, Numbers, Runs, Submissions
    <3> QED
      BY <2>1, <3>1 DEF Cancel, Write, Cancelled, Requested
  <2>2. CASE \E r \in Runs : Begin(r)
    BY <2>2 DEF Begin, Write, Started
  <2>3. CASE \E r \in Runs : End(r)
    BY <2>3 DEF End, Write, Ended
  <2> QED
    BY <2>1, <2>2, <2>3
<1>3. ShapeInv'
  <2>1. status' \in [Runs -> Statuses] /\ log' = [q \in Runs |-> log'[q]]
    BY <1>2 DEF ShapeInv, Statuses
  <2> QED
    BY <1>1, <2>1 DEF ShapeInv
<1>4. /\ status[r] # "none" /\ status'[r] # "none"
      /\ \A q \in Runs : q # r => status'[q] = status[q] /\ log'[q] = log[q]
  BY <1>2 DEF ShapeInv
<1>5. LogFits(r)'
  <2>1. LogFits(r)
    BY DEF LogInv, LogFits
  <2>2. ASSUME Moves(r, "queued", "cancelled", Cancelled)
        PROVE  LogFits(r)'
    <3>1. /\ log[r] \in {<<>>, <<Queued>>}
          /\ status'[r] = "cancelled" /\ log'[r] = Append(log[r], Cancelled)
      BY <2>1, <2>2 DEF LogFits, LogOf, ShapeInv
    <3>2. \/ log[r] = <<>> /\ log'[r] = <<Cancelled>>
          \/ log[r] = <<Queued>> /\ log'[r] = <<Queued, Cancelled>>
      <4>1. CASE log[r] = <<>>
        BY <3>1, <4>1, AppendNone
      <4>2. CASE log[r] = <<Queued>>
        BY <3>1, <4>2, AppendOne
      <4> QED
        BY <3>1, <4>1, <4>2
    <3>3. LogOf(r)'
      BY <1>1, <3>1, <3>2 DEF LogOf
    <3>4. CASE log[r] = <<>> /\ log'[r] = <<Cancelled>>
      <4>1. Unannounced(r) /\ Unannounced(r)'
        BY <3>4 DEF Unannounced
      <4> QED
        BY <1>1, <2>1, <3>1, <3>3, <4>1 DEF LogFits
    <3>5. CASE log[r] = <<Queued>> /\ log'[r] = <<Queued, Cancelled>>
      <4>1. ~Unannounced(r)
        <5>1. <<Queued>> # <<Cancelled>>
          BY DEF Queued, Cancelled
        <5> QED
          BY <3>5, <5>1 DEF Unannounced
      <4>2. ~Unannounced(r)'
        BY <3>5, LongIsAnnounced DEF Unannounced
      <4> QED
        BY <1>1, <2>1, <3>1, <3>3, <4>1, <4>2 DEF LogFits
    <3> QED
      BY <3>2, <3>4, <3>5
  <2>3. ASSUME Moves(r, "running", "cancelling", Requested)
        PROVE  LogFits(r)'
    <3>1. /\ log[r] = <<Queued, Started>>
          /\ status'[r] = "cancelling" /\ log'[r] = Append(log[r], Requested)
      BY <2>1, <2>3 DEF LogFits, LogOf, ShapeInv
    <3>2. log'[r] = <<Queued, Started, Requested>>
      BY <3>1, AppendTwo
    <3>3. ~Unannounced(r) /\ ~Unannounced(r)'
      BY <3>1, <3>2, LongIsAnnounced DEF Unannounced
    <3> QED
      BY <1>1, <2>1, <2>3, <3>1, <3>2, <3>3 DEF LogFits, LogOf
  <2>4. ASSUME dispatched[r], Moves(r, "queued", "running", Started)
        PROVE  LogFits(r)'
    <3>1. /\ log[r] \in {<<>>, <<Queued>>} /\ prepared[r] /\ ~Unannounced(r)
          /\ status'[r] = "running" /\ log'[r] = Append(log[r], Started)
      BY <2>1, <2>4 DEF LogFits, LogOf, ShapeInv
    <3>2. log'[r] = <<Queued, Started>>
      BY <3>1, AppendOne DEF Unannounced
    <3>3. ~Unannounced(r) /\ ~Unannounced(r)'
      BY <3>1, <3>2, LongIsAnnounced DEF Unannounced
    <3> QED
      BY <1>1, <2>1, <3>1, <3>2, <3>3 DEF LogFits, LogOf
  <2>5. ASSUME Moves(r, "running", "ended", Ended)
        PROVE  LogFits(r)'
    <3>1. /\ log[r] = <<Queued, Started>>
          /\ status'[r] = "ended" /\ log'[r] = Append(log[r], Ended)
      BY <2>1, <2>5 DEF LogFits, LogOf, ShapeInv
    <3>2. log'[r] = <<Queued, Started, Ended>>
      BY <3>1, AppendTwo
    <3>3. ~Unannounced(r) /\ ~Unannounced(r)'
      BY <3>1, <3>2, LongIsAnnounced DEF Unannounced
    <3> QED
      BY <1>1, <2>1, <2>5, <3>1, <3>2, <3>3 DEF LogFits, LogOf
  <2>6. ASSUME Moves(r, "cancelling", "ended", Ended)
        PROVE  LogFits(r)'
    <3>1. /\ log[r] = <<Queued, Started, Requested>>
          /\ status'[r] = "ended" /\ log'[r] = Append(log[r], Ended)
      BY <2>1, <2>6 DEF LogFits, LogOf, ShapeInv
    <3>2. log'[r] = <<Queued, Started, Requested, Ended>>
      BY <3>1, AppendThree
    <3>3. ~Unannounced(r) /\ ~Unannounced(r)'
      BY <3>1, <3>2, LongIsAnnounced DEF Unannounced
    <3> QED
      BY <1>1, <2>1, <2>6, <3>1, <3>2, <3>3 DEF LogFits, LogOf
  <2> QED
    BY <1>2, <2>2, <2>3, <2>4, <2>5, <2>6
<1>6. LogInv'
  BY <1>1, <1>4, <1>5, OtherLogs
<1> QED
  BY <1>1, <1>3, <1>4, <1>6, RowStep DEF KeptOrCleared

LEMMA SetupKept == Spec => []SetupInv
<1>1. Init => SetupInv
  BY DEF Init, SetupInv
<1>2. SetupInv /\ [Next]_vars => SetupInv'
  <2>1. [Next]_vars => UNCHANGED eventKey
    BY DEF Next, Step, vars, setup, runs, Edit, Submit, CheckAccess, Lookup,
       ReadProfiles, CreateRun, InsertSpecialists, PublishQueued,
       DispatchAndAnswer, DispatchFails, Drop, LoseAnswer, Begin, End, Cancel,
       Rebind
  <2> QED
    BY <2>1 DEF SetupInv
<1> QED
  BY <1>1, <1>2, PTL DEF Spec

LEMMA NextLaunchInv == LaunchInv /\ SetupInv /\ [Next]_vars => LaunchInv'
<1> SUFFICES ASSUME LaunchInv, SetupInv, [Next]_vars PROVE LaunchInv'
  OBVIOUS
<1>1. ASSUME NEW n \in Submissions,
             Submit(n) \/ Step(n) \/ DispatchFails(n) \/ Drop(n) \/ LoseAnswer(n)
      PROVE  LaunchInv'
  BY <1>1, SubmitStep, ReadingStep, CreateStep, InsertStep, PublishStep,
     DispatchStep
     DEF Step
<1>2. CASE (\E c \in Contents : Edit(c)) \/ Rebind \/ UNCHANGED vars
  BY <1>2, FormStep
<1>3. CASE Cancel \/ \E r \in Runs : Begin(r) \/ End(r)
  BY <1>3, RunStep
<1> QED
  BY <1>1, <1>2, <1>3 DEF Next

-----------------------------------------------------------------------------
\* The inductive invariant of the composer, the route and the new run.
THEOREM LaunchInvariantHolds == Spec => []LaunchInv
<1>1. Init => LaunchInv
  BY InitLaunchInv
<1>2. LaunchInv /\ SetupInv /\ [Next]_vars => LaunchInv'
  BY NextLaunchInv
<1> QED
  BY <1>1, <1>2, SetupKept, PTL DEF Spec

\* launchRun and the POST handler: however often one form is submitted, with
\* whatever faults and edits in between, it has one run.
THEOREM OneRunPerIntentHolds == Spec => []OneRunPerIntent
<1>1. LaunchInv => OneRunPerIntent
  <2> SUFFICES ASSUME LaunchInv, NEW q \in Runs, NEW r \in Runs,
                      status[q] # "none", status[r] # "none",
                      intent[q] = intent[r]
               PROVE  q = r
    BY DEF OneRunPerIntent
  <2>1. q <= submissions /\ owner[job[q].key] = q
    BY DEF LaunchInv, OwnerInv
  <2>2. r <= submissions /\ owner[job[r].key] = r
    BY DEF LaunchInv, OwnerInv
  <2>3. intent[q] = job[q].key /\ intent[r] = job[r].key
    BY <2>1, <2>2 DEF LaunchInv, KeyInv, Runs
  <2> QED
    BY <2>1, <2>2, <2>3
<1> QED
  BY <1>1, LaunchInvariantHolds, PTL

\* The POST handler: an execution finds its specialists and its first event,
\* although each is committed on its own and a cancellation may come between.
THEOREM StartIsPreparedHolds == Spec => []StartIsPrepared
<1>1. LaunchInv => StartIsPrepared
  <2> SUFFICES ASSUME LaunchInv, NEW r \in Runs
               PROVE  /\ \A i \in DOMAIN log[r] :
                             log[r][i] = "run.started" =>
                                 prepared[r] /\ log[r][1] = "run.queued"
                      /\ \A i \in DOMAIN log[r] :
                             log[r][i] = "run.queued" =>
                                 \A j \in 1..(i - 1) : log[r][j] = "run.cancelled"
    BY DEF StartIsPrepared
  <2> USE DEF Queued, Started, Cancelled, Requested, Ended
  <2>1. LogOf(r) /\ (status[r] \in {"running", "cancelling", "ended"} => prepared[r])
    BY DEF LaunchInv, LogInv
  <2>2. CASE log[r] = <<>>
    BY <2>2
  <2>3. CASE log[r] \in {<<Queued>>, <<Cancelled>>, <<Queued, Cancelled>>,
                         <<Cancelled, Queued>>}
    BY <2>3
  <2>4. CASE /\ prepared[r]
             /\ log[r] \in {<<Queued, Started>>, <<Queued, Started, Requested>>,
                            <<Queued, Started, Ended>>,
                            <<Queued, Started, Requested, Ended>>}
    BY <2>4
  <2> QED
    BY <2>1, <2>2, <2>3, <2>4 DEF LogOf
<1> QED
  BY <1>1, LaunchInvariantHolds, PTL

\* launchRun: the run that is handed on has the content of the submission it is
\* handed on for, whether it was created for it or found.
THEOREM LaunchedAsSubmittedHolds == Spec => LaunchedAsSubmitted
<1> DEFINE A == started' \notin {0, started} =>
                    ordered'[started'] = job[waiting].content
<1>1. LaunchInv /\ LaunchInv' /\ [Next]_vars => [A]_vars
  <2> SUFFICES ASSUME LaunchInv, [Next]_vars,
                      started' \notin {0, started}
               PROVE  ordered'[started'] = job[waiting].content
    OBVIOUS
  <2> USE DEF LaunchInv
  <2>1. PICK n \in Submissions, r \in Runs :
            /\ Launched(n, r)
            /\ pc[n] # "unused"
            /\ UNCHANGED ordered
            /\ r <= submissions /\ job[r].key = job[n].key
            /\ ordered[r] = job[r].content
    <3>1. ~UNCHANGED vars
      BY DEF vars, composer
    <3>2. PICK n \in Submissions : Lookup(n) \/ DispatchAndAnswer(n)
      <4>1. ASSUME NEW n \in Submissions,
                   \/ Submit(n) \/ CheckAccess(n) \/ ReadProfiles(n)
                   \/ CreateRun(n) \/ InsertSpecialists(n) \/ PublishQueued(n)
                   \/ DispatchFails(n) \/ Drop(n) \/ LoseAnswer(n)
            PROVE  started' \in {0, started}
        BY <4>1 DEF Submit, CheckAccess, ReadProfiles, CreateRun,
                    InsertSpecialists, PublishQueued, DispatchFails, Drop,
                    LoseAnswer, Fail, AnswersError, composer
      <4>2. ASSUME \/ \E c \in Contents : Edit(c)
                   \/ \E r \in Runs : Begin(r) \/ End(r)
                   \/ Cancel \/ Rebind
            PROVE  started' = started
        BY <4>2 DEF Edit, Begin, End, Cancel, Rebind, composer
      <4> QED
        BY <3>1, <4>1, <4>2 DEF Next, Step
    <3>3. n <= submissions /\ pc[n] # "unused"
      BY <3>2
         DEF Lookup, DispatchAndAnswer, Dispatchable, KeyInv, ShapeInv,
             Submissions, Numbers
    <3>4. CASE DispatchAndAnswer(n)
      <4>1. Launched(n, n) /\ UNCHANGED ordered /\ pc[n] = "dispatch"
        BY <3>4 DEF DispatchAndAnswer, Dispatchable
      <4>2. n \in Runs /\ status[n] # "none"
        BY <4>1 DEF OwnerInv, Preparing, Runs
      <4>3. job[n].key \in Keys /\ owner[job[n].key] = n /\ n # 0
        BY <3>3, <4>2, BoundAssumption
           DEF OwnerInv, KeyInv, ShapeInv, Keys, Runs, Submissions, Numbers
      <4>4. ordered[n] = job[n].content
        BY <4>3 DEF OwnerInv
      <4> QED
        BY <3>3, <4>1, <4>2, <4>4
    <3>5. CASE Lookup(n)
      <4> DEFINE r == owner[job[n].key]
      <4>1. r # 0 /\ Launched(n, r) /\ UNCHANGED ordered
        BY <3>5 DEF Lookup, runs, composer
      <4>2. job[n].key \in Keys
        BY <3>3, BoundAssumption
           DEF KeyInv, ShapeInv, Keys, Submissions, Numbers
      <4>3. r \in Runs
        BY <4>1, <4>2, BoundAssumption
           DEF ShapeInv, Runs, Submissions, Numbers
      <4>4. r <= submissions /\ job[r].key = job[n].key
            /\ ordered[r] = job[r].content
        BY <4>1, <4>2 DEF OwnerInv
      <4> QED
        BY <3>3, <4>1, <4>3, <4>4
    <3> QED
      BY <3>2, <3>4, <3>5
  <2>2. waiting = n /\ started' = r
    BY <2>1 DEF Launched
  <2>3. n <= submissions
    BY <2>1 DEF KeyInv, ShapeInv, Submissions, Numbers
  <2>4. job[r].content = job[n].content
    BY <2>1, <2>3 DEF KeyInv, Runs
  <2> QED
    BY <2>1, <2>2, <2>4
<1> QED
  BY <1>1, LaunchInvariantHolds, PTL DEF Spec, LaunchedAsSubmitted

=============================================================================

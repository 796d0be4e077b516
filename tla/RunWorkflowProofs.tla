-------------------------- MODULE RunWorkflowProofs --------------------------
(***************************************************************************)
(* Theorems about RunWorkflow, for every number of specialists and every   *)
(* set of (overlapping, crashing, retried) executions.                     *)
(***************************************************************************)
EXTENDS RunWorkflow, TLAPS

-----------------------------------------------------------------------------
(* What the shared steps do to the types of the variables they write.      *)

LEMMA NestedUpdate ==
  ASSUME NEW A, NEW B, NEW R, NEW f \in [A -> [B -> R]],
         NEW a \in A, NEW b \in B, NEW r \in R
  PROVE  [f EXCEPT ![a][b] = r] \in [A -> [B -> R]]
OBVIOUS

LEMMA GotoType ==
  ASSUME TypeOK, NEW e \in Execs, NEW p \in Positions, Goto(e, p)
  PROVE  pc' \in [Execs -> Positions]
BY DEF TypeOK, Goto

LEMMA TaskGotoType ==
  ASSUME TypeOK, NEW e \in Execs, NEW s \in Specs, NEW p \in TaskStates,
         TaskGoto(e, s, p)
  PROVE  task' \in [Execs -> [Specs -> TaskStates]]
BY NestedUpdate DEF TypeOK, TaskGoto

LEMMA DecideType ==
  ASSUME TypeOK, NEW e \in Execs, NEW t \in TerminalStatuses, Decide(e, t)
  PROVE  /\ pc' \in [Execs -> Positions]
         /\ verdict' \in [Execs -> TerminalStatuses \cup {"none"}]
<1>1. "finalize" \in Positions
  BY DEF Positions
<1> QED
  BY <1>1, GotoType DEF TypeOK, Decide

LEMMA PublishType ==
  ASSUME TypeOK, NEW t \in RunEventTypes, Publish(t)
  PROVE  /\ runEvents' \in [RunEventTypes -> Nat]
         /\ specEvents' \in [Specs -> [SpecEventTypes -> Nat]]
BY DEF TypeOK, Publish

LEMMA PublishForType ==
  ASSUME TypeOK, NEW s \in Specs, NEW t \in SpecEventTypes, PublishFor(s, t)
  PROVE  /\ runEvents' \in [RunEventTypes -> Nat]
         /\ specEvents' \in [Specs -> [SpecEventTypes -> Nat]]
<1>1. specEvents[s][t] + 1 \in Nat
  BY DEF TypeOK
<1>2. specEvents' = [specEvents EXCEPT ![s][t] = specEvents[s][t] + 1]
  BY DEF PublishFor
<1> QED
  BY <1>1, <1>2, NestedUpdate DEF TypeOK, PublishFor

LEMMA EndRunType ==
  ASSUME TypeOK, NEW t \in TerminalStatuses,
         NEW done \in SUBSET Specs, NEW bad \in SUBSET Specs,
         EndRun(t, done, bad)
  PROVE  /\ status' \in RunStatuses
         /\ summary' \in [completed : SUBSET Specs, failed : SUBSET Specs]
         /\ runEvents' \in [RunEventTypes -> Nat]
         /\ specEvents' \in [Specs -> [SpecEventTypes -> Nat]]
<1>1. status' \in RunStatuses
  BY DEF EndRun, RunStatuses
<1>2. summary' \in [completed : SUBSET Specs, failed : SUBSET Specs]
  BY DEF EndRun
<1> QED
  BY <1>1, <1>2, PublishType DEF EndRun, RunEventTypes

LEMMA PollType ==
  ASSUME TypeOK, NEW answer, Poll(answer)
  PROVE  expired' \in BOOLEAN
BY DEF TypeOK, Poll

LEMMA RestartType ==
  ASSUME TypeOK, NEW e \in Execs, Restart(e)
  PROVE  /\ pc' \in [Execs -> Positions]
         /\ restarts' \in [Execs -> 0..Retries]
         /\ verdict' \in [Execs -> TerminalStatuses \cup {"none"}]
         /\ began' \in [Execs -> BOOLEAN]
         /\ prior' \in [Execs -> 0..N]
         /\ task' \in [Execs -> [Specs -> TaskStates]]
         /\ attempts' \in [Execs -> [Specs -> 0..MaxAttempts]]
         /\ seen' \in [Execs -> [Specs -> Outcomes \cup {"none"}]]
<1> USE NAssumption, AttemptsAssumption, RetriesAssumption DEF TypeOK, Restart
<1>1. pc' \in [Execs -> Positions]
  BY DEF Goto, Positions
<1>2. restarts' \in [Execs -> 0..Retries]
  <2>1. restarts[e] \in 0..Retries
    OBVIOUS
  <2>2. CASE restarts[e] > 0
    <3>1. restarts[e] - 1 \in 0..Retries
      BY <2>1, <2>2
    <3>2. restarts' = [restarts EXCEPT ![e] = restarts[e] - 1]
      BY <2>1, <2>2
    <3> QED
      BY <3>1, <3>2
  <2>3. CASE restarts[e] = 0
    BY <2>3
  <2> QED
    BY <2>1, <2>2, <2>3
<1>3. /\ verdict' \in [Execs -> TerminalStatuses \cup {"none"}]
      /\ began' \in [Execs -> BOOLEAN]
  OBVIOUS
<1>4. prior' \in [Execs -> 0..N]
  OBVIOUS
<1>5. task' \in [Execs -> [Specs -> TaskStates]]
  BY DEF TaskStates
<1>6. attempts' \in [Execs -> [Specs -> 0..MaxAttempts]]
  OBVIOUS
<1>7. seen' \in [Execs -> [Specs -> Outcomes \cup {"none"}]]
  OBVIOUS
<1> QED
  BY <1>1, <1>2, <1>3, <1>4, <1>5, <1>6, <1>7

-----------------------------------------------------------------------------
(* Every variable keeps its type.                                          *)

LEMMA InitType == Init => TypeOK
<1> SUFFICES ASSUME Init PROVE TypeOK
  OBVIOUS
<1> USE NAssumption, AttemptsAssumption, RetriesAssumption DEF Init
<1>1. /\ config \in [mode : Modes, policy : Policies, injection : Injections]
      /\ status \in RunStatuses
      /\ cancelRequested \in BOOLEAN
      /\ marks \subseteq {"init", "injection", "done"}
      /\ expired \in BOOLEAN
  BY DEF RunStatuses, ActiveStatuses
<1>2. summary \in [completed : SUBSET Specs, failed : SUBSET Specs]
  OBVIOUS
<1>3. /\ runEvents \in [RunEventTypes -> Nat]
      /\ specEvents \in [Specs -> [SpecEventTypes -> Nat]]
  OBVIOUS
<1>4. /\ ckpt \in [Specs -> Outcomes \cup {"none"}]
      /\ row \in [Specs -> Outcomes \cup {"queued", "retrying"}]
  OBVIOUS
<1>5. /\ pc \in [Execs -> Positions]
      /\ verdict \in [Execs -> TerminalStatuses \cup {"none"}]
      /\ began \in [Execs -> BOOLEAN]
  BY DEF Positions
<1>6. restarts \in [Execs -> 0..Retries]
  OBVIOUS
<1>7. prior \in [Execs -> 0..N]
  OBVIOUS
<1>8. task \in [Execs -> [Specs -> TaskStates]]
  BY DEF TaskStates
<1>9. attempts \in [Execs -> [Specs -> 0..MaxAttempts]]
  OBVIOUS
<1>10. seen \in [Execs -> [Specs -> Outcomes \cup {"none"}]]
  OBVIOUS
<1> QED
  BY <1>1, <1>2, <1>3, <1>4, <1>5, <1>6, <1>7, <1>8, <1>9, <1>10 DEF TypeOK

LEMMA RunStepType ==
  ASSUME TypeOK, DecisionSound, NEW e \in Execs, RunStep(e)
  PROVE  TypeOK'
<1> USE DEF TypeOK, Goto, Decide, SaveMark, runRow, events, stores, tasks,
            Positions
<1>1. CASE RejectStale(e)
  <2>1. "failed" \in TerminalStatuses
    BY DEF TerminalStatuses
  <2>2. CASE EndRun("failed", {}, {})
    <3>1. {} \in SUBSET Specs
      OBVIOUS
    <3> QED
      BY <1>1, <2>1, <2>2, <3>1, EndRunType DEF RejectStale
  <2>3. CASE UNCHANGED <<status, summary, events>>
    BY <1>1, <2>3 DEF RejectStale
  <2> QED
    BY <1>1, <2>2, <2>3 DEF RejectStale
<1>2. CASE Enter(e)
  BY <1>2 DEF Enter
<1>3. CASE PreCancel(e)
  BY <1>3 DEF PreCancel, TerminalStatuses
<1>4. CASE LoadInit(e)
  BY <1>4 DEF LoadInit
<1>5. CASE BeginRun(e)
  BY <1>5 DEF BeginRun, RunStatuses, ActiveStatuses
<1>6. CASE BeginLost(e)
  BY <1>6 DEF BeginLost
<1>7. CASE LostCancel(e)
  BY <1>7 DEF LostCancel, TerminalStatuses
<1>8. CASE SaveInit(e)
  BY <1>8 DEF SaveInit
<1>9. CASE AnnounceStart(e)
  <2>1. "started" \in RunEventTypes
    BY DEF RunEventTypes
  <2> QED
    BY <1>9, <2>1, PublishType DEF AnnounceStart
<1>10. CASE ApplyInjectionPolicy(e)
  BY <1>10 DEF ApplyInjectionPolicy, TerminalStatuses
<1>11. CASE AnnounceInjection(e)
  <2>1. "safety" \in RunEventTypes
    BY DEF RunEventTypes
  <2> QED
    BY <1>11, <2>1, PublishType DEF AnnounceInjection
<1>12. CASE Join(e)
  BY <1>12 DEF Join, JoinedStatus, TerminalStatuses
<1>13. CASE Rethrow(e)
  BY <1>13, RestartType DEF Rethrow
<1>14. CASE Finalize(e)
  <2>1. /\ ReportedAs(e, "completed") \in SUBSET Specs
        /\ ReportedAs(e, "failed") \in SUBSET Specs
    BY DEF ReportedAs, Reported
  <2>2. CASE EndRun(verdict[e], ReportedAs(e, "completed"),
                    ReportedAs(e, "failed"))
    <3>1. verdict[e] \in TerminalStatuses
      BY <1>14 DEF Finalize, DecisionSound
    <3> QED
      BY <1>14, <2>1, <2>2, <3>1, EndRunType DEF Finalize
  <2>3. CASE UNCHANGED <<status, summary, events>>
    BY <1>14, <2>3 DEF Finalize
  <2> QED
    BY <1>14, <2>2, <2>3 DEF Finalize
<1>15. CASE SaveDone(e)
  BY <1>15 DEF SaveDone
<1> QED
  BY <1>1, <1>2, <1>3, <1>4, <1>5, <1>6, <1>7, <1>8, <1>9, <1>10, <1>11,
     <1>12, <1>13, <1>14, <1>15 DEF RunStep

LEMMA SpecialistStepType ==
  ASSUME TypeOK, OutcomeKnown, NEW e \in Execs, NEW s \in Specs,
         SpecialistStep(e, s)
  PROVE  TypeOK'
<1> USE DEF At
<1>1. CASE Resume(e, s)
  <2>1. {"run", "resume"} \subseteq Positions
    BY DEF Positions
  <2>2. pc' \in [Execs -> Positions]
    BY <1>1, <2>1, GotoType DEF Resume
  <2>3. prior' \in [Execs -> 0..N]
    <3>1. s \in 0..N
      BY NAssumption DEF Specs
    <3> QED
      BY <1>1, <3>1 DEF Resume, TypeOK
  <2>4. task' \in [Execs -> [Specs -> TaskStates]]
    <3>1. {"loaded", "gate", "pending"} \subseteq TaskStates
      BY DEF TaskStates, Working
    <3>2. PICK p \in TaskStates : TaskGoto(e, s, p)
      BY <1>1, <3>1 DEF Resume
    <3> QED
      BY <3>2, TaskGotoType
  <2>5. seen' \in [Execs -> [Specs -> Outcomes \cup {"none"}]]
    <3>1. ckpt[s] \in Outcomes \cup {"none"}
      BY DEF TypeOK
    <3>2. CASE seen' = [seen EXCEPT ![e][s] = ckpt[s]]
      BY <3>1, <3>2, NestedUpdate DEF TypeOK
    <3> QED
      BY <1>1, <3>2 DEF Resume, TypeOK
  <2> QED
    BY <1>1, <2>2, <2>3, <2>4, <2>5
    DEF Resume, TypeOK, runRow, events, stores
<1>2. CASE NextSpecialist(e, s)
  <2>1. expired' \in BOOLEAN
    BY <1>2, PollType DEF NextSpecialist
  <2>2. /\ pc' \in [Execs -> Positions]
        /\ verdict' \in [Execs -> TerminalStatuses \cup {"none"}]
    <3>1. "cancelled" \in TerminalStatuses /\ "failed" \in TerminalStatuses
      BY DEF TerminalStatuses
    <3> QED
      BY <1>2, <3>1, DecideType DEF NextSpecialist, TypeOK
  <2>3. task' \in [Execs -> [Specs -> TaskStates]]
    <3>1. "gate" \in TaskStates
      BY DEF TaskStates, Working
    <3> QED
      BY <1>2, <3>1, TaskGotoType DEF NextSpecialist, TypeOK
  <2> QED
    BY <1>2, <2>1, <2>2, <2>3
    DEF NextSpecialist, TypeOK, runRow, events, stores
<1>3. ASSUME NEW from, NEW to \in TaskStates, PollTask(e, s, from, to)
      PROVE  /\ expired' \in BOOLEAN
             /\ task' \in [Execs -> [Specs -> TaskStates]]
  <2>1. expired' \in BOOLEAN
    BY <1>3, PollType DEF PollTask
  <2>2. {"cancelled", "timedOut"} \subseteq TaskStates
    BY DEF TaskStates, Rejected
  <2>3. PICK p \in TaskStates : TaskGoto(e, s, p)
    BY <1>3, <2>2 DEF PollTask
  <2> QED
    BY <2>1, <2>3, TaskGotoType
<1>4. CASE Gate(e, s)
  <2>1. "announce" \in TaskStates
    BY DEF TaskStates, Working
  <2> QED
    BY <1>3, <1>4, <2>1
    DEF Gate, PollTask, TypeOK, runRow, events, stores
<1>5. CASE StartAttempt(e, s)
  <2>1. "calling" \in TaskStates
    BY DEF TaskStates, Working
  <2>2. attempts' \in [Execs -> [Specs -> 0..MaxAttempts]]
    <3>1. attempts[e][s] + 1 \in 0..MaxAttempts
      BY <1>5, AttemptsAssumption DEF StartAttempt, AttemptsLeft, TypeOK
    <3>2. CASE attempts' = [attempts EXCEPT ![e][s] = attempts[e][s] + 1]
      BY <3>1, <3>2, NestedUpdate DEF TypeOK
    <3> QED
      BY <1>5, <3>2 DEF StartAttempt, TypeOK
  <2> QED
    BY <1>3, <1>5, <2>1, <2>2
    DEF StartAttempt, PollTask, TypeOK, runRow, events, stores
<1>6. CASE ProviderAnswer(e, s)
  <2>1. {"saveRetry", "saveRow"} \subseteq TaskStates
    BY DEF TaskStates, Working
  <2>2. PICK p \in TaskStates : TaskGoto(e, s, p)
    BY <1>6, <2>1 DEF ProviderAnswer
  <2>3. PICK o \in Outcomes \cup {"none"} : seen' = [seen EXCEPT ![e][s] = o]
    BY <1>6 DEF ProviderAnswer, Outcomes
  <2>4. /\ task' \in [Execs -> [Specs -> TaskStates]]
        /\ seen' \in [Execs -> [Specs -> Outcomes \cup {"none"}]]
    BY <2>2, <2>3, TaskGotoType, NestedUpdate DEF TypeOK
  <2> QED
    BY <1>6, <2>4 DEF ProviderAnswer, TypeOK, runRow, events, stores
<1>7. {"announceRetry", "saveCkpt", "announceCkpt", "announceOutcome", "poll",
       "settled", "threw"} \subseteq TaskStates
  BY DEF TaskStates, Working, Rejected
<1>8. {"started", "checkpointed", "retry_scheduled"} \subseteq SpecEventTypes
  BY DEF SpecEventTypes
<1>9. CASE Announce(e, s)
  BY <1>7, <1>8, <1>9, TaskGotoType, PublishForType
  DEF Announce, TypeOK, runRow, stores
<1>10. CASE SaveRetry(e, s)
  BY <1>7, <1>10, TaskGotoType
  DEF SaveRetry, TypeOK, runRow, events
<1>11. CASE AnnounceRetry(e, s)
  BY <1>7, <1>8, <1>11, TaskGotoType, PublishForType
  DEF AnnounceRetry, TypeOK, runRow, stores
<1>12. CASE SaveRow(e, s)
  <2>1. seen[e][s] \in Outcomes
    BY <1>12 DEF SaveRow, OutcomeKnown
  <2> QED
    BY <1>7, <1>12, <2>1, TaskGotoType DEF SaveRow, TypeOK, runRow, events
<1>13. CASE SaveCkpt(e, s)
  <2>1. CreateWins(s, seen[e][s]) \in Outcomes \cup {"none"}
    BY DEF CreateWins, TypeOK
  <2> QED
    BY <1>7, <1>13, <2>1, TaskGotoType DEF SaveCkpt, TypeOK, runRow, events
<1>14. CASE AnnounceCkpt(e, s)
  BY <1>7, <1>8, <1>14, TaskGotoType, PublishForType
  DEF AnnounceCkpt, TypeOK, runRow, stores
<1>15. CASE AnnounceOutcome(e, s)
  <2>1. seen[e][s] \in SpecEventTypes
    BY <1>15 DEF AnnounceOutcome, OutcomeKnown, SpecEventTypes
  <2>2. prior' \in [Execs -> 0..N]
    <3>1. s \in 0..N
      BY NAssumption DEF Specs
    <3> QED
      BY <1>15, <3>1 DEF AnnounceOutcome, TypeOK
  <2> QED
    BY <1>7, <1>15, <2>1, <2>2, TaskGotoType, PublishForType
    DEF AnnounceOutcome, TypeOK, runRow, stores
<1> QED
  BY <1>1, <1>2, <1>4, <1>5, <1>6, <1>9, <1>10, <1>11, <1>12, <1>13, <1>14,
     <1>15 DEF SpecialistStep

LEMMA DisturbanceType ==
  ASSUME TypeOK, NEW e \in Execs, Disturbance(e)
  PROVE  TypeOK'
<1>1. CASE Crash(e)
  BY <1>1, RestartType DEF Crash, TypeOK, runRow, events, stores
<1>2. ASSUME NEW s \in Specs, Throw(e, s)
      PROVE  TypeOK'
  <2>1. "threw" \in TaskStates
    BY DEF TaskStates, Rejected
  <2> QED
    BY <1>2, <2>1, TaskGotoType DEF Throw, TypeOK, runRow, events, stores
<1> QED
  BY <1>1, <1>2 DEF Disturbance

LEMMA CancelType ==
  ASSUME TypeOK, RequestCancel
  PROVE  TypeOK'
<1>1. status' \in RunStatuses
  BY DEF RequestCancel, StatusOnCancel, RunStatuses, ActiveStatuses,
         TerminalStatuses
<1>2. /\ runEvents' \in [RunEventTypes -> Nat]
      /\ specEvents' \in [Specs -> [SpecEventTypes -> Nat]]
  <2>1. {"cancelled", "cancellation_requested"} \subseteq RunEventTypes
    BY DEF RunEventTypes, TerminalStatuses
  <2>2. CASE UNCHANGED events
    BY <2>2 DEF events, TypeOK
  <2>3. CASE ~UNCHANGED events
    BY <2>1, <2>3, PublishType DEF RequestCancel
  <2> QED
    BY <2>2, <2>3
<1> QED
  BY <1>1, <1>2 DEF RequestCancel, TypeOK, stores, tasks

LEMMA TypeStep == IInv /\ [Next]_vars => TypeOK'
<1> SUFFICES ASSUME TypeOK, DecisionSound, OutcomeKnown, [Next]_vars
             PROVE  TypeOK'
  BY DEF IInv
<1>1. CASE UNCHANGED vars
  BY <1>1 DEF TypeOK, vars, runRow, events, stores, tasks
<1>2. CASE Next
  BY <1>1, <1>2, RunStepType, SpecialistStepType, DisturbanceType, CancelType
  DEF Next, Step, AtRest
<1> QED
  BY <1>1, <1>2

-----------------------------------------------------------------------------
(* Decisions and outcomes carried between transactions stay sound.         *)

LEMMA DecisionRunStep ==
  ASSUME TypeOK, DecisionSound, NEW e \in Execs, RunStep(e)
  PROVE  DecisionSound'
<1> USE DEF TypeOK, DecisionSound, Goto, Decide, runRow, tasks
<1>1. CASE RejectStale(e)
  BY <1>1 DEF RejectStale
<1>2. CASE Enter(e)
  BY <1>2 DEF Enter
<1>3. CASE PreCancel(e)
  <2>1. CASE Decide(e, "cancelled") /\ cancelRequested
    BY <1>3, <2>1 DEF PreCancel, TerminalStatuses
  <2>2. CASE Goto(e, "loadInit") /\ UNCHANGED verdict
    BY <1>3, <2>2 DEF PreCancel
  <2> QED
    BY <1>3, <2>1, <2>2 DEF PreCancel
<1>4. CASE LoadInit(e)
  BY <1>4 DEF LoadInit
<1>5. CASE BeginRun(e)
  BY <1>5 DEF BeginRun
<1>6. CASE BeginLost(e)
  BY <1>6 DEF BeginLost
<1>7. CASE LostCancel(e)
  <2>1. CASE Decide(e, "cancelled") /\ cancelRequested
    BY <1>7, <2>1 DEF LostCancel, TerminalStatuses
  <2>2. CASE Goto(e, "saveInit") /\ UNCHANGED verdict
    BY <1>7, <2>2 DEF LostCancel
  <2> QED
    BY <1>7, <2>1, <2>2 DEF LostCancel
<1>8. CASE SaveInit(e)
  BY <1>8 DEF SaveInit
<1>9. CASE AnnounceStart(e)
  BY <1>9 DEF AnnounceStart
<1>10. CASE ApplyInjectionPolicy(e)
  BY <1>10 DEF ApplyInjectionPolicy, TerminalStatuses
<1>11. CASE AnnounceInjection(e)
  BY <1>11 DEF AnnounceInjection
<1>12. CASE Join(e)
  <2>1. PICK t \in TerminalStatuses :
            /\ Decide(e, t)
            /\ t = "cancelled" => cancelRequested
    BY <1>12 DEF Join, JoinedStatus, TerminalStatuses
  <2> QED
    BY <1>12, <2>1 DEF Join
<1>13. CASE Rethrow(e)
  BY <1>13 DEF Rethrow, Restart
<1>14. CASE Finalize(e)
  BY <1>14 DEF Finalize
<1>15. CASE SaveDone(e)
  BY <1>15 DEF SaveDone
<1> QED
  BY <1>1, <1>2, <1>3, <1>4, <1>5, <1>6, <1>7, <1>8, <1>9, <1>10, <1>11,
     <1>12, <1>13, <1>14, <1>15 DEF RunStep

LEMMA DecisionSpecialistStep ==
  ASSUME TypeOK, DecisionSound, NEW e \in Execs, NEW s \in Specs,
         SpecialistStep(e, s)
  PROVE  DecisionSound'
<1> USE DEF TypeOK, DecisionSound, Goto, TaskGoto, runRow
<1>1. CASE Resume(e, s)
  BY <1>1 DEF Resume
<1>2. CASE NextSpecialist(e, s)
  <2>1. /\ UNCHANGED cancelRequested
        /\ \/ /\ UNCHANGED task
              /\ \E t \in TerminalStatuses :
                   /\ Decide(e, t)
                   /\ t = "cancelled" => cancelRequested
           \/ TaskGoto(e, s, "gate") /\ UNCHANGED <<pc, verdict>>
    BY <1>2 DEF NextSpecialist, Poll, TerminalStatuses
  <2>2. CASE TaskGoto(e, s, "gate") /\ UNCHANGED <<pc, verdict>>
    BY <2>1, <2>2
  <2>3. ASSUME NEW t \in TerminalStatuses, Decide(e, t), UNCHANGED task,
               t = "cancelled" => cancelRequested
        PROVE  DecisionSound'
    BY <2>1, <2>3 DEF Decide
  <2> QED
    BY <2>1, <2>2, <2>3
<1>3. CASE Gate(e, s)
  BY <1>3 DEF Gate, PollTask, Poll
<1>4. CASE Announce(e, s)
  BY <1>4 DEF Announce
<1>5. CASE StartAttempt(e, s)
  BY <1>5 DEF StartAttempt, PollTask, Poll
<1>6. CASE ProviderAnswer(e, s)
  BY <1>6 DEF ProviderAnswer
<1>7. CASE SaveRetry(e, s)
  BY <1>7 DEF SaveRetry
<1>8. CASE AnnounceRetry(e, s)
  BY <1>8 DEF AnnounceRetry
<1>9. CASE SaveRow(e, s)
  BY <1>9 DEF SaveRow
<1>10. CASE SaveCkpt(e, s)
  BY <1>10 DEF SaveCkpt
<1>11. CASE AnnounceCkpt(e, s)
  BY <1>11 DEF AnnounceCkpt
<1>12. CASE AnnounceOutcome(e, s)
  BY <1>12 DEF AnnounceOutcome
<1> QED
  BY <1>1, <1>2, <1>3, <1>4, <1>5, <1>6, <1>7, <1>8, <1>9, <1>10, <1>11,
     <1>12 DEF SpecialistStep

LEMMA DecisionStep == TypeOK /\ DecisionSound /\ [Next]_vars => DecisionSound'
<1> SUFFICES ASSUME TypeOK, DecisionSound, [Next]_vars
             PROVE  DecisionSound'
  OBVIOUS
<1>1. CASE RequestCancel
  BY <1>1 DEF RequestCancel, DecisionSound, tasks
<1>2. ASSUME NEW e \in Execs, Crash(e) PROVE DecisionSound'
  BY <1>2 DEF Crash, Restart, Goto, DecisionSound, TypeOK, runRow
<1>3. ASSUME NEW e \in Execs, NEW s \in Specs, Throw(e, s)
      PROVE  DecisionSound'
  BY <1>3 DEF Throw, TaskGoto, DecisionSound, TypeOK, runRow
<1>4. CASE UNCHANGED vars
  BY <1>4 DEF vars, runRow, tasks, DecisionSound
<1> QED
  BY <1>1, <1>2, <1>3, <1>4, DecisionRunStep, DecisionSpecialistStep
  DEF Next, Step, Disturbance, AtRest

LEMMA NestedApply ==
  ASSUME NEW A, NEW B, NEW R, NEW f \in [A -> [B -> R]],
         NEW a \in A, NEW b \in B, NEW r, NEW x \in A, NEW y \in B
  PROVE  [f EXCEPT ![a][b] = r][x][y] = IF x = a /\ y = b THEN r ELSE f[x][y]
OBVIOUS

\* A task moves and its outcome is replaced, or stays with a task that
\* does not need one.
LEMMA OutcomeUpdate ==
  ASSUME TypeOK, OutcomeKnown, NEW e \in Execs, NEW s \in Specs,
         NEW p, TaskGoto(e, s, p),
         \/ \E o \in Outcomes : seen' = [seen EXCEPT ![e][s] = o]
         \/ /\ p \notin {"saveRow", "saveCkpt", "announceCkpt",
                          "announceOutcome", "settled", "loaded"}
            /\ UNCHANGED seen \/ seen' = [seen EXCEPT ![e][s] = "none"]
  PROVE  OutcomeKnown'
<1>1. ASSUME NEW x \in Execs, NEW y \in Specs
      PROVE  task'[x][y] = IF x = e /\ y = s THEN p ELSE task[x][y]
  BY <1>1, NestedApply DEF TypeOK, TaskGoto
<1>2. ASSUME NEW o, seen' = [seen EXCEPT ![e][s] = o],
             NEW x \in Execs, NEW y \in Specs
      PROVE  seen'[x][y] = IF x = e /\ y = s THEN o ELSE seen[x][y]
  BY <1>2, NestedApply DEF TypeOK
<1> DEFINE Carrying == {"saveRow", "saveCkpt", "announceCkpt",
                        "announceOutcome", "settled", "loaded"}
<1>3. SUFFICES ASSUME NEW x \in Execs, NEW y \in Specs,
                      task'[x][y] \in Carrying
               PROVE  seen'[x][y] \in Outcomes
  BY DEF OutcomeKnown
<1>4. CASE x = e /\ y = s
  <2>1. PICK o \in Outcomes : seen' = [seen EXCEPT ![e][s] = o]
    BY <1>1, <1>3, <1>4
  <2>2. seen'[e][s] = o
    <3> HIDE DEF Carrying
    <3> QED
      BY <2>1 DEF TypeOK
  <2> QED
    BY <1>4, <2>2
<1>5. CASE ~(x = e /\ y = s)
  <2>1. seen[x][y] \in Outcomes
    BY <1>1, <1>3, <1>5 DEF OutcomeKnown
  <2>2. seen'[x][y] = seen[x][y]
    BY <1>2, <1>5
  <2> QED
    BY <2>1, <2>2
<1> QED
  BY <1>4, <1>5

LEMMA OutcomeSpecialistStep ==
  ASSUME TypeOK, OutcomeKnown, NEW e \in Execs, NEW s \in Specs,
         SpecialistStep(e, s)
  PROVE  OutcomeKnown'
<1>1. CASE Resume(e, s)
  <2>1. \/ /\ ckpt[s] \in Outcomes
           /\ TaskGoto(e, s, "loaded")
           /\ seen' = [seen EXCEPT ![e][s] = ckpt[s]]
        \/ /\ TaskGoto(e, s, "gate") \/ TaskGoto(e, s, "pending")
           /\ UNCHANGED seen
    BY <1>1 DEF Resume, Loadable
  <2> QED
    BY <2>1, OutcomeUpdate
<1>2. CASE NextSpecialist(e, s)
  <2>1. UNCHANGED seen /\ (UNCHANGED task \/ TaskGoto(e, s, "gate"))
    BY <1>2 DEF NextSpecialist
  <2> QED
    BY <2>1, OutcomeUpdate DEF OutcomeKnown
<1>3. CASE Gate(e, s)
  BY <1>3, OutcomeUpdate DEF Gate, PollTask
<1>4. CASE Announce(e, s)
  BY <1>4, OutcomeUpdate DEF Announce
<1>5. CASE StartAttempt(e, s)
  BY <1>5, OutcomeUpdate DEF StartAttempt, PollTask
<1>6. CASE ProviderAnswer(e, s)
  <2>1. \/ \E o \in Outcomes : /\ seen' = [seen EXCEPT ![e][s] = o]
                              /\ TaskGoto(e, s, "saveRow")
        \/ /\ seen' = [seen EXCEPT ![e][s] = "none"]
           /\ TaskGoto(e, s, "saveRetry")
    BY <1>6 DEF ProviderAnswer, Outcomes
  <2> QED
    BY <2>1, OutcomeUpdate
<1>7. CASE SaveRetry(e, s)
  BY <1>7, OutcomeUpdate DEF SaveRetry
<1>8. CASE AnnounceRetry(e, s)
  BY <1>8, OutcomeUpdate DEF AnnounceRetry
<1>9. CASE SaveRow(e, s)
  BY <1>9 DEF SaveRow, At, OutcomeKnown, TypeOK, TaskGoto
<1>10. CASE SaveCkpt(e, s)
  BY <1>10 DEF SaveCkpt, At, OutcomeKnown, TypeOK, TaskGoto
<1>11. CASE AnnounceCkpt(e, s)
  BY <1>11 DEF AnnounceCkpt, At, OutcomeKnown, TypeOK, TaskGoto
<1>12. CASE AnnounceOutcome(e, s)
  BY <1>12 DEF AnnounceOutcome, At, OutcomeKnown, TypeOK, TaskGoto
<1> QED
  BY <1>1, <1>2, <1>3, <1>4, <1>5, <1>6, <1>7, <1>8, <1>9, <1>10, <1>11,
     <1>12 DEF SpecialistStep

LEMMA OutcomeStep == TypeOK /\ OutcomeKnown /\ [Next]_vars => OutcomeKnown'
<1> SUFFICES ASSUME TypeOK, OutcomeKnown, [Next]_vars
             PROVE  OutcomeKnown'
  OBVIOUS
<1>1. CASE UNCHANGED <<task, seen>>
  BY <1>1 DEF OutcomeKnown
<1>2. ASSUME NEW e \in Execs, Restart(e) PROVE OutcomeKnown'
  BY <1>2 DEF Restart, OutcomeKnown, TypeOK
<1>3. ASSUME NEW e \in Execs, NEW s \in Specs, Throw(e, s)
      PROVE  OutcomeKnown'
  BY <1>3 DEF Throw, TaskGoto, OutcomeKnown, TypeOK
<1>4. ASSUME NEW e \in Execs, RunStep(e)
      PROVE  Restart(e) \/ UNCHANGED <<task, seen>>
  BY <1>4
  DEF RunStep, RejectStale, Enter, PreCancel, LoadInit, BeginRun, BeginLost,
      LostCancel, SaveInit, AnnounceStart, ApplyInjectionPolicy,
      AnnounceInjection, Join, Rethrow, Finalize, SaveDone, tasks
<1>5. CASE RequestCancel \/ UNCHANGED vars
  BY <1>1, <1>5 DEF RequestCancel, vars, tasks
<1> QED
  BY <1>1, <1>2, <1>3, <1>4, <1>5, OutcomeSpecialistStep
  DEF Next, Step, Disturbance, Crash, AtRest

-----------------------------------------------------------------------------
(* What a step may do to the run row and to the terminal events.           *)

TerminalEventsKept == \A t \in TerminalStatuses : runEvents'[t] = runEvents[t]

RowKept == UNCHANGED runRow /\ TerminalEventsKept

RowBegins ==
    /\ status = "queued"
    /\ status' = "running"
    /\ UNCHANGED <<cancelRequested, summary>>
    /\ TerminalEventsKept

RowEnds ==
    \E t \in TerminalStatuses :
        /\ ~IsTerminal(status)
        /\ t = "cancelled" => cancelRequested
        /\ status' = t
        /\ UNCHANGED cancelRequested
        /\ runEvents' = [runEvents EXCEPT ![t] = @ + 1]

LEMMA RowStep ==
  ASSUME TypeOK, DecisionSound, [Next]_vars
  PROVE  RowKept \/ RowBegins \/ RowEnds \/ RequestCancel
<1> USE DEF RowKept, TerminalEventsKept
<1>1. ASSUME UNCHANGED <<runRow, events>> PROVE RowKept
  BY <1>1 DEF events
<1>2. ASSUME NEW t \in RunEventTypes \ TerminalStatuses, Publish(t),
             UNCHANGED runRow
      PROVE  RowKept
  BY <1>2 DEF Publish, TypeOK
<1>3. ASSUME NEW e \in Execs, BeginRun(e) PROVE RowKept \/ RowBegins
  BY <1>3 DEF BeginRun, RowBegins, events, runRow
<1>4. ASSUME NEW t \in TerminalStatuses, NEW d, NEW b, EndRun(t, d, b),
             UNCHANGED cancelRequested, t = "cancelled" => cancelRequested
      PROVE  RowEnds
  BY <1>4 DEF EndRun, Publish, RowEnds
<1>5. ASSUME NEW e \in Execs, RejectStale(e) PROVE RowKept \/ RowEnds
  BY <1>1, <1>4, <1>5 DEF RejectStale, TerminalStatuses, runRow
<1>6. ASSUME NEW e \in Execs, Finalize(e) PROVE RowKept \/ RowEnds
  <2>1. verdict[e] \in TerminalStatuses
    BY <1>6 DEF Finalize, DecisionSound
  <2> QED
    BY <1>1, <1>4, <1>6, <2>1 DEF Finalize, DecisionSound, runRow
<1>7. ASSUME NEW e \in Execs, RunStep(e) PROVE RowKept \/ RowBegins \/ RowEnds
  <2>1. CASE AnnounceStart(e)
    BY <1>2, <2>1 DEF AnnounceStart, RunEventTypes, TerminalStatuses
  <2>2. CASE AnnounceInjection(e)
    BY <1>2, <2>2 DEF AnnounceInjection, RunEventTypes, TerminalStatuses
  <2>3. CASE ~(\/ AnnounceStart(e) \/ AnnounceInjection(e) \/ BeginRun(e)
               \/ RejectStale(e) \/ Finalize(e))
    BY <1>1, <1>7, <2>3
    DEF RunStep, Enter, PreCancel, LoadInit, BeginLost, LostCancel, SaveInit,
        ApplyInjectionPolicy, Join, Rethrow, SaveDone
  <2> QED
    BY <1>3, <1>5, <1>6, <2>1, <2>2, <2>3
<1>8. ASSUME NEW e \in Execs, NEW s \in Specs, SpecialistStep(e, s)
      PROVE  RowKept
  <2>1. UNCHANGED runRow
    BY <1>8
    DEF SpecialistStep, Resume, NextSpecialist, Gate, PollTask, Announce,
        StartAttempt, ProviderAnswer, SaveRetry, AnnounceRetry, SaveRow,
        SaveCkpt, AnnounceCkpt, AnnounceOutcome
  <2>2. UNCHANGED runEvents
    BY <1>8
    DEF SpecialistStep, Resume, NextSpecialist, Gate, PollTask, Announce,
        StartAttempt, ProviderAnswer, SaveRetry, AnnounceRetry, SaveRow,
        SaveCkpt, AnnounceCkpt, AnnounceOutcome, PublishFor, events
  <2> QED
    BY <2>1, <2>2
<1>9. ASSUME NEW e \in Execs, Disturbance(e) PROVE RowKept
  BY <1>1, <1>9 DEF Disturbance, Crash, Throw
<1>10. CASE UNCHANGED vars
  BY <1>1, <1>10 DEF vars
<1> QED
  BY <1>7, <1>8, <1>9, <1>10 DEF Next, Step, AtRest

LEMMA QueuedStep ==
  ASSUME TypeOK, DecisionSound, QueuedUntouched, [Next]_vars
  PROVE  QueuedUntouched'
<1>1. CASE RowKept
  BY <1>1 DEF RowKept, runRow, QueuedUntouched
<1>2. CASE RowBegins
  BY <1>2 DEF RowBegins, QueuedUntouched
<1>3. CASE RowEnds
  BY <1>3 DEF RowEnds, QueuedUntouched, TerminalStatuses
<1>4. CASE RequestCancel
  BY <1>4 DEF RequestCancel, StatusOnCancel, QueuedUntouched
<1> QED
  BY <1>1, <1>2, <1>3, <1>4, RowStep

LEMMA TerminalStep ==
  ASSUME TypeOK, DecisionSound, QueuedUntouched, TerminalEventOnce, [Next]_vars
  PROVE  TerminalEventOnce'
<1> USE DEF TerminalEventOnce, TypeOK
<1>1. CASE RowKept
  BY <1>1 DEF RowKept, TerminalEventsKept, runRow
<1>2. CASE RowBegins
  BY <1>2 DEF RowBegins, TerminalEventsKept, TerminalStatuses
<1>3. CASE RowEnds
  BY <1>3 DEF RowEnds, IsTerminal, RunEventTypes
<1>4. CASE RequestCancel
  <2>1. CASE status = "queued"
    BY <1>4, <2>1
    DEF RequestCancel, StatusOnCancel, Publish, QueuedUntouched,
        TerminalStatuses, RunEventTypes
  <2>2. CASE status # "queued"
    BY <1>4, <2>2
    DEF RequestCancel, StatusOnCancel, Publish, IsTerminal, TerminalStatuses,
        RunEventTypes, events
  <2> QED
    BY <2>1, <2>2
<1> QED
  BY <1>1, <1>2, <1>3, <1>4, RowStep

-----------------------------------------------------------------------------
(* The invariant, for every instance.                                      *)

\* IInv is inductive: it holds when the run is queued, and no transaction of
\* any execution, crash or cancel request breaks it.
THEOREM InvariantHolds == Spec => []IInv
<1>1. Init => IInv
  <2> SUFFICES ASSUME Init PROVE IInv
    OBVIOUS
  <2>1. TypeOK
    BY InitType
  <2>2. DecisionSound
    BY DEF Init, DecisionSound
  <2>3. OutcomeKnown
    BY DEF Init, OutcomeKnown
  <2>4. QueuedUntouched
    BY DEF Init, QueuedUntouched
  <2>5. TerminalEventOnce
    BY DEF Init, TerminalEventOnce, RunEventTypes, TerminalStatuses
  <2> QED
    BY <2>1, <2>2, <2>3, <2>4, <2>5 DEF IInv
<1>2. IInv /\ [Next]_vars => IInv'
  BY TypeStep, DecisionStep, OutcomeStep, QueuedStep, TerminalStep DEF IInv
<1> QED
  BY <1>1, <1>2, PTL DEF Spec

\* Every variable keeps its type: statuses, events and positions never leave
\* the sets the code and the column checks allow.
THEOREM TypeCorrect == Spec => []TypeOK
<1>1. IInv => TypeOK
  BY DEF IInv
<1> QED
  BY <1>1, InvariantHolds, PTL

\* The run row and the event log agree on the end of the run, whatever number
\* of executions, key checks and cancel requests race to end it.
THEOREM TerminalEventOnceHolds == Spec => []TerminalEventOnce
<1>1. IInv => TerminalEventOnce
  BY DEF IInv
<1> QED
  BY <1>1, InvariantHolds, PTL

\* A run that ended keeps its status and its summary: finalize, the key check
\* and the cancel route all leave a terminal run alone.
THEOREM RunNeverReopensHolds == Spec => RunNeverReopens
<1>1. IInv /\ [Next]_vars
        => [IsTerminal(status) => UNCHANGED <<status, summary>>]_vars
  <2> SUFFICES ASSUME IInv, [Next]_vars, IsTerminal(status)
               PROVE  UNCHANGED <<status, summary>>
    OBVIOUS
  <2>1. CASE RowKept
    BY <2>1 DEF RowKept, runRow
  <2>2. CASE RowBegins
    BY <2>2 DEF RowBegins, IsTerminal, TerminalStatuses
  <2>3. CASE RowEnds \/ RequestCancel
    BY <2>3 DEF RowEnds, RequestCancel
  <2> QED
    BY <2>1, <2>2, <2>3, RowStep DEF IInv
<1> QED
  BY <1>1, InvariantHolds, PTL DEF Spec, RunNeverReopens

\* Create-wins: the first outcome a specialist checkpoint records stays, also
\* when overlapping executions each save their own.
THEOREM CheckpointsAreFinalHolds == Spec => CheckpointsAreFinal
<1>1. TypeOK /\ [Next]_vars
        => [\A s \in Specs : ckpt[s] # "none" => ckpt'[s] = ckpt[s]]_vars
  <2> SUFFICES ASSUME TypeOK, [Next]_vars, NEW s \in Specs, ckpt[s] # "none"
               PROVE  ckpt'[s] = ckpt[s]
    OBVIOUS
  <2>1. CASE UNCHANGED ckpt
    BY <2>1
  <2>2. ASSUME NEW e \in Execs, NEW r \in Specs, SaveCkpt(e, r)
        PROVE  ckpt'[s] = ckpt[s]
    BY <2>2 DEF SaveCkpt, CreateWins, TypeOK
  <2>3. ASSUME NEW e \in Execs, NEW r \in Specs, SpecialistStep(e, r),
               ~SaveCkpt(e, r)
        PROVE  UNCHANGED ckpt
    BY <2>3
    DEF SpecialistStep, Resume, NextSpecialist, Gate, PollTask, Announce,
        StartAttempt, ProviderAnswer, SaveRetry, AnnounceRetry, SaveRow,
        AnnounceCkpt, AnnounceOutcome, stores
  <2>4. ASSUME NEW e \in Execs, RunStep(e)
        PROVE  UNCHANGED ckpt
    BY <2>4
    DEF RunStep, RejectStale, Enter, PreCancel, LoadInit, BeginRun, BeginLost,
        LostCancel, SaveInit, AnnounceStart, ApplyInjectionPolicy,
        AnnounceInjection, Join, Rethrow, Restart, Finalize, SaveDone, stores
  <2>5. ASSUME NEW e \in Execs, Disturbance(e)
        PROVE  UNCHANGED ckpt
    BY <2>5 DEF Disturbance, Crash, Restart, Throw, stores
  <2>6. CASE RequestCancel \/ UNCHANGED vars
    BY <2>1, <2>6 DEF RequestCancel, vars, stores
  <2> QED
    BY <2>1, <2>2, <2>3, <2>4, <2>5, <2>6 DEF Next, Step, AtRest
<1> QED
  BY <1>1, TypeCorrect, PTL DEF Spec, CheckpointsAreFinal

-----------------------------------------------------------------------------
(* Refinement.                                                             *)

\* The crashing, retried and overlapping executions implement RunLifecycle:
\* each of their transactions begins, ends or cancels the run as it allows,
\* with the announcement in the same step, or leaves the run row alone.
THEOREM ImplementsLifecycle == Spec => LifecycleSpec
<1> DEFINE Ann == [t \in TerminalStatuses |-> runEvents[t]]
<1>a. /\ Lifecycle!TerminalStatuses = TerminalStatuses
      /\ Lifecycle!IsTerminal(status) <=> IsTerminal(status)
  BY DEF Lifecycle!TerminalStatuses, TerminalStatuses, Lifecycle!IsTerminal,
         IsTerminal
<1>1. Init => Lifecycle!Init
  <2> SUFFICES ASSUME Init PROVE Lifecycle!Init
    OBVIOUS
  <2>1. \A t \in TerminalStatuses : runEvents[t] = 0
    BY DEF Init, RunEventTypes
  <2>2. Ann = [t \in TerminalStatuses |-> 0]
    BY <2>1
  <2> QED
    BY <1>a, <2>2 DEF Init, Lifecycle!Init
<1>2. IInv /\ [Next]_vars => [Lifecycle!Next]_(Lifecycle!vars)
  <2> SUFFICES ASSUME IInv, [Next]_vars
               PROVE  Lifecycle!Next \/ UNCHANGED Lifecycle!vars
    OBVIOUS
  <2>1. CASE RowKept
    BY <2>1 DEF RowKept, TerminalEventsKept, runRow, Lifecycle!vars
  <2>2. CASE RowBegins
    BY <2>2
    DEF RowBegins, TerminalEventsKept, Lifecycle!Next, Lifecycle!Begin
  <2>3. ASSUME NEW t \in TerminalStatuses,
               runEvents' = [runEvents EXCEPT ![t] = @ + 1]
        PROVE  Ann' = [Ann EXCEPT ![t] = @ + 1]
    BY <2>3 DEF IInv, TypeOK, RunEventTypes
  <2>4. CASE RowEnds
    <3>1. PICK t \in TerminalStatuses :
              /\ ~IsTerminal(status)
              /\ t = "cancelled" => cancelRequested
              /\ status' = t
              /\ UNCHANGED cancelRequested
              /\ runEvents' = [runEvents EXCEPT ![t] = @ + 1]
      BY <2>4 DEF RowEnds
    <3>2. Lifecycle!Finish(t)
      BY <1>a, <2>3, <3>1 DEF Lifecycle!Finish
    <3> QED
      BY <1>a, <3>1, <3>2 DEF Lifecycle!Next, Lifecycle!End
  <2>5. CASE RequestCancel
    <3>1. CASE status = "queued"
      <4>1. /\ status' = "cancelled"
            /\ runEvents' = [runEvents EXCEPT !["cancelled"] = @ + 1]
        BY <2>5, <3>1
        DEF RequestCancel, StatusOnCancel, Publish, IInv, QueuedUntouched
      <4>2. "cancelled" \in TerminalStatuses
        BY DEF TerminalStatuses
      <4>3. Ann' = [Ann EXCEPT !["cancelled"] = @ + 1]
        BY <2>3, <4>1, <4>2
      <4>4. ~IsTerminal(status) /\ cancelRequested'
        BY <2>5 DEF RequestCancel
      <4> QED
        BY <1>a, <3>1, <4>1, <4>3, <4>4
        DEF Lifecycle!Next, Lifecycle!Cancel, Lifecycle!Finish
    <3>2. CASE status # "queued"
      <4>1. TerminalEventsKept
        <5>1. CASE UNCHANGED events
          BY <5>1 DEF events, TerminalEventsKept
        <5>2. CASE runEvents' = [runEvents EXCEPT
                                     !["cancellation_requested"] = @ + 1]
          BY <5>2 DEF IInv, TypeOK, TerminalEventsKept, TerminalStatuses
        <5> QED
          BY <2>5, <3>2, <5>1, <5>2 DEF RequestCancel, StatusOnCancel, Publish
      <4>2. UNCHANGED Ann
        BY <4>1 DEF TerminalEventsKept
      <4>3. ~IsTerminal(status) /\ cancelRequested' /\ status' = "cancelling"
        BY <2>5, <3>2 DEF RequestCancel, StatusOnCancel
      <4> QED
        BY <1>a, <3>2, <4>2, <4>3 DEF Lifecycle!Next, Lifecycle!Cancel
    <3> QED
      BY <3>1, <3>2
  <2> QED
    BY <2>1, <2>2, <2>4, <2>5, RowStep DEF IInv
<1> QED
  BY <1>1, <1>2, InvariantHolds, PTL DEF Spec, LifecycleSpec, Lifecycle!Spec

=============================================================================

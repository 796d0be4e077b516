---------------------------- MODULE RunEndProofs ----------------------------
(***************************************************************************)
(* More theorems about RunWorkflow, for every number of specialists: what  *)
(* a run that ended can be held to and what is announced once, for every   *)
(* set of overlapping, crashing and restarted executions; then what holds  *)
(* as long as the executions of the run follow one another.                *)
(***************************************************************************)
EXTENDS RunWorkflowProofs

-----------------------------------------------------------------------------
(* Announcements behind a create-wins marker.                              *)

\* The execution that created marker m stands at p until it publishes t; no
\* other one comes to p, and a crash at p leaves the event out.
MarkSound(m, p, t) ==
    /\ runEvents[t] <= 1
    /\ m \notin marks => runEvents[t] = 0
    /\ \A e \in Execs : pc[e] = p => m \in marks /\ runEvents[t] = 0
    /\ \A d, e \in Execs : pc[d] = p /\ pc[e] = p => d = e

\* Only the request that set cancel_requested_at is announced.
RequestSound ==
    runEvents["cancellation_requested"] <= IF cancelRequested THEN 1 ELSE 0

AnnounceInv ==
    /\ MarkSound("init", "announceStart", "started")
    /\ MarkSound("injection", "announceInjection", "safety")
    /\ RequestSound

\* What the tasks of an execution may rely on between two transactions.
TasksJustified ==
    \A e \in Execs, s \in Specs :
        /\ task[e][s] \in {"loaded", "announceCkpt", "announceOutcome", "settled"}
              => ckpt[s] # "none"
        /\ task[e][s] = "timedOut" => expired
        /\ pc[e] = "run" => task[e][s] # "idle"

\* The cause behind the decision to end the run as t, which execution e holds
\* while others act.
Justified(e, t) ==
    /\ t \in {"completed", "partial"} => \A s \in Specs : ckpt[s] # "none"
    /\ t = "completed" => ReportedAs(e, "failed") = {}
    /\ t = "partial" =>
         config.policy = "partial" /\ ReportedAs(e, "failed") # {}
    /\ t = "failed" =>
         \/ expired
         \/ config.injection = "fail_run"
         \/ config.policy = "fail_run" /\ ReportedAs(e, "failed") # {}

DecisionsJustified ==
    \A e \in Execs : pc[e] = "finalize" => Justified(e, verdict[e])

EndInv == TasksJustified /\ DecisionsJustified /\ EndIsJustified

-----------------------------------------------------------------------------
(* Announcements.                                                          *)

LEMMA MarkKept ==
  ASSUME NEW m, NEW p, NEW t, MarkSound(m, p, t),
         m \in marks <=> m \in marks',
         runEvents'[t] = runEvents[t],
         \A e \in Execs : pc'[e] = p => pc[e] = p
  PROVE  MarkSound(m, p, t)'
BY DEF MarkSound

\* The execution that creates the marker is the only one to come to p.
LEMMA MarkCreated ==
  ASSUME TypeOK, NEW m, NEW p, NEW t, MarkSound(m, p, t), NEW e \in Execs,
         m \notin marks, m \in marks', runEvents'[t] = runEvents[t],
         \A d \in Execs \ {e} : pc'[d] = pc[d]
  PROVE  MarkSound(m, p, t)'
BY DEF MarkSound

LEMMA MarkAnnounced ==
  ASSUME TypeOK, NEW m, NEW p, NEW t \in RunEventTypes, MarkSound(m, p, t),
         NEW e \in Execs, pc[e] = p, pc'[e] # p,
         \A d \in Execs \ {e} : pc'[d] = pc[d],
         UNCHANGED marks, Publish(t)
  PROVE  MarkSound(m, p, t)'
<1>1. m \in marks' /\ runEvents'[t] = 1
  BY DEF MarkSound, TypeOK, Publish
<1>2. \A d \in Execs : pc'[d] # p
  BY DEF MarkSound
<1> QED
  BY <1>1, <1>2 DEF MarkSound

\* A step that creates no marker, publishes none of the three events and comes
\* to neither announcement.
Unannounced ==
    /\ {"init", "injection"} \cap marks' = {"init", "injection"} \cap marks
    /\ \A t \in {"started", "safety", "cancellation_requested"} :
           runEvents'[t] = runEvents[t]
    /\ \A e \in Execs : pc'[e] \in {"announceStart", "announceInjection"} =>
                            pc'[e] = pc[e]
    /\ cancelRequested => cancelRequested'

LEMMA UnannouncedStep == TypeOK /\ AnnounceInv /\ Unannounced => AnnounceInv'
<1> SUFFICES ASSUME TypeOK, AnnounceInv, Unannounced PROVE AnnounceInv'
  OBVIOUS
<1>1. MarkSound("init", "announceStart", "started")'
  BY MarkKept DEF AnnounceInv, Unannounced
<1>2. MarkSound("injection", "announceInjection", "safety")'
  BY MarkKept DEF AnnounceInv, Unannounced
<1>3. RequestSound'
  <2>1. runEvents["cancellation_requested"] \in Nat
    BY DEF TypeOK, RunEventTypes
  <2> QED
    BY <2>1 DEF AnnounceInv, Unannounced, RequestSound
<1> QED
  BY <1>1, <1>2, <1>3 DEF AnnounceInv

LEMMA MoveUnannounced ==
  ASSUME TypeOK, NEW e \in Execs, NEW q, Goto(e, q),
         q \notin {"announceStart", "announceInjection"},
         UNCHANGED <<runEvents, marks, cancelRequested>>
  PROVE  Unannounced
BY DEF Unannounced, Goto, TypeOK

LEMMA EndRunUnannounced ==
  ASSUME TypeOK, NEW e \in Execs, NEW q, Goto(e, q),
         q \notin {"announceStart", "announceInjection"},
         NEW t \in TerminalStatuses, NEW d, NEW b, EndRun(t, d, b),
         UNCHANGED <<marks, cancelRequested>>
  PROVE  Unannounced
<1>1. \A u \in {"started", "safety", "cancellation_requested"} :
          runEvents'[u] = runEvents[u]
  BY DEF EndRun, Publish, TypeOK, TerminalStatuses, RunEventTypes
<1>2. \A d2 \in Execs : pc'[d2] \in {"announceStart", "announceInjection"} =>
                            pc'[d2] = pc[d2]
  BY DEF Goto, TypeOK
<1> QED
  BY <1>1, <1>2 DEF Unannounced

LEMMA AnnounceRunStep ==
  ASSUME TypeOK, DecisionSound, AnnounceInv, NEW e \in Execs, RunStep(e)
  PROVE  AnnounceInv'
<1> USE DEF runRow, events, stores
<1>1. CASE RejectStale(e)
  <2>1. CASE EndRun("failed", {}, {})
    BY <1>1, <2>1, EndRunUnannounced, UnannouncedStep
    DEF RejectStale, TerminalStatuses
  <2>2. CASE UNCHANGED <<status, summary, events>>
    BY <1>1, <2>2, MoveUnannounced, UnannouncedStep DEF RejectStale
  <2> QED
    BY <1>1, <2>1, <2>2 DEF RejectStale
<1>2. CASE Finalize(e)
  <2>1. CASE EndRun(verdict[e], ReportedAs(e, "completed"),
                    ReportedAs(e, "failed"))
    <3>1. verdict[e] \in TerminalStatuses
      BY <1>2 DEF Finalize, DecisionSound
    <3>2. PICK q \in {"saveDone", "ended"} : Goto(e, q)
      BY <1>2 DEF Finalize
    <3> QED
      BY <1>2, <2>1, <3>1, <3>2, EndRunUnannounced, UnannouncedStep
      DEF Finalize
  <2>2. CASE UNCHANGED <<status, summary, events>>
    BY <1>2, <2>2, MoveUnannounced, UnannouncedStep DEF Finalize
  <2> QED
    BY <1>2, <2>1, <2>2 DEF Finalize
<1>3. CASE SaveInit(e)
  <2>1. /\ runEvents' = runEvents
        /\ UNCHANGED cancelRequested
        /\ marks' = marks \cup {"init"}
        /\ \A d \in Execs \ {e} : pc'[d] = pc[d]
    BY <1>3 DEF SaveInit, SaveMark, Goto, TypeOK
  <2>2. MarkSound("init", "announceStart", "started")'
    <3>1. CASE "init" \in marks
      <4>1. pc' = [pc EXCEPT ![e] = "inject"]
        BY <1>3, <3>1 DEF SaveInit, Wins, Goto
      <4> QED
        BY <2>1, <3>1, <4>1, MarkKept DEF AnnounceInv, TypeOK
    <3>2. CASE "init" \notin marks
      BY <2>1, <3>2, MarkCreated DEF AnnounceInv
    <3> QED
      BY <3>1, <3>2
  <2>3. MarkSound("injection", "announceInjection", "safety")'
    <3>1. \A d \in Execs : pc'[d] = "announceInjection" =>
                               pc[d] = "announceInjection"
      BY <1>3 DEF SaveInit, Goto, TypeOK
    <3>2. "injection" \in marks <=> "injection" \in marks'
      BY <2>1
    <3> QED
      BY <2>1, <3>1, <3>2, MarkKept DEF AnnounceInv
  <2>4. RequestSound'
    BY <2>1 DEF RequestSound, AnnounceInv
  <2> QED
    BY <2>2, <2>3, <2>4 DEF AnnounceInv
<1>4. CASE AnnounceStart(e)
  <2>1. /\ "started" \in RunEventTypes
        /\ \A t \in {"safety", "cancellation_requested"} :
               runEvents'[t] = runEvents[t]
        /\ Publish("started")
        /\ UNCHANGED <<marks, cancelRequested>>
    BY <1>4 DEF AnnounceStart, Publish, TypeOK, RunEventTypes
  <2>2. /\ pc[e] = "announceStart"
        /\ pc'[e] = "inject"
        /\ \A d \in Execs \ {e} : pc'[d] = pc[d]
    BY <1>4 DEF AnnounceStart, Goto, TypeOK
  <2>3. MarkSound("init", "announceStart", "started")'
    BY <2>1, <2>2, MarkAnnounced DEF AnnounceInv
  <2>4. MarkSound("injection", "announceInjection", "safety")'
    BY <2>1, <2>2, MarkKept DEF AnnounceInv
  <2>5. RequestSound'
    BY <2>1 DEF RequestSound, AnnounceInv
  <2> QED
    BY <2>3, <2>4, <2>5 DEF AnnounceInv
<1>5. CASE ApplyInjectionPolicy(e)
  <2>1. /\ runEvents' = runEvents
        /\ UNCHANGED cancelRequested
        /\ marks' = marks \/ marks' = marks \cup {"injection"}
        /\ \A d \in Execs \ {e} : pc'[d] = pc[d]
    BY <1>5 DEF ApplyInjectionPolicy, SaveMark, Decide, Goto, TypeOK
  <2>2. MarkSound("init", "announceStart", "started")'
    <3>1. \A d \in Execs : pc'[d] = "announceStart" => pc[d] = "announceStart"
      BY <1>5 DEF ApplyInjectionPolicy, Decide, Goto, TypeOK
    <3>2. "init" \in marks <=> "init" \in marks'
      BY <2>1
    <3> QED
      BY <2>1, <3>1, <3>2, MarkKept DEF AnnounceInv
  <2>3. MarkSound("injection", "announceInjection", "safety")'
    <3>1. CASE pc'[e] = "announceInjection"
      <4>1. "injection" \notin marks /\ "injection" \in marks'
        BY <1>5, <3>1
        DEF ApplyInjectionPolicy, Decide, Goto, TypeOK, Wins, SaveMark
      <4> QED
        BY <2>1, <4>1, MarkCreated DEF AnnounceInv
    <3>2. CASE pc'[e] # "announceInjection" /\ "injection" \notin marks /\ "injection" \in marks'
      BY <2>1, <3>2, MarkCreated DEF AnnounceInv
    <3>3. CASE pc'[e] # "announceInjection" /\ ("injection" \in marks <=> "injection" \in marks')
      <4>1. \A d \in Execs : pc'[d] = "announceInjection" =>
                                 pc[d] = "announceInjection"
        BY <2>1, <3>3
      <4> QED
        BY <2>1, <3>3, <4>1, MarkKept DEF AnnounceInv
    <3> QED
      BY <2>1, <3>1, <3>2, <3>3
  <2>4. RequestSound'
    BY <2>1 DEF RequestSound, AnnounceInv
  <2> QED
    BY <2>2, <2>3, <2>4 DEF AnnounceInv
<1>6. CASE AnnounceInjection(e)
  <2>1. /\ "safety" \in RunEventTypes
        /\ \A t \in {"started", "cancellation_requested"} :
               runEvents'[t] = runEvents[t]
        /\ Publish("safety")
        /\ UNCHANGED <<marks, cancelRequested>>
    BY <1>6 DEF AnnounceInjection, Publish, TypeOK, RunEventTypes
  <2>2. /\ pc[e] = "announceInjection"
        /\ pc'[e] = "resume"
        /\ \A d \in Execs \ {e} : pc'[d] = pc[d]
    BY <1>6 DEF AnnounceInjection, Goto, TypeOK
  <2>3. MarkSound("injection", "announceInjection", "safety")'
    BY <2>1, <2>2, MarkAnnounced DEF AnnounceInv
  <2>4. MarkSound("init", "announceStart", "started")'
    BY <2>1, <2>2, MarkKept DEF AnnounceInv
  <2>5. RequestSound'
    BY <2>1 DEF RequestSound, AnnounceInv
  <2> QED
    BY <2>3, <2>4, <2>5 DEF AnnounceInv
<1>7. CASE SaveDone(e)
  <2>1. Unannounced
    BY <1>7 DEF SaveDone, SaveMark, Goto, TypeOK, Unannounced
  <2> QED
    BY <2>1, UnannouncedStep
<1>8. ASSUME \/ Enter(e) \/ PreCancel(e) \/ LoadInit(e) \/ BeginRun(e)
             \/ BeginLost(e) \/ LostCancel(e) \/ Join(e) \/ Rethrow(e)
      PROVE  AnnounceInv'
  <2>1. UNCHANGED <<runEvents, marks, cancelRequested>>
    BY <1>8
    DEF Enter, PreCancel, LoadInit, BeginRun, BeginLost, LostCancel, Join,
        Rethrow
  <2>2. PICK q \in Positions \ {"announceStart", "announceInjection"} :
            Goto(e, q)
    BY <1>8
    DEF Enter, PreCancel, LoadInit, BeginRun, BeginLost, LostCancel, Join,
        Rethrow, Restart, Decide, Positions
  <2> QED
    BY <2>1, <2>2, MoveUnannounced, UnannouncedStep
<1> QED
  BY <1>1, <1>2, <1>3, <1>4, <1>5, <1>6, <1>7, <1>8 DEF RunStep

LEMMA AnnounceOtherStep ==
  ASSUME TypeOK, AnnounceInv, NEW e \in Execs,
         Disturbance(e) \/ \E s \in Specs : SpecialistStep(e, s)
  PROVE  AnnounceInv'
<1> USE DEF runRow, events, stores
<1>1. UNCHANGED <<runEvents, marks, cancelRequested>>
  <2>1. CASE Disturbance(e)
    BY <2>1 DEF Disturbance, Crash, Throw
  <2>2. ASSUME NEW s \in Specs, SpecialistStep(e, s)
        PROVE  UNCHANGED <<runEvents, marks, cancelRequested>>
    BY <2>2
    DEF SpecialistStep, Resume, NextSpecialist, Gate, PollTask, Announce,
        StartAttempt, ProviderAnswer, SaveRetry, AnnounceRetry, SaveRow,
        SaveCkpt, AnnounceCkpt, AnnounceOutcome, PublishFor
  <2> QED
    BY <2>1, <2>2
<1>2. \/ UNCHANGED pc
      \/ \E q \in Positions \ {"announceStart", "announceInjection"} :
             Goto(e, q)
  <2>1. CASE Disturbance(e)
    BY <2>1 DEF Disturbance, Crash, Restart, Throw, Positions
  <2>2. ASSUME NEW s \in Specs, SpecialistStep(e, s)
        PROVE  \/ UNCHANGED pc
               \/ \E q \in {"run", "resume", "finalize"} : Goto(e, q)
    BY <2>2
    DEF SpecialistStep, Resume, NextSpecialist, Decide, Gate, PollTask,
        Announce, StartAttempt, ProviderAnswer, SaveRetry, AnnounceRetry,
        SaveRow, SaveCkpt, AnnounceCkpt, AnnounceOutcome
  <2> QED
    BY <2>1, <2>2 DEF Positions
<1>3. CASE UNCHANGED pc
  BY <1>1, <1>3, UnannouncedStep DEF Unannounced
<1> QED
  BY <1>1, <1>2, <1>3, MoveUnannounced, UnannouncedStep

LEMMA AnnounceCancel ==
  ASSUME TypeOK, QueuedUntouched, AnnounceInv, RequestCancel
  PROVE  AnnounceInv'
<1> USE DEF stores
<1>1. \A t \in {"started", "safety"} : runEvents'[t] = runEvents[t]
  BY DEF RequestCancel, StatusOnCancel, Publish, events, TypeOK, RunEventTypes
<1>2. MarkSound("init", "announceStart", "started")'
  BY <1>1, MarkKept DEF RequestCancel, AnnounceInv
<1>3. MarkSound("injection", "announceInjection", "safety")'
  BY <1>1, MarkKept DEF RequestCancel, AnnounceInv
<1>4. RequestSound'
  <2>1. runEvents["cancellation_requested"] \in Nat
    BY DEF TypeOK, RunEventTypes
  <2>2. CASE cancelRequested
    BY <2>2 DEF RequestCancel, events, AnnounceInv, RequestSound
  <2>3. CASE ~cancelRequested
    <3>1. runEvents["cancellation_requested"] = 0
      BY <2>1, <2>3 DEF AnnounceInv, RequestSound
    <3>2. runEvents'["cancellation_requested"] <= 1
      BY <3>1, <2>3
      DEF RequestCancel, StatusOnCancel, Publish, TypeOK, RunEventTypes,
          TerminalStatuses
    <3> QED
      BY <3>2 DEF RequestSound, RequestCancel
  <2> QED
    BY <2>2, <2>3
<1> QED
  BY <1>2, <1>3, <1>4 DEF AnnounceInv

\* The start of the run, the injection finding and the cancel request are
\* announced once at most, whatever executions overlap, crash and start again:
\* only the creator of a marker publishes, and only the first request does.
THEOREM AnnouncedOnceHolds == Spec => []AnnouncedOnce
<1>1. Init => AnnounceInv
  BY DEF Init, AnnounceInv, MarkSound, RequestSound, RunEventTypes
<1>2. IInv /\ AnnounceInv /\ [Next]_vars => AnnounceInv'
  <2> SUFFICES ASSUME IInv, AnnounceInv, [Next]_vars PROVE AnnounceInv'
    OBVIOUS
  <2>1. TypeOK /\ DecisionSound /\ QueuedUntouched
    BY DEF IInv
  <2>2. CASE UNCHANGED vars
    BY <2>1, <2>2, UnannouncedStep
    DEF vars, runRow, events, stores, Unannounced
  <2>3. ASSUME NEW e \in Execs, RunStep(e) PROVE AnnounceInv'
    BY <2>1, <2>3, AnnounceRunStep
  <2> QED
    BY <2>1, <2>2, <2>3, AnnounceOtherStep, AnnounceCancel
    DEF Next, Step, AtRest
<1>3. TypeOK /\ AnnounceInv => AnnouncedOnce
  BY DEF TypeOK, RunEventTypes, AnnounceInv, MarkSound, RequestSound,
         AnnouncedOnce
<1> QED
  BY <1>1, <1>2, <1>3, InvariantHolds, TypeCorrect, PTL DEF Spec

-----------------------------------------------------------------------------
(* The causes of the end.                                                  *)

\* What never shrinks: outcomes recorded, the deadline seen, the request.
CausesGrow ==
    /\ UNCHANGED config
    /\ \A s \in Specs : ckpt[s] # "none" => ckpt'[s] # "none"
    /\ expired => expired'
    /\ cancelRequested => cancelRequested'

LEMMA JustifiedKept ==
  ASSUME CausesGrow, NEW e \in Execs, Justified(e, verdict[e]),
         verdict'[e] = verdict[e], task'[e] = task[e], seen'[e] = seen[e]
  PROVE  Justified(e, verdict[e])'
<1>1. ReportedAs(e, "failed")' = ReportedAs(e, "failed")
  BY DEF ReportedAs, Reported, Rejection
<1> QED
  BY <1>1 DEF Justified, CausesGrow

LEMMA EndKept ==
  ASSUME CausesGrow, EndIsJustified, UNCHANGED <<status, summary>>
  PROVE  EndIsJustified'
BY DEF CausesGrow, EndIsJustified

LEMMA TasksKept ==
  ASSUME CausesGrow, TasksJustified, UNCHANGED task,
         \A e \in Execs : pc'[e] = "run" => pc[e] = "run"
  PROVE  TasksJustified'
BY DEF CausesGrow, TasksJustified

\* e goes to q, with its outcomes as they are; others stay.
LEMMA MoveKept ==
  ASSUME TypeOK, CausesGrow, TasksJustified, DecisionsJustified,
         NEW e \in Execs, NEW q, q \notin {"run", "finalize"}, Goto(e, q),
         UNCHANGED <<verdict, task, seen>>
  PROVE  TasksJustified' /\ DecisionsJustified'
<1>1. \A d \in Execs : pc'[d] \in {"run", "finalize"} => pc'[d] = pc[d]
  BY DEF Goto, TypeOK
<1>2. TasksJustified'
  BY <1>1, TasksKept
<1>3. ASSUME NEW d \in Execs, pc'[d] = "finalize"
      PROVE  Justified(d, verdict[d])'
  BY <1>1, <1>3, JustifiedKept DEF DecisionsJustified
<1> QED
  BY <1>2, <1>3 DEF DecisionsJustified

LEMMA DecideKept ==
  ASSUME TypeOK, CausesGrow, TasksJustified, DecisionsJustified,
         NEW e \in Execs, NEW t, Decide(e, t), Justified(e, t)',
         UNCHANGED <<task, seen>>
  PROVE  TasksJustified' /\ DecisionsJustified'
<1>1. /\ \A d \in Execs \ {e} : pc'[d] = pc[d] /\ verdict'[d] = verdict[d]
      /\ pc'[e] = "finalize"
      /\ verdict'[e] = t
  BY DEF Decide, Goto, TypeOK
<1>2. TasksJustified'
  BY <1>1, TasksKept
<1>3. ASSUME NEW d \in Execs, pc'[d] = "finalize"
      PROVE  Justified(d, verdict[d])'
  <2>1. CASE d = e
    BY <1>1, <2>1 DEF Justified
  <2>2. CASE d # e
    BY <1>1, <1>3, <2>2, JustifiedKept DEF DecisionsJustified
  <2> QED
    BY <2>1, <2>2
<1> QED
  BY <1>2, <1>3 DEF DecisionsJustified

LEMMA RestartKept ==
  ASSUME TypeOK, CausesGrow, TasksJustified, DecisionsJustified,
         NEW e \in Execs, Restart(e)
  PROVE  TasksJustified' /\ DecisionsJustified'
<1>1. /\ pc'[e] \in {"idle", "exhausted"}
      /\ task'[e] = [s \in Specs |-> "idle"]
      /\ \A d \in Execs \ {e} : /\ pc'[d] = pc[d] /\ verdict'[d] = verdict[d]
                                /\ task'[d] = task[d] /\ seen'[d] = seen[d]
  BY DEF Restart, Goto, TypeOK
<1>2. TasksJustified'
  BY <1>1 DEF TasksJustified, CausesGrow
<1>3. ASSUME NEW d \in Execs, pc'[d] = "finalize"
      PROVE  Justified(d, verdict[d])'
  BY <1>1, <1>3, JustifiedKept DEF DecisionsJustified
<1> QED
  BY <1>2, <1>3 DEF DecisionsJustified

\* One task of e moves to p; e itself stays, or goes from resume to run.
LEMMA TaskKept ==
  ASSUME TypeOK, CausesGrow, TasksJustified, DecisionsJustified,
         NEW e \in Execs, NEW s \in Specs, NEW p, TaskGoto(e, s, p),
         pc'[e] # "finalize", p # "idle",
         p = "timedOut" => expired',
         p \in {"loaded", "announceCkpt", "announceOutcome", "settled"}
             => ckpt'[s] # "none",
         pc'[e] = "run" => \A r \in Specs \ {s} : task[e][r] # "idle",
         \A d \in Execs \ {e} : /\ pc'[d] = pc[d] /\ seen'[d] = seen[d]
                                /\ verdict'[d] = verdict[d]
  PROVE  TasksJustified' /\ DecisionsJustified'
<1>1. /\ \A d \in Execs \ {e} : task'[d] = task[d]
      /\ \A r \in Specs \ {s} : task'[e][r] = task[e][r]
      /\ task'[e][s] = p
  BY DEF TaskGoto, TypeOK
<1>2. TasksJustified'
  <2> SUFFICES ASSUME NEW d \in Execs, NEW r \in Specs
               PROVE  /\ task'[d][r] \in {"loaded", "announceCkpt",
                                          "announceOutcome", "settled"}
                             => ckpt'[r] # "none"
                      /\ task'[d][r] = "timedOut" => expired'
                      /\ pc'[d] = "run" => task'[d][r] # "idle"
    BY DEF TasksJustified
  <2>1. CASE d = e /\ r = s
    BY <1>1, <2>1
  <2>2. CASE d = e /\ r # s
    BY <1>1, <2>2 DEF TasksJustified, CausesGrow
  <2>3. CASE d # e
    BY <1>1, <2>3 DEF TasksJustified, CausesGrow
  <2> QED
    BY <2>1, <2>2, <2>3
<1>3. ASSUME NEW d \in Execs, pc'[d] = "finalize"
      PROVE  Justified(d, verdict[d])'
  BY <1>1, <1>3, JustifiedKept DEF DecisionsJustified
<1> QED
  BY <1>2, <1>3 DEF DecisionsJustified

\* A run that ends as e decided is justified by what justified the decision.
LEMMA EndDecided ==
  ASSUME NEW e \in Execs, NEW d, EndRun(verdict[e], d, ReportedAs(e, "failed")),
         Justified(e, verdict[e]), verdict[e] = "cancelled" => cancelRequested,
         UNCHANGED <<config, cancelRequested, ckpt, expired>>
  PROVE  EndIsJustified'
<1>1. /\ status' = verdict[e]
      /\ summary'.failed = ReportedAs(e, "failed")
  BY DEF EndRun
<1> QED
  BY <1>1 DEF Justified, EndIsJustified

\* The status e decides on once its tasks have settled.
LEMMA JoinedJustified ==
  ASSUME TypeOK, TasksJustified, NEW e \in Execs, Joinable(e),
         Rejection(e) = {}
  PROVE  Justified(e, JoinedStatus(e))
<1>1. config.policy \in {"fail_run", "partial"}
  BY ConfigAssumption DEF TypeOK
<1>2. Reported(e) = {s \in Specs : task[e][s] \in {"loaded", "settled"}}
  BY DEF Reported
<1>3. CASE ReportedAs(e, "failed") # {} /\ config.policy = "fail_run"
  BY <1>3 DEF JoinedStatus, Justified
<1>4. CASE ~(ReportedAs(e, "failed") # {} /\ config.policy = "fail_run")
  <2>1. ~ChainStopped(e)
    BY <1>2, <1>4 DEF ChainStopped, ReportedAs
  <2>2. ASSUME NEW s \in Specs PROVE ckpt[s] # "none"
    <3>1. task[e][s] \in {"loaded", "settled"}
      <4>1. task[e][s] \notin Rejected
        BY DEF Rejection
      <4>2. task[e][s] \notin Working \cup {"pending", "idle"}
        BY <2>1 DEF Joinable, NoneWorking, TasksJustified
      <4>3. task[e][s] \in TaskStates
        BY DEF TypeOK
      <4> QED
        BY <4>1, <4>2, <4>3 DEF TaskStates
    <3> QED
      BY <3>1 DEF TasksJustified
  <2> QED
    BY <1>1, <1>4, <2>2 DEF JoinedStatus, Justified
<1> QED
  BY <1>3, <1>4

LEMMA EndRunStep ==
  ASSUME TypeOK, DecisionSound, EndInv, NEW e \in Execs, RunStep(e)
  PROVE  EndInv'
<1> USE DEF EndInv
<1>1. CausesGrow
  BY DEF RunStep, RejectStale, Enter, PreCancel, LoadInit, BeginRun, BeginLost,
         LostCancel, SaveInit, AnnounceStart, ApplyInjectionPolicy,
         AnnounceInjection, Join, Rethrow, Finalize, SaveDone, CausesGrow,
         runRow, stores
<1>2. CASE RejectStale(e)
  <2>1. TasksJustified' /\ DecisionsJustified'
    BY <1>1, <1>2, MoveKept DEF RejectStale, tasks
  <2>2. EndIsJustified'
    <3>1. CASE EndRun("failed", {}, {})
      BY <1>2, <3>1 DEF RejectStale, EndRun, EndIsJustified
    <3>2. CASE UNCHANGED <<status, summary, events>>
      BY <1>1, <3>2, EndKept
    <3> QED
      BY <1>2, <3>1, <3>2 DEF RejectStale
  <2> QED
    BY <2>1, <2>2
<1>3. CASE Finalize(e)
  <2>1. TasksJustified' /\ DecisionsJustified'
    BY <1>1, <1>3, MoveKept DEF Finalize, tasks
  <2>2. EndIsJustified'
    <3>1. CASE EndRun(verdict[e], ReportedAs(e, "completed"),
                      ReportedAs(e, "failed"))
      <4>1. /\ Justified(e, verdict[e])
            /\ verdict[e] = "cancelled" => cancelRequested
        BY <1>3 DEF Finalize, DecisionsJustified, DecisionSound
      <4> QED
        BY <1>3, <3>1, <4>1, EndDecided DEF Finalize, stores
    <3>2. CASE UNCHANGED <<status, summary, events>>
      BY <1>1, <3>2, EndKept
    <3> QED
      BY <1>3, <3>1, <3>2 DEF Finalize
  <2> QED
    BY <2>1, <2>2
<1>4. CASE BeginRun(e)
  <2>1. TasksJustified' /\ DecisionsJustified'
    BY <1>1, <1>4, MoveKept DEF BeginRun, tasks
  <2>2. EndIsJustified'
    BY <1>1, <1>4, EndKept DEF BeginRun, EndIsJustified
  <2> QED
    BY <2>1, <2>2
<1>5. ASSUME ~RejectStale(e), ~Finalize(e), ~BeginRun(e)
      PROVE  EndIsJustified'
  <2>1. UNCHANGED <<status, summary>>
    BY <1>5
    DEF RunStep, Enter, PreCancel, LoadInit, BeginLost, LostCancel, SaveInit,
        AnnounceStart, ApplyInjectionPolicy, AnnounceInjection, Join, Rethrow,
        SaveDone, runRow
  <2> QED
    BY <1>1, <2>1, EndKept
<1>6. ASSUME NEW q, q \notin {"run", "finalize"}, Goto(e, q),
             UNCHANGED <<verdict, tasks>>
      PROVE  TasksJustified' /\ DecisionsJustified'
  BY <1>1, <1>6, MoveKept DEF tasks
<1>7. ASSUME \/ Enter(e) \/ LoadInit(e) \/ BeginLost(e) \/ SaveInit(e)
             \/ AnnounceStart(e) \/ AnnounceInjection(e) \/ SaveDone(e)
      PROVE  TasksJustified' /\ DecisionsJustified'
  BY <1>6, <1>7
  DEF Enter, LoadInit, BeginLost, SaveInit, AnnounceStart, AnnounceInjection,
      SaveDone
<1>8. ASSUME PreCancel(e) \/ LostCancel(e)
      PROVE  TasksJustified' /\ DecisionsJustified'
  <2>1. CASE Decide(e, "cancelled")
    <3>1. Justified(e, "cancelled")'
      BY DEF Justified
    <3> QED
      BY <1>1, <1>8, <2>1, <3>1, DecideKept DEF PreCancel, LostCancel, tasks
  <2> QED
    BY <1>6, <1>8, <2>1 DEF PreCancel, LostCancel
<1>9. CASE ApplyInjectionPolicy(e)
  <2>1. CASE config.injection = "fail_run" /\ Decide(e, "failed")
    <3>1. Justified(e, "failed")'
      BY <1>1, <2>1 DEF Justified, CausesGrow
    <3>2. TasksJustified' /\ DecisionsJustified'
      BY <1>1, <1>9, <2>1, <3>1, DecideKept DEF ApplyInjectionPolicy, tasks
    <3> QED
      BY <3>2, <1>5, <1>9, EndKept, <1>1 DEF ApplyInjectionPolicy, runRow
  <2>2. CASE ~(config.injection = "fail_run" /\ Decide(e, "failed"))
    <3>1. TasksJustified' /\ DecisionsJustified'
      BY <1>6, <1>9, <2>2 DEF ApplyInjectionPolicy
    <3> QED
      BY <3>1, <1>9, EndKept, <1>1 DEF ApplyInjectionPolicy, runRow
  <2> QED
    BY <2>1, <2>2
<1>10. CASE Join(e)
  <2>1. UNCHANGED <<status, summary, task, seen, config, ckpt, expired>>
    BY <1>10 DEF Join, runRow, tasks, stores
  <2>2. EndIsJustified'
    BY <1>1, <2>1, EndKept
  <2>3. ASSUME NEW t, Decide(e, t), Justified(e, t)
        PROVE  TasksJustified' /\ DecisionsJustified'
    <3>1. Justified(e, t)'
      BY <2>1, <2>3 DEF Justified, ReportedAs, Reported, Rejection
    <3> QED
      BY <1>1, <2>1, <2>3, <3>1, DecideKept
  <2>4. CASE Rejection(e) = {} /\ Decide(e, JoinedStatus(e))
    <3>1. Justified(e, JoinedStatus(e))
      BY <1>10, <2>4, JoinedJustified DEF Join
    <3>2. PICK t : t = JoinedStatus(e)
      OBVIOUS
    <3> QED
      BY <2>2, <2>3, <2>4, <3>1, <3>2
  <2>5. CASE Decide(e, "cancelled")
    BY <2>2, <2>3, <2>5 DEF Justified
  <2>6. CASE Decide(e, "failed") /\ \E s \in Specs : task[e][s] = "timedOut"
    BY <2>2, <2>3, <2>6 DEF Justified, TasksJustified
  <2> QED
    BY <1>10, <2>2, <2>4, <2>5, <2>6 DEF Join
<1>11. CASE Rethrow(e)
  BY <1>1, <1>11, RestartKept, EndKept DEF Rethrow, runRow
<1> QED
  BY <1>2, <1>3, <1>4, <1>5, <1>7, <1>8, <1>9, <1>10, <1>11 DEF RunStep

LEMMA EndSpecialistStep ==
  ASSUME TypeOK, OutcomeKnown, EndInv, NEW e \in Execs, NEW s \in Specs,
         SpecialistStep(e, s)
  PROVE  EndInv'
<1> USE DEF EndInv
<1>1. CausesGrow
  <2>1. CASE SaveCkpt(e, s)
    <3>1. seen[e][s] # "none"
      BY <2>1 DEF SaveCkpt, At, OutcomeKnown, Outcomes
    <3> QED
      BY <2>1, <3>1 DEF SaveCkpt, CreateWins, TypeOK, CausesGrow, runRow
  <2>2. CASE ~SaveCkpt(e, s)
    <3>1. UNCHANGED <<config, ckpt, cancelRequested>>
      BY <2>2
      DEF SpecialistStep, Resume, NextSpecialist, Gate, PollTask, Announce,
          StartAttempt, ProviderAnswer, SaveRetry, AnnounceRetry, SaveRow,
          AnnounceCkpt, AnnounceOutcome, stores, runRow
    <3>2. expired => expired'
      BY <2>2
      DEF SpecialistStep, Resume, NextSpecialist, Gate, PollTask, Announce,
          StartAttempt, ProviderAnswer, SaveRetry, AnnounceRetry, SaveRow,
          AnnounceCkpt, AnnounceOutcome, Poll
    <3> QED
      BY <3>1, <3>2 DEF CausesGrow
  <2> QED
    BY <2>1, <2>2
<1>2. EndIsJustified'
  <2>1. UNCHANGED <<status, summary>>
    BY DEF SpecialistStep, Resume, NextSpecialist, Gate, PollTask, Announce,
           StartAttempt, ProviderAnswer, SaveRetry, AnnounceRetry, SaveRow,
           SaveCkpt, AnnounceCkpt, AnnounceOutcome, runRow
  <2> QED
    BY <1>1, <2>1, EndKept
\* A move of the task that leaves the position of e alone.
<1>3. ASSUME NEW p, TaskGoto(e, s, p), p # "idle", p = "timedOut" => expired',
             p \in {"loaded", "announceCkpt", "announceOutcome", "settled"}
                 => ckpt'[s] # "none",
             pc[e] = "run", UNCHANGED <<pc, verdict>>,
             \A d \in Execs \ {e} : seen'[d] = seen[d]
      PROVE  TasksJustified' /\ DecisionsJustified'
  <2>1. \A r \in Specs \ {s} : task[e][r] # "idle"
    BY <1>3 DEF TasksJustified
  <2> QED
    BY <1>1, <1>3, <2>1, TaskKept
<1>4. CASE Resume(e, s)
  <2>1. /\ \A d \in Execs \ {e} : /\ pc'[d] = pc[d] /\ seen'[d] = seen[d]
                                  /\ verdict'[d] = verdict[d]
        /\ pc'[e] = IF s = N THEN "run" ELSE "resume"
        /\ UNCHANGED <<ckpt, expired>>
    BY <1>4 DEF Resume, Goto, TypeOK, stores
  <2>2. pc'[e] = "run" => \A r \in Specs \ {s} : task[e][r] # "idle"
    <3>1. ASSUME s = N, NEW r \in Specs \ {s} PROVE task[e][r] # "idle"
      <4>1. r < s
        BY <3>1, NAssumption DEF Specs
      <4> QED
        BY <1>4, <4>1 DEF Resume
    <3> QED
      BY <2>1, <3>1
  <2>3. PICK p \in {"loaded", "gate", "pending"} :
            TaskGoto(e, s, p) /\ (p = "loaded" => ckpt[s] # "none")
    BY <1>4 DEF Resume, Loadable, Outcomes
  <2> QED
    BY <1>1, <1>2, <2>1, <2>2, <2>3, TaskKept
<1>5. CASE NextSpecialist(e, s)
  <2>1. UNCHANGED <<seen, ckpt, config>>
    BY <1>5 DEF NextSpecialist, stores
  <2>2. CASE Decide(e, "cancelled") /\ UNCHANGED task
    <3>1. Justified(e, "cancelled")'
      BY DEF Justified
    <3> QED
      BY <1>1, <1>2, <2>1, <2>2, <3>1, DecideKept
  <2>3. CASE Decide(e, "failed") /\ expired' /\ UNCHANGED task
    <3>1. Justified(e, "failed")'
      BY <2>3 DEF Justified
    <3> QED
      BY <1>1, <1>2, <2>1, <2>3, <3>1, DecideKept
  <2>4. CASE TaskGoto(e, s, "gate") /\ UNCHANGED <<pc, verdict>>
    BY <1>2, <1>3, <1>5, <2>1, <2>4 DEF NextSpecialist, At
  <2> QED
    BY <1>5, <2>2, <2>3, <2>4 DEF NextSpecialist, Poll
<1>6. ASSUME NEW from, NEW to \in {"announce", "calling"},
             PollTask(e, s, from, to)
      PROVE  TasksJustified' /\ DecisionsJustified'
  <2>1. PICK p \in {"cancelled", "timedOut", to} :
            TaskGoto(e, s, p) /\ (p = "timedOut" => expired')
    BY <1>6 DEF PollTask, Poll
  <2> QED
    BY <1>3, <1>6, <2>1 DEF PollTask, At
<1>7. CASE Gate(e, s) \/ StartAttempt(e, s)
  BY <1>2, <1>6, <1>7 DEF Gate, StartAttempt
<1>8. CASE ProviderAnswer(e, s)
  <2>1. PICK p \in {"saveRetry", "saveRow"} : TaskGoto(e, s, p)
    BY <1>8 DEF ProviderAnswer
  <2>2. \A d \in Execs \ {e} : seen'[d] = seen[d]
    BY <1>8 DEF ProviderAnswer, TypeOK
  <2> QED
    BY <1>2, <1>3, <1>8, <2>1, <2>2 DEF ProviderAnswer, At
<1>9. CASE SaveCkpt(e, s)
  <2>1. seen[e][s] # "none"
    BY <1>9 DEF SaveCkpt, At, OutcomeKnown, Outcomes
  <2>2. ckpt'[s] # "none"
    BY <1>9, <2>1 DEF SaveCkpt, CreateWins, TypeOK
  <2> QED
    BY <1>2, <1>3, <1>9, <2>2 DEF SaveCkpt, At
<1>10. CASE AnnounceCkpt(e, s) \/ AnnounceOutcome(e, s)
  <2>1. ckpt'[s] # "none"
    BY <1>10 DEF AnnounceCkpt, AnnounceOutcome, At, TasksJustified, stores
  <2> QED
    BY <1>2, <1>3, <1>10, <2>1 DEF AnnounceCkpt, AnnounceOutcome, At
<1>11. CASE Announce(e, s) \/ SaveRetry(e, s) \/ AnnounceRetry(e, s)
            \/ SaveRow(e, s)
  BY <1>2, <1>3, <1>11 DEF Announce, SaveRetry, AnnounceRetry, SaveRow, At
<1> QED
  BY <1>4, <1>5, <1>7, <1>8, <1>9, <1>10, <1>11 DEF SpecialistStep

LEMMA EndOtherStep ==
  ASSUME TypeOK, QueuedUntouched, EndInv,
         RequestCancel \/ \E e \in Execs : Disturbance(e)
  PROVE  EndInv'
<1> USE DEF EndInv
<1>1. CausesGrow
  BY DEF RequestCancel, Disturbance, Crash, Throw, CausesGrow, runRow, stores
<1>2. CASE RequestCancel
  <2>1. EndIsJustified'
    BY <1>2
    DEF RequestCancel, StatusOnCancel, EndIsJustified
  <2>2. UNCHANGED <<pc, verdict, task, seen>>
    BY <1>2 DEF RequestCancel, tasks
  <2>3. TasksJustified'
    BY <1>1, <2>2, TasksKept
  <2>4. DecisionsJustified'
    BY <1>1, <2>2, JustifiedKept DEF DecisionsJustified
  <2> QED
    BY <2>1, <2>3, <2>4
<1>3. ASSUME NEW e \in Execs, Crash(e) PROVE EndInv'
  BY <1>1, <1>3, RestartKept, EndKept DEF Crash, runRow
<1>4. ASSUME NEW e \in Execs, NEW s \in Specs, Throw(e, s) PROVE EndInv'
  <2>1. UNCHANGED <<pc, verdict, seen, status, summary, expired>>
    BY <1>4 DEF Throw, runRow
  <2>2. pc[e] = "run" /\ TaskGoto(e, s, "threw")
    BY <1>4 DEF Throw
  <2>3. \A r \in Specs : task[e][r] # "idle"
    BY <2>2 DEF TasksJustified
  <2>4. TasksJustified' /\ DecisionsJustified'
    BY <1>1, <2>1, <2>2, <2>3, TaskKept
  <2> QED
    BY <1>1, <2>1, <2>4, EndKept
<1> QED
  BY <1>2, <1>3, <1>4 DEF Disturbance

\* The invariant of what executions carry towards the end of the run: their
\* tasks and their decisions have a cause in the stores (runSpecialist,
\* finalizeTerminal).
THEOREM EndInvariantHolds == Spec => []EndInv
<1>1. Init => EndInv
  BY DEF Init, EndInv, TasksJustified, DecisionsJustified, EndIsJustified
<1>2. IInv /\ EndInv /\ [Next]_vars => EndInv'
  <2> SUFFICES ASSUME IInv, EndInv, [Next]_vars PROVE EndInv'
    OBVIOUS
  <2>1. TypeOK /\ DecisionSound /\ OutcomeKnown /\ QueuedUntouched
    BY DEF IInv
  <2>2. CASE UNCHANGED vars
    <3>1. CausesGrow /\ UNCHANGED <<pc, verdict, task, seen, status, summary>>
      BY <2>2 DEF vars, runRow, stores, tasks, CausesGrow
    <3>2. TasksJustified' /\ EndIsJustified'
      BY <3>1, TasksKept, EndKept DEF EndInv
    <3>3. DecisionsJustified'
      BY <3>1, JustifiedKept DEF EndInv, DecisionsJustified
    <3> QED
      BY <3>2, <3>3 DEF EndInv
  <2> QED
    BY <2>1, <2>2, EndRunStep, EndSpecialistStep, EndOtherStep
    DEF Next, Step, AtRest
<1> QED
  BY <1>1, <1>2, InvariantHolds, PTL DEF Spec

\* Every way to end has its cause, however the executions overlap, crash and
\* start again: the cause of a decision survives until finalize writes it.
THEOREM EndIsJustifiedHolds == Spec => []EndIsJustified
<1>1. EndInv => EndIsJustified
  BY DEF EndInv
<1> QED
  BY <1>1, EndInvariantHolds, PTL

-----------------------------------------------------------------------------
(* Executions that follow one another.                                     *)

\* The scheduler starts an execution, or starts it again, only after the one
\* before has returned, died or been given up.
Active(e) == pc[e] \notin {"idle", "ended", "exhausted"}

OneAtATime == \A d, e \in Execs : Active(d) /\ Active(e) => d = e

\* Before the specialists are looked up.
Early == Positions \ {"resume", "run", "finalize", "saveDone", "ended"}

Unsaved == {"pending", "gate", "announce", "poll", "calling", "saveRetry",
            "announceRetry", "saveRow", "saveCkpt"}

Saved == {"announceCkpt", "announceOutcome", "settled", "loaded"}

Done(e, s) == task[e][s] \in {"settled", "loaded"}

Concluded(s) == specEvents[s]["completed"] + specEvents[s]["failed"]

\* What is durable about s is what the execution at work on it knows.
TaskAgrees(e, s) ==
    /\ task[e][s] \in Unsaved => ckpt[s] = "none"
    /\ task[e][s] = "saveCkpt" => row[s] = seen[e][s]
    /\ task[e][s] \in Saved => ckpt[s] = seen[e][s]
    /\ task[e][s] = "announceCkpt" => specEvents[s]["checkpointed"] = 0
    /\ task[e][s] \in {"announceCkpt", "announceOutcome"} => Concluded(s) = 0

\* In sequential mode nothing is begun before all that precedes it is done, and
\* the last that is done is the one whose outcome is passed on.
InOrder(e) ==
    config.mode = "sequential" =>
        /\ \A r, s \in Specs :
               r < s /\ task[e][s] \notin {"pending", "idle"} => Done(e, r)
        /\ \A s \in Specs : Done(e, s) => s <= prior[e]
        /\ prior[e] # 0 => Done(e, prior[e])

\* The lookup has come to the first idle specialist.
LookedUp(e) ==
    /\ \A s \in Specs : task[e][s] \in
           {"idle", "loaded", IF config.mode = "parallel" THEN "gate" ELSE "pending"}
    /\ \A r, s \in Specs : r < s /\ task[e][r] = "idle" => task[e][s] = "idle"

WorkerInv ==
    \A e \in Execs :
        /\ pc[e] \in Early =>
               prior[e] = 0 /\ \A s \in Specs : task[e][s] = "idle"
        /\ pc[e] = "resume" => LookedUp(e)
        /\ pc[e] \in {"resume", "run"} => InOrder(e)
        /\ pc[e] \in {"resume", "run", "finalize"} =>
               \A s \in Specs : TaskAgrees(e, s)

\* The stores by themselves: an event stands for a checkpoint, a row shows it,
\* and in sequential mode the checkpoints are those of the first specialists.
StoresAgree(s) ==
    /\ ckpt[s] # "none" => row[s] = ckpt[s]
    /\ ckpt[s] = "none" =>
           specEvents[s]["checkpointed"] = 0 /\ Concluded(s) = 0
    /\ specEvents[s]["checkpointed"] <= 1
    /\ Concluded(s) <= 1

StoreInv ==
    /\ \A s \in Specs : StoresAgree(s)
    /\ config.mode = "sequential" =>
           \A r, s \in Specs : r < s /\ ckpt[s] # "none" => ckpt[r] # "none"

SoloInv == WorkerInv /\ StoreInv

\* What a decision or a finished run reports.
SummaryInv ==
    /\ \A e \in Execs :
           pc[e] = "finalize" /\ verdict[e] \in {"completed", "partial"} =>
               \A s \in Specs : Done(e, s)
    /\ SummaryMatchesCheckpoints

\* Where an execution can be once the run has ended: a run that was queued ended
\* before anything was marked, and any other was ended by this execution.
QuietInv ==
    /\ status = "queued" =>
           /\ "init" \notin marks
           /\ \A e \in Execs : pc[e] \in
                  {"idle", "preCancel", "loadInit", "begin", "exhausted"}
    /\ IsTerminal(status) =>
           \A e \in Execs :
               /\ pc[e] \in {"idle", "preCancel", "loadInit", "begin",
                             "beginLost", "finalize", "saveDone", "ended",
                             "exhausted"}
               /\ pc[e] \in {"preCancel", "loadInit"} => "init" \notin marks

-----------------------------------------------------------------------------
LEMMA TaskMoved ==
  ASSUME TypeOK, NEW e \in Execs, NEW s \in Specs, NEW p, TaskGoto(e, s, p)
  PROVE  /\ task'[e][s] = p
         /\ \A r \in Specs \ {s} : task'[e][r] = task[e][r]
         /\ \A d \in Execs \ {e} : task'[d] = task[d]
BY DEF TypeOK, TaskGoto

LEMMA Published ==
  ASSUME TypeOK, NEW s \in Specs, NEW t \in SpecEventTypes, PublishFor(s, t)
  PROVE  /\ specEvents'[s][t] = specEvents[s][t] + 1
         /\ \A u \in SpecEventTypes \ {t} : specEvents'[s][u] = specEvents[s][u]
         /\ \A r \in Specs \ {s} : specEvents'[r] = specEvents[r]
<1>1. specEvents' = [specEvents EXCEPT ![s] = [specEvents[s] EXCEPT ![t] = specEvents[s][t] + 1]]
  BY DEF PublishFor
<1>2. specEvents'[s] = [specEvents[s] EXCEPT ![t] = specEvents[s][t] + 1]
  BY <1>1 DEF TypeOK
<1>3. specEvents[s] \in [SpecEventTypes -> Nat]
  BY DEF TypeOK
<1> QED
  BY <1>1, <1>2, <1>3 DEF TypeOK

LEMMA InitSolo == Init => SoloInv
<1> SUFFICES ASSUME Init PROVE SoloInv
  OBVIOUS
<1>1. \A s \in Specs : ckpt[s] = "none"
  BY DEF Init
<1>2. \A s \in Specs : specEvents[s]["checkpointed"] = 0 /\ Concluded(s) = 0
  BY DEF Init, Concluded, SpecEventTypes, Outcomes
<1>3. StoreInv
  BY <1>1, <1>2 DEF StoreInv, StoresAgree
<1>4. WorkerInv
  BY DEF Init, WorkerInv
<1> QED
  BY <1>3, <1>4 DEF SoloInv

LEMMA StoreKept ==
  ASSUME StoreInv, UNCHANGED <<config, specEvents, ckpt, row>>
  PROVE  StoreInv'
BY DEF StoreInv, StoresAgree, Concluded

\* An execution keeps its tasks while it goes somewhere that asks no more of
\* them.
LEMMA MoveSolo ==
  ASSUME TypeOK, SoloInv, NEW e \in Execs, NEW q, Goto(e, q),
         q # "run",
         q \in Early \cup {"resume"} => pc[e] \in Early,
         q = "finalize" => pc[e] \in Early \cup {"run"},
         UNCHANGED <<config, specEvents, ckpt, row, prior, task, seen>>
  PROVE  SoloInv'
<1> USE DEF SoloInv
<1>1. pc'[e] = q /\ \A d \in Execs \ {e} : pc'[d] = pc[d]
  BY DEF Goto, TypeOK
<1>2. \A d \in Execs : InOrder(d)' <=> InOrder(d)
  BY DEF InOrder, Done
<1>3. \A d \in Execs, s \in Specs : TaskAgrees(d, s)' <=> TaskAgrees(d, s)
  BY DEF TaskAgrees, Concluded
<1>4. \A d \in Execs : LookedUp(d)' <=> LookedUp(d)
  BY DEF LookedUp
\* Idle tasks satisfy all that is asked of them.
<1>5. ASSUME pc[e] \in Early
      PROVE  LookedUp(e) /\ InOrder(e) /\ \A s \in Specs : TaskAgrees(e, s)
  <2>1. prior[e] = 0 /\ \A s \in Specs : task[e][s] = "idle"
    BY <1>5 DEF WorkerInv
  <2> QED
    BY <2>1 DEF LookedUp, InOrder, TaskAgrees, Done, Unsaved, Saved
<1>6. WorkerInv'
  <2> SUFFICES ASSUME NEW d \in Execs
               PROVE  /\ pc'[d] \in Early =>
                            prior[d] = 0 /\ \A s \in Specs : task[d][s] = "idle"
                      /\ pc'[d] = "resume" => LookedUp(d)
                      /\ pc'[d] \in {"resume", "run"} => InOrder(d)
                      /\ pc'[d] \in {"resume", "run", "finalize"} =>
                            \A s \in Specs : TaskAgrees(d, s)
    BY <1>2, <1>3, <1>4 DEF WorkerInv
  <2>1. CASE d # e
    BY <1>1, <2>1 DEF WorkerInv
  <2>2. CASE d = e /\ pc[e] \in Early
    BY <1>1, <1>5, <2>2 DEF WorkerInv
  <2>3. CASE d = e /\ pc[e] \notin Early
    BY <1>1, <2>3 DEF WorkerInv
  <2> QED
    BY <2>1, <2>2, <2>3
<1> QED
  BY <1>6, StoreKept

LEMMA RestartSolo ==
  ASSUME TypeOK, SoloInv, NEW e \in Execs, Restart(e),
         UNCHANGED <<config, specEvents, ckpt, row>>
  PROVE  SoloInv'
<1> USE DEF SoloInv
<1>1. /\ pc'[e] \in {"idle", "exhausted"} /\ prior'[e] = 0
      /\ task'[e] = [s \in Specs |-> "idle"]
      /\ \A d \in Execs \ {e} : /\ pc'[d] = pc[d] /\ prior'[d] = prior[d]
                                /\ task'[d] = task[d] /\ seen'[d] = seen[d]
  BY DEF Restart, Goto, TypeOK
<1>2. WorkerInv'
  <2> SUFFICES ASSUME NEW d \in Execs
               PROVE  /\ pc'[d] \in Early =>
                            prior'[d] = 0 /\ \A s \in Specs : task'[d][s] = "idle"
                      /\ pc'[d] = "resume" => LookedUp(d)'
                      /\ pc'[d] \in {"resume", "run"} => InOrder(d)'
                      /\ pc'[d] \in {"resume", "run", "finalize"} =>
                            \A s \in Specs : TaskAgrees(d, s)'
    BY DEF WorkerInv
  <2>1. CASE d = e
    BY <1>1, <2>1
  <2>2. CASE d # e
    <3>1. /\ pc'[d] = pc[d] /\ prior'[d] = prior[d]
          /\ task'[d] = task[d] /\ seen'[d] = seen[d]
      BY <1>1, <2>2
    <3> QED
      BY <3>1 DEF WorkerInv, LookedUp, InOrder, TaskAgrees, Concluded, Done
  <2> QED
    BY <2>1, <2>2
<1> QED
  BY <1>2, StoreKept

LEMMA SoloRunStep ==
  ASSUME TypeOK, SoloInv, NEW e \in Execs, RunStep(e)
  PROVE  SoloInv'
<1> USE DEF runRow, events, stores, tasks, Early, Positions
<1>1. CASE Rethrow(e)
  BY <1>1, RestartSolo DEF Rethrow
<1>2. CASE Join(e)
  BY <1>2, MoveSolo DEF Join, Joinable, Decide
<1>3. CASE RejectStale(e) \/ Finalize(e) \/ SaveDone(e)
  <2>1. UNCHANGED <<config, specEvents, ckpt, row, prior, task, seen>>
    BY <1>3 DEF RejectStale, Finalize, SaveDone, EndRun, Publish
  <2>2. PICK q \in {"saveDone", "ended"} : Goto(e, q)
    BY <1>3 DEF RejectStale, Finalize, SaveDone
  <2> QED
    BY <2>1, <2>2, MoveSolo
<1>4. ASSUME \/ Enter(e) \/ PreCancel(e) \/ LoadInit(e) \/ BeginRun(e)
             \/ BeginLost(e) \/ LostCancel(e) \/ SaveInit(e) \/ AnnounceStart(e)
             \/ ApplyInjectionPolicy(e) \/ AnnounceInjection(e)
      PROVE  SoloInv'
  <2>1. UNCHANGED <<config, specEvents, ckpt, row, prior, task, seen>>
    BY <1>4 DEF Enter, PreCancel, LoadInit, BeginRun, BeginLost, LostCancel,
                SaveInit, AnnounceStart, ApplyInjectionPolicy,
                AnnounceInjection, Publish
  <2>2. pc[e] \in Early
    BY <1>4 DEF Enter, PreCancel, LoadInit, BeginRun, BeginLost, LostCancel,
                SaveInit, AnnounceStart, ApplyInjectionPolicy, AnnounceInjection
  <2>3. PICK q \in Positions \ {"run"} : Goto(e, q)
    BY <1>4 DEF Enter, PreCancel, LoadInit, BeginRun, BeginLost, LostCancel,
                SaveInit, AnnounceStart, ApplyInjectionPolicy,
                AnnounceInjection, Decide
  <2> QED
    BY <2>1, <2>2, <2>3, MoveSolo
<1> QED
  BY <1>1, <1>2, <1>3, <1>4 DEF RunStep

\* Nobody else has begun while e is at work on its specialists.
LEMMA OthersRest ==
  ASSUME TypeOK, OneAtATime, NEW e \in Execs,
         pc[e] \notin {"idle", "ended", "exhausted"}
  PROVE  \A d \in Execs \ {e} : pc[d] \in {"idle", "ended", "exhausted"}
BY DEF OneAtATime, Active

\* A step of e on specialist s touches no other specialist.
LEMMA TaskStepSolo ==
  ASSUME TypeOK, OneAtATime, SoloInv, NEW e \in Execs, NEW s \in Specs, NEW p,
         pc[e] \in {"run", "resume"}, TaskGoto(e, s, p), UNCHANGED config,
         pc'[e] \in {"run", "resume"},
         pc'[e] = "resume" => LookedUp(e)',
         \A d \in Execs \ {e} : pc'[d] = pc[d] /\ prior'[d] = prior[d],
         \A r \in Specs \ {s} :
             /\ ckpt'[r] = ckpt[r] /\ row'[r] = row[r]
             /\ specEvents'[r] = specEvents[r] /\ seen'[e][r] = seen[e][r],
         TaskAgrees(e, s)', StoresAgree(s)', InOrder(e)',
         ckpt[s] # "none" => ckpt'[s] # "none",
         config.mode = "sequential" /\ ckpt'[s] # "none" =>
             \A r \in Specs : r < s => ckpt[r] # "none"
  PROVE  SoloInv'
<1> USE DEF SoloInv
<1>1. /\ task'[e][s] = p
      /\ \A r \in Specs \ {s} : task'[e][r] = task[e][r]
      /\ \A d \in Execs \ {e} : task'[d] = task[d]
  BY TaskMoved
<1>2. StoreInv'
  <2>1. ASSUME NEW r \in Specs PROVE StoresAgree(r)'
    BY DEF StoreInv, StoresAgree, Concluded
  <2>2. ASSUME config'.mode = "sequential", NEW q \in Specs, NEW r \in Specs,
               q < r, ckpt'[r] # "none"
        PROVE  ckpt'[q] # "none"
    <3>1. ckpt[q] # "none"
      BY <2>2 DEF StoreInv
    <3> QED
      BY <3>1
  <2> QED
    BY <2>1, <2>2 DEF StoreInv
<1>3. WorkerInv'
  <2>1. ASSUME NEW r \in Specs PROVE TaskAgrees(e, r)'
    <3>1. CASE r # s
      <4>1. TaskAgrees(e, r)
        BY DEF WorkerInv
      <4>2. /\ task'[e][r] = task[e][r] /\ ckpt'[r] = ckpt[r]
            /\ row'[r] = row[r] /\ specEvents'[r] = specEvents[r]
            /\ seen'[e][r] = seen[e][r]
        BY <1>1, <3>1
      <4> QED
        BY <4>1, <4>2 DEF TaskAgrees, Concluded
    <3> QED
      BY <3>1
  <2>2. ASSUME NEW d \in Execs \ {e}
        PROVE  /\ pc'[d] \in {"idle", "ended", "exhausted"}
               /\ pc'[d] \in Early =>
                      prior'[d] = 0 /\ \A r \in Specs : task'[d][r] = "idle"
    BY <1>1, OthersRest DEF WorkerInv
  <2>3. pc'[e] \notin Early
    BY DEF Early
  <2> SUFFICES ASSUME NEW d \in Execs
               PROVE  /\ pc'[d] \in Early =>
                            prior'[d] = 0 /\ \A r \in Specs : task'[d][r] = "idle"
                      /\ pc'[d] = "resume" => LookedUp(d)'
                      /\ pc'[d] \in {"resume", "run"} => InOrder(d)'
                      /\ pc'[d] \in {"resume", "run", "finalize"} =>
                            \A r \in Specs : TaskAgrees(d, r)'
    BY DEF WorkerInv
  <2>4. CASE d = e
    BY <2>1, <2>3, <2>4
  <2>5. CASE d # e
    BY <2>2, <2>5
  <2> QED
    BY <2>4, <2>5
<1> QED
  BY <1>2, <1>3

\* A task that is not done, moved to where it is not done either, breaks no
\* order, provided that what precedes it is done.
LEMMA InOrderKept ==
  ASSUME TypeOK, NEW e \in Execs, NEW s \in Specs, NEW p, InOrder(e),
         TaskGoto(e, s, p), p \notin {"settled", "loaded"}, ~Done(e, s),
         UNCHANGED <<config, prior>>,
         \/ p = "pending"
         \/ task[e][s] \notin {"pending", "idle"}
         \/ config.mode = "sequential" =>
                \A r \in Specs : r < s => Done(e, r)
  PROVE  InOrder(e)'
<1> SUFFICES ASSUME config.mode = "sequential" PROVE InOrder(e)'
  BY DEF InOrder
<1>1. /\ task'[e][s] = p
      /\ \A r \in Specs \ {s} : task'[e][r] = task[e][r]
  BY TaskMoved
<1>2. \A r \in Specs : Done(e, r)' <=> Done(e, r)
  BY <1>1 DEF Done
<1>3. ASSUME NEW q \in Specs, NEW r \in Specs, q < r,
             task'[e][r] \notin {"pending", "idle"}
      PROVE  Done(e, q)'
  <2>1. CASE r = s
    BY <1>1, <1>2, <1>3, <2>1 DEF InOrder
  <2>2. CASE r # s
    BY <1>1, <1>2, <1>3, <2>2 DEF InOrder
  <2> QED
    BY <2>1, <2>2
<1>4. \A r \in Specs : Done(e, r)' => r <= prior'[e]
  BY <1>2 DEF InOrder
<1>5. prior'[e] # 0 => Done(e, prior[e])'
  <2>1. prior[e] # 0 => prior[e] \in Specs
    BY NAssumption DEF TypeOK, Specs
  <2> QED
    BY <1>2, <2>1 DEF InOrder
<1> QED
  BY <1>3, <1>4, <1>5 DEF InOrder, Done

\* A step of a running task that writes neither a checkpoint nor an event, and
\* the row only of a specialist without a checkpoint.
LEMMA QuietTaskStep ==
  ASSUME TypeOK, OneAtATime, SoloInv, NEW e \in Execs, NEW s \in Specs,
         NEW p \in (Unsaved \cup Rejected) \ {"saveCkpt"},
         pc[e] = "run", TaskGoto(e, s, p), ~Done(e, s),
         \/ task[e][s] # "pending"
         \/ config.mode = "sequential" =>
                \A r \in Specs : r < s => Done(e, r),
         p \in Unsaved => task[e][s] \in Unsaved,
         task[e][s] # "idle",
         UNCHANGED <<config, pc, prior, ckpt>>,
         row' = row \/ ckpt[s] = "none",
         specEvents' = specEvents
             \/ \A t \in {"checkpointed", "completed", "failed"} :
                    specEvents'[s][t] = specEvents[s][t],
         \A r \in Specs \ {s} : /\ row'[r] = row[r]
                                /\ specEvents'[r] = specEvents[r]
                                /\ seen'[e][r] = seen[e][r]
  PROVE  SoloInv'
<1> USE DEF SoloInv
<1>1. InOrder(e)'
  <2>1. InOrder(e)
    BY DEF WorkerInv
  <2>2. p \notin {"settled", "loaded"}
    BY DEF Unsaved, Rejected
  <2> QED
    BY <2>1, <2>2, InOrderKept
<1>2. TaskAgrees(e, s)'
  <2>1. task'[e][s] = p
    BY TaskMoved
  <2>2. TaskAgrees(e, s)
    BY DEF WorkerInv
  <2>3. p \notin Saved \cup {"saveCkpt"}
    BY DEF Unsaved, Rejected, Saved
  <2> QED
    BY <2>1, <2>2, <2>3 DEF TaskAgrees, Saved
<1>3. StoresAgree(s)'
  BY DEF StoreInv, StoresAgree, Concluded
<1>4. config.mode = "sequential" /\ ckpt'[s] # "none" =>
          \A r \in Specs : r < s => ckpt[r] # "none"
  BY DEF StoreInv
<1> QED
  BY <1>1, <1>2, <1>3, <1>4, TaskStepSolo

LEMMA SoloResume ==
  ASSUME TypeOK, OneAtATime, SoloInv, NEW e \in Execs, NEW s \in Specs,
         Resume(e, s)
  PROVE  SoloInv'
<1> USE DEF SoloInv
<1> DEFINE p == task'[e][s]
<1>1. /\ pc[e] = "resume" /\ pc'[e] \in {"run", "resume"}
      /\ \A d \in Execs \ {e} : pc'[d] = pc[d] /\ prior'[d] = prior[d]
      /\ UNCHANGED <<config, specEvents, ckpt, row>>
      /\ \A r \in Specs \ {s} : seen'[e][r] = seen[e][r]
  BY DEF Resume, Goto, TypeOK, events, stores
<1>2. /\ task[e][s] = "idle"
      /\ \A r \in Specs : r < s => task[e][r] # "idle"
      /\ \A r \in Specs : s < r => task[e][r] = "idle"
  BY <1>1 DEF Resume, WorkerInv, LookedUp
<1>3. PICK q : TaskGoto(e, s, q)
  BY DEF Resume
<1>4. /\ p = q
      /\ \A r \in Specs \ {s} : task'[e][r] = task[e][r]
  BY <1>3, TaskMoved
<1>5. /\ p = "loaded" => /\ ckpt[s] \in Outcomes
                         /\ seen'[e][s] = ckpt[s]
                         /\ prior'[e] = s
      /\ p # "loaded" => /\ ckpt[s] = "none"
                         /\ prior' = prior
                         /\ p = IF config.mode = "parallel" THEN "gate"
                                ELSE "pending"
      /\ p \in {"loaded", "gate", "pending"}
  <2>1. CASE Loadable(s)
    <3>1. TaskGoto(e, s, "loaded")
      BY <2>1 DEF Resume
    <3>2. p = "loaded"
      BY <3>1, TaskMoved
    <3>3. seen' = [seen EXCEPT ![e][s] = ckpt[s]] /\ prior' = [prior EXCEPT ![e] = s]
      BY <2>1 DEF Resume
    <3> QED
      BY <2>1, <3>2, <3>3 DEF Loadable, TypeOK
  <2>2. CASE ~Loadable(s)
    <3>1. TaskGoto(e, s, IF config.mode = "parallel" THEN "gate" ELSE "pending")
      BY <2>2 DEF Resume
    <3>2. p = IF config.mode = "parallel" THEN "gate" ELSE "pending"
      BY <3>1, TaskMoved
    <3>3. ckpt[s] = "none"
      BY <2>2 DEF Loadable, TypeOK
    <3> QED
      BY <2>2, <3>2, <3>3 DEF Resume
  <2> QED
    BY <2>1, <2>2
<1>6. LookedUp(e)'
  <2>1. \A r \in Specs : task'[e][r] \in
           {"idle", "loaded", IF config'.mode = "parallel" THEN "gate" ELSE "pending"}
    <3>1. LookedUp(e)
      BY <1>1 DEF WorkerInv
    <3> QED
      BY <1>1, <1>4, <1>5, <3>1 DEF LookedUp
  <2>2. ASSUME NEW r \in Specs, NEW t \in Specs, r < t, task'[e][r] = "idle"
        PROVE  task'[e][t] = "idle"
    <3>1. r # s
      BY <1>5, <2>2
    <3>2. task[e][r] = "idle" /\ ~(r < s)
      BY <1>2, <1>4, <2>2, <3>1
    <3>3. t # s /\ s < t
      BY <2>2, <3>1, <3>2 DEF Specs
    <3> QED
      BY <1>2, <1>4, <3>3
  <2> QED
    BY <2>1, <2>2 DEF LookedUp
<1>7. TaskAgrees(e, s)'
  BY <1>1, <1>5 DEF TaskAgrees, Unsaved, Saved
<1>8. InOrder(e)'
  <2> SUFFICES ASSUME config.mode = "sequential" PROVE InOrder(e)'
    BY <1>1 DEF InOrder
  <2>1. InOrder(e) /\ LookedUp(e) /\ \A r \in Specs : TaskAgrees(e, r)
    BY <1>1 DEF WorkerInv
  <2>2. CASE p = "loaded"
    <3>1. ASSUME NEW r \in Specs, r < s PROVE Done(e, r)'
      <4>1. ckpt[r] # "none"
        BY <1>5, <2>2, <3>1 DEF StoreInv, Outcomes
      <4>2. task[e][r] # "pending"
        BY <2>1, <4>1 DEF TaskAgrees, Unsaved
      <4>3. task[e][r] = "loaded"
        BY <1>2, <2>1, <3>1, <4>2 DEF LookedUp
      <4> QED
        BY <1>4, <3>1, <4>3 DEF Done, Specs
    <3>2. \A r \in Specs : s < r => task'[e][r] = "idle"
      BY <1>2, <1>4 DEF Specs
    <3>3. ASSUME NEW r \in Specs, NEW t \in Specs, r < t,
                 task'[e][t] \notin {"pending", "idle"}
          PROVE  Done(e, r)'
      <4>1. t <= s
        BY <3>2, <3>3 DEF Specs
      <4>2. r < s
        BY <3>3, <4>1 DEF Specs
      <4> QED
        BY <3>1, <4>2
    <3>4. \A r \in Specs : Done(e, r)' => r <= s
      BY <3>2 DEF Done, Specs
    <3>5. Done(e, s)' /\ prior'[e] = s
      BY <1>5, <2>2 DEF Done
    <3> QED
      BY <3>3, <3>4, <3>5 DEF InOrder
  <2>3. CASE p # "loaded"
    <3>1. q \notin {"settled", "loaded"} /\ q = "pending" /\ prior' = prior
      BY <1>4, <1>5, <2>3
    <3>2. ~Done(e, s)
      BY <1>2 DEF Done
    <3> QED
      BY <1>1, <1>3, <2>1, <3>1, <3>2, InOrderKept
  <2> QED
    BY <2>2, <2>3
<1>9. StoresAgree(s)'
  BY <1>1 DEF StoreInv, StoresAgree, Concluded
<1>10. config.mode = "sequential" /\ ckpt'[s] # "none" =>
           \A r \in Specs : r < s => ckpt[r] # "none"
  BY <1>1 DEF StoreInv
<1> HIDE DEF p
<1> QED
  BY <1>1, <1>3, <1>6, <1>7, <1>8, <1>9, <1>10, TaskStepSolo

LEMMA SoloNextSpecialist ==
  ASSUME TypeOK, OneAtATime, SoloInv, NEW e \in Execs, NEW s \in Specs,
         NextSpecialist(e, s),
         \A r \in Specs : pc[e] = "run" => task[e][r] # "idle"
  PROVE  SoloInv'
<1> USE DEF At
<1>1. /\ pc[e] = "run" /\ task[e][s] = "pending"
      /\ UNCHANGED <<config, specEvents, ckpt, row, prior, seen>>
  BY DEF NextSpecialist, events, stores
<1>2. CASE Goto(e, "finalize") /\ UNCHANGED task
  BY <1>1, <1>2, MoveSolo DEF Early, Positions
<1>3. CASE TaskGoto(e, s, "gate") /\ UNCHANGED pc
  <2>1. \A r \in Specs : r < s => Done(e, r)
    <3>1. \A r \in Specs : task[e][r] \in TaskStates
      BY DEF TypeOK
    <3> QED
      BY <1>1, <3>1
      DEF NextSpecialist, NoneWorking, Rejection, TaskStates, Done
  <2>2. "gate" \in (Unsaved \cup Rejected) \ {"saveCkpt"} /\ "pending" \in Unsaved
    BY DEF Unsaved
  <2>3. ~Done(e, s)
    BY <1>1 DEF Done
  <2> QED
    BY <1>1, <1>3, <2>1, <2>2, <2>3, QuietTaskStep
<1> QED
  BY <1>2, <1>3 DEF NextSpecialist, Decide

\* The step that writes the checkpoint.
LEMMA SoloSaveCkpt ==
  ASSUME TypeOK, OutcomeKnown, OneAtATime, SoloInv,
         NEW e \in Execs, NEW s \in Specs, SaveCkpt(e, s),
         \A r \in Specs : Done(e, r) => ckpt[r] # "none"
  PROVE  SoloInv'
<1> USE DEF SoloInv, At
<1>1. /\ pc[e] = "run" /\ task[e][s] = "saveCkpt" /\ ckpt[s] = "none"
      /\ row[s] = seen[e][s] /\ seen[e][s] \in Outcomes
      /\ StoresAgree(s) /\ InOrder(e)
  BY DEF SaveCkpt, OutcomeKnown, WorkerInv, StoreInv, TaskAgrees, Unsaved
<1>2. /\ ckpt'[s] = seen[e][s]
      /\ \A r \in Specs \ {s} : ckpt'[r] = ckpt[r]
      /\ TaskGoto(e, s, "announceCkpt")
      /\ UNCHANGED <<config, pc, prior, row, specEvents, seen>>
  BY <1>1 DEF SaveCkpt, CreateWins, TypeOK, events
<1>3. task'[e][s] = "announceCkpt"
  BY <1>2, TaskMoved
<1>4. InOrder(e)'
  <2>1. ~Done(e, s)
    BY <1>1 DEF Done
  <2> QED
    BY <1>1, <1>2, <2>1, InOrderKept
<1>5. TaskAgrees(e, s)' /\ StoresAgree(s)'
  BY <1>1, <1>2, <1>3
  DEF TaskAgrees, StoresAgree, Concluded, Unsaved, Saved, Outcomes
<1>6. config.mode = "sequential" =>
          \A r \in Specs : r < s => ckpt[r] # "none"
  BY <1>1 DEF InOrder
<1> QED
  BY <1>1, <1>2, <1>4, <1>5, <1>6, TaskStepSolo

LEMMA SoloAnnounceCkpt ==
  ASSUME TypeOK, OutcomeKnown, OneAtATime, SoloInv, NEW e \in Execs,
         NEW s \in Specs, AnnounceCkpt(e, s)
  PROVE  SoloInv'
<1> USE DEF SoloInv, At
<1>1. /\ pc[e] = "run" /\ task[e][s] = "announceCkpt"
      /\ TaskAgrees(e, s) /\ StoresAgree(s) /\ InOrder(e)
  BY DEF AnnounceCkpt, WorkerInv, StoreInv
<1>2. /\ TaskGoto(e, s, "announceOutcome") /\ PublishFor(s, "checkpointed")
      /\ UNCHANGED <<config, pc, prior, ckpt, row, seen>>
  BY DEF AnnounceCkpt, stores
<1>3. task'[e][s] = "announceOutcome"
  BY <1>2, TaskMoved
<1>4. /\ specEvents'[s]["checkpointed"] = specEvents[s]["checkpointed"] + 1
      /\ Concluded(s)' = Concluded(s)
      /\ \A r \in Specs \ {s} : specEvents'[r] = specEvents[r]
  BY <1>2, Published DEF SpecEventTypes, Outcomes, Concluded
<1>5. InOrder(e)'
  <2>1. ~Done(e, s)
    BY <1>1 DEF Done
  <2> QED
    BY <1>1, <1>2, <2>1, InOrderKept
<1>6. TaskAgrees(e, s)' /\ StoresAgree(s)'
  <2>1. ckpt[s] # "none"
    BY <1>1 DEF TaskAgrees, Saved, OutcomeKnown, Outcomes
  <2> QED
    BY <1>1, <1>2, <1>3, <1>4, <2>1
    DEF TaskAgrees, StoresAgree, Unsaved, Saved
<1>7. config.mode = "sequential" /\ ckpt'[s] # "none" =>
          \A r \in Specs : r < s => ckpt[r] # "none"
  BY <1>2 DEF StoreInv
<1> QED
  BY <1>1, <1>2, <1>4, <1>5, <1>6, <1>7, TaskStepSolo

LEMMA SoloAnnounceOutcome ==
  ASSUME TypeOK, OutcomeKnown, OneAtATime, SoloInv, NEW e \in Execs,
         NEW s \in Specs, AnnounceOutcome(e, s)
  PROVE  SoloInv'
<1> USE DEF SoloInv, At
<1>1. /\ pc[e] = "run" /\ task[e][s] = "announceOutcome"
      /\ TaskAgrees(e, s) /\ StoresAgree(s) /\ InOrder(e)
      /\ seen[e][s] \in {"completed", "failed"} /\ ckpt[s] = seen[e][s]
  BY DEF AnnounceOutcome, WorkerInv, StoreInv, OutcomeKnown, Outcomes,
         TaskAgrees, Saved
<1>2. /\ TaskGoto(e, s, "settled") /\ PublishFor(s, seen[e][s])
      /\ UNCHANGED <<config, pc, ckpt, row, seen>>
      /\ prior' = [prior EXCEPT ![e] =
                       IF config.mode = "sequential" THEN s ELSE prior[e]]
  BY DEF AnnounceOutcome, stores
<1>3. /\ task'[e][s] = "settled"
      /\ \A r \in Specs \ {s} : task'[e][r] = task[e][r]
  BY <1>2, TaskMoved
<1>4. /\ specEvents'[s]["checkpointed"] = specEvents[s]["checkpointed"]
      /\ Concluded(s)' = Concluded(s) + 1
      /\ \A r \in Specs \ {s} : specEvents'[r] = specEvents[r]
  <2>1. /\ seen[e][s] \in SpecEventTypes
        /\ {"checkpointed", "completed", "failed"} \subseteq SpecEventTypes
    BY <1>1 DEF SpecEventTypes, Outcomes
  <2>2. specEvents[s]["completed"] \in Nat /\ specEvents[s]["failed"] \in Nat
    BY <2>1 DEF TypeOK
  <2> QED
    BY <1>1, <1>2, <2>1, <2>2, Published DEF Concluded
<1>5. InOrder(e)'
  <2> SUFFICES ASSUME config.mode = "sequential" PROVE InOrder(e)'
    BY <1>2 DEF InOrder
  <2>1. prior'[e] = s
    BY <1>2 DEF TypeOK
  <2>2. \A r \in Specs : r < s => Done(e, r)
    BY <1>1 DEF InOrder
  <2>3. ASSUME NEW r \in Specs, s < r PROVE task[e][r] \in {"pending", "idle"}
    BY <1>1, <2>3 DEF InOrder, Done
  <2>4. \A r \in Specs : Done(e, r)' <=> Done(e, r) \/ r = s
    BY <1>3 DEF Done
  <2>5. ASSUME NEW q \in Specs, NEW r \in Specs, q < r,
               task'[e][r] \notin {"pending", "idle"}
        PROVE  Done(e, q)'
    <3>1. r <= s
      BY <1>3, <2>3, <2>5 DEF Specs
    <3> QED
      BY <2>2, <2>4, <2>5, <3>1 DEF Specs
  <2>6. \A r \in Specs : Done(e, r)' => r <= prior'[e]
    <3>1. ASSUME NEW r \in Specs, Done(e, r) PROVE ~(s < r)
      BY <2>3, <3>1 DEF Done
    <3> QED
      BY <2>1, <2>4, <3>1 DEF Specs
  <2> QED
    BY <1>2, <2>1, <2>4, <2>5, <2>6 DEF InOrder
<1>6. TaskAgrees(e, s)' /\ StoresAgree(s)'
  BY <1>1, <1>2, <1>3, <1>4 DEF TaskAgrees, StoresAgree, Unsaved, Saved
<1>7. config.mode = "sequential" /\ ckpt'[s] # "none" =>
          \A r \in Specs : r < s => ckpt[r] # "none"
  BY <1>2 DEF StoreInv
<1>8. \A d \in Execs \ {e} : pc'[d] = pc[d] /\ prior'[d] = prior[d]
  BY <1>2 DEF TypeOK
<1> QED
  BY <1>1, <1>2, <1>4, <1>5, <1>6, <1>7, <1>8, TaskStepSolo

LEMMA SoloSpecialistStep ==
  ASSUME TypeOK, OutcomeKnown, TasksJustified, OneAtATime, SoloInv,
         NEW e \in Execs, NEW s \in Specs,
         SpecialistStep(e, s) \/ Throw(e, s)
  PROVE  SoloInv'
<1>1. /\ \A r \in Specs : pc[e] = "run" => task[e][r] # "idle"
      /\ \A r \in Specs : Done(e, r) => ckpt[r] # "none"
  BY DEF TasksJustified, Done
<1>2. CASE Resume(e, s) \/ NextSpecialist(e, s)
  BY <1>1, <1>2, SoloResume, SoloNextSpecialist
<1>3. CASE SaveCkpt(e, s) \/ AnnounceCkpt(e, s) \/ AnnounceOutcome(e, s)
  BY <1>1, <1>3, SoloSaveCkpt, SoloAnnounceCkpt, SoloAnnounceOutcome
<1>4. CASE Announce(e, s) \/ AnnounceRetry(e, s)
  <2>1. PICK t \in {"started", "retry_scheduled"} : PublishFor(s, t)
    BY <1>4 DEF Announce, AnnounceRetry
  <2>2. /\ \A u \in {"checkpointed", "completed", "failed"} :
               specEvents'[s][u] = specEvents[s][u]
        /\ \A r \in Specs \ {s} : specEvents'[r] = specEvents[r]
    BY <2>1, Published DEF SpecEventTypes, Outcomes
  <2>3. /\ pc[e] = "run" /\ task[e][s] \in {"announce", "announceRetry"}
        /\ TaskGoto(e, s, "poll")
        /\ UNCHANGED <<config, pc, prior, ckpt, row, seen>>
    BY <1>4 DEF Announce, AnnounceRetry, At, stores
  <2>4. /\ "poll" \in (Unsaved \cup Rejected) \ {"saveCkpt"}
        /\ task[e][s] \in Unsaved /\ ~Done(e, s)
    BY <2>3 DEF Unsaved, Done
  <2> QED
    BY <2>2, <2>3, <2>4, QuietTaskStep
<1>5. CASE \/ Gate(e, s) \/ StartAttempt(e, s) \/ ProviderAnswer(e, s)
           \/ SaveRetry(e, s) \/ Throw(e, s)
  <2>1. /\ pc[e] = "run" /\ task[e][s] \in Working
        /\ Throw(e, s) \/ task[e][s] \in {"gate", "poll", "calling", "saveRetry"}
        /\ UNCHANGED <<config, pc, prior, ckpt, specEvents>>
    BY <1>5 DEF Gate, StartAttempt, PollTask, ProviderAnswer, SaveRetry, Throw,
                At, events, stores, Working
  <2>2. \A r \in Specs \ {s} : seen'[e][r] = seen[e][r] /\ row'[r] = row[r]
    BY <1>5 DEF Gate, StartAttempt, PollTask, ProviderAnswer, SaveRetry, Throw,
                stores, TypeOK
  <2>3. PICK p \in Rejected \cup {"announce", "calling", "saveRetry", "saveRow",
                                  "announceRetry"} : TaskGoto(e, s, p)
    BY <1>5 DEF Gate, StartAttempt, PollTask, ProviderAnswer, SaveRetry, Throw,
                Rejected
  <2>4. ~Done(e, s) /\ task[e][s] \notin {"pending", "idle"}
    BY <2>1 DEF Done, Working
  <2>5. p \in (Unsaved \cup Rejected) \ {"saveCkpt"}
    BY <2>3 DEF Unsaved, Rejected
  <2>6. p \in Unsaved => task[e][s] \in Unsaved
    <3>1. CASE Throw(e, s)
      <4>1. p = "threw"
        BY <2>3, <3>1, TaskMoved DEF Throw
      <4> QED
        BY <4>1 DEF Unsaved
    <3>2. CASE task[e][s] \in {"gate", "poll", "calling", "saveRetry"}
      BY <3>2 DEF Unsaved
    <3> QED
      BY <2>1, <3>1, <3>2
  <2>7. row' = row \/ ckpt[s] = "none"
    <3>1. CASE SaveRetry(e, s)
      BY <3>1 DEF SaveRetry, At, SoloInv, WorkerInv, TaskAgrees, Unsaved
    <3>2. CASE ~SaveRetry(e, s)
      BY <1>5, <3>2 DEF Gate, StartAttempt, PollTask, ProviderAnswer, Throw,
                        stores
    <3> QED
      BY <3>1, <3>2
  <2> QED
    BY <2>1, <2>2, <2>3, <2>4, <2>5, <2>6, <2>7, QuietTaskStep
<1>6. CASE SaveRow(e, s)
  <2>1. /\ pc[e] = "run" /\ task[e][s] = "saveRow" /\ ckpt[s] = "none"
        /\ InOrder(e) /\ StoresAgree(s)
    BY <1>6 DEF SaveRow, At, SoloInv, WorkerInv, StoreInv, TaskAgrees, Unsaved
  <2>2. /\ TaskGoto(e, s, "saveCkpt")
        /\ row'[s] = seen[e][s] /\ \A r \in Specs \ {s} : row'[r] = row[r]
        /\ UNCHANGED <<config, pc, prior, ckpt, specEvents, seen>>
    BY <1>6 DEF SaveRow, TypeOK, events
  <2>3. task'[e][s] = "saveCkpt"
    BY <2>2, TaskMoved
  <2>4. TaskAgrees(e, s)' /\ StoresAgree(s)'
    BY <2>1, <2>2, <2>3 DEF TaskAgrees, StoresAgree, Concluded, Saved
  <2>5. InOrder(e)'
    <3>1. ~Done(e, s)
      BY <2>1 DEF Done
    <3> QED
      BY <2>1, <2>2, <3>1, InOrderKept
  <2> QED
    BY <2>1, <2>2, <2>4, <2>5, TaskStepSolo
<1> QED
  BY <1>2, <1>3, <1>4, <1>5, <1>6 DEF SpecialistStep

\* While executions follow one another, what an execution knows of its
\* specialists is what the stores say of them, in the order of the mode.
THEOREM SoloInvariantHolds == Spec /\ []OneAtATime => []SoloInv
<1>1. IInv /\ EndInv /\ OneAtATime /\ SoloInv /\ [Next]_vars => SoloInv'
  <2> SUFFICES ASSUME IInv, EndInv, OneAtATime, SoloInv, [Next]_vars
               PROVE  SoloInv'
    OBVIOUS
  <2>1. TypeOK /\ OutcomeKnown /\ TasksJustified
    BY DEF IInv, EndInv
  <2>2. CASE UNCHANGED vars \/ RequestCancel
    <3>1. UNCHANGED <<config, pc, prior, task, seen, ckpt, row, specEvents>>
      BY <2>2 DEF vars, events, stores, tasks, RequestCancel, Publish
    <3> QED
      BY <3>1
      DEF SoloInv, WorkerInv, StoreInv, StoresAgree, Concluded, LookedUp,
          InOrder, Done, TaskAgrees
  <2>3. ASSUME NEW e \in Execs, RunStep(e) PROVE SoloInv'
    BY <2>1, <2>3, SoloRunStep
  <2>4. ASSUME NEW e \in Execs, NEW s \in Specs,
               SpecialistStep(e, s) \/ Throw(e, s)
        PROVE  SoloInv'
    BY <2>1, <2>4, SoloSpecialistStep
  <2>5. ASSUME NEW e \in Execs, Crash(e) PROVE SoloInv'
    BY <2>1, <2>5, RestartSolo DEF Crash, events, stores
  <2> QED
    BY <2>2, <2>3, <2>4, <2>5 DEF Next, Step, Disturbance, AtRest
<1> QED
  BY <1>1, InitSolo, InvariantHolds, EndInvariantHolds, PTL DEF Spec

\* A run that has only one execution, restarted as often as the scheduler
\* grants, is such a run: the theorems below hold of it without a hypothesis.
THEOREM OneExecutionAlone ==
  ASSUME \A d, e \in Execs : d = e
  PROVE  Spec => []OneAtATime
<1>1. OneAtATime
  BY DEF OneAtATime
<1> QED
  BY <1>1, PTL

\* Across any number of crashes and restarts a specialist is checkpointed and
\* concluded at most once in the event log.
THEOREM OneOutcomeEventHolds == Spec /\ []OneAtATime => []OneOutcomeEvent
<1>1. SoloInv => OneOutcomeEvent
  BY DEF SoloInv, StoreInv, StoresAgree, Concluded, OneOutcomeEvent
<1> QED
  BY <1>1, SoloInvariantHolds, PTL

\* A sequential specialist works on the durable outcome of its immediate
\* predecessor, whichever execution that outcome comes from.
THEOREM SequentialInputHolds == Spec /\ []OneAtATime => []SequentialInput
<1>1. IInv /\ EndInv /\ SoloInv => SequentialInput
  <2> SUFFICES ASSUME TypeOK, OutcomeKnown, TasksJustified, SoloInv,
                      NEW e \in Execs, NEW s \in Specs,
                      config.mode = "sequential", pc[e] = "run",
                      task[e][s] \in Working
               PROVE  /\ prior[e] = s - 1
                      /\ \A r \in Specs : r < s =>
                             ckpt[r] # "none" /\ seen[e][r] = ckpt[r]
    BY DEF IInv, EndInv, SequentialInput
  <2>1. InOrder(e) /\ \A r \in Specs : TaskAgrees(e, r)
    BY DEF SoloInv, WorkerInv
  <2>2. task[e][s] \notin {"pending", "idle"} /\ ~Done(e, s)
    BY DEF Working, Done
  <2>3. \A r \in Specs : r < s => Done(e, r)
    BY <2>1, <2>2 DEF InOrder
  <2>4. ASSUME NEW r \in Specs, s < r PROVE ~Done(e, r)
    BY <2>1, <2>2, <2>4 DEF InOrder, Done
  <2>5. prior[e] = s - 1
    <3>1. prior[e] \in 0..N /\ s \in 1..N
      BY DEF TypeOK, Specs
    <3>2. CASE prior[e] = 0
      <4>1. s - 1 \notin Specs
        BY <2>1, <2>3, <3>1, <3>2, NAssumption DEF InOrder, Specs
      <4> QED
        BY <3>1, <3>2, <4>1, NAssumption DEF Specs
    <3>3. CASE prior[e] # 0
      <4>1. prior[e] \in Specs /\ Done(e, prior[e])
        BY <2>1, <3>1, <3>3, NAssumption DEF InOrder, Specs
      <4>2. prior[e] <= s - 1
        BY <2>2, <2>4, <3>1, <4>1, NAssumption
      <4>3. s - 1 \in Specs
        BY <3>1, <4>1, <4>2, NAssumption DEF Specs
      <4>4. s - 1 <= prior[e]
        BY <2>1, <2>3, <3>1, <4>3, NAssumption DEF InOrder
      <4> QED
        BY <3>1, <4>2, <4>4, NAssumption
    <3> QED
      BY <3>2, <3>3
  <2>6. ASSUME NEW r \in Specs, r < s
        PROVE  ckpt[r] # "none" /\ seen[e][r] = ckpt[r]
    <3>1. task[e][r] \in Saved /\ seen[e][r] \in Outcomes
      BY <2>3, <2>6 DEF Done, Saved, OutcomeKnown
    <3> QED
      BY <2>1, <3>1 DEF TaskAgrees, Outcomes
  <2> QED
    BY <2>5, <2>6
<1> QED
  BY <1>1, InvariantHolds, EndInvariantHolds, SoloInvariantHolds, PTL

\* No specialist whose outcome is durable is sent to the provider again.
THEOREM NoCallAfterCheckpointHolds ==
  Spec /\ []OneAtATime => NoCallAfterCheckpoint
<1>1. TypeOK /\ SoloInv /\ [Next]_vars =>
          [\A e \in Execs, s \in Specs :
               CallBegins(e, s) => ckpt[s] = "none"]_vars
  <2> SUFFICES ASSUME TypeOK, SoloInv, [Next]_vars,
                      NEW e \in Execs, NEW s \in Specs, CallBegins(e, s)
               PROVE  ckpt[s] = "none"
    OBVIOUS
  <2>1. task[e][s] # "calling" /\ task'[e][s] = "calling"
    BY DEF CallBegins
  <2>2. At(e, s, "poll")
    <3>1. CASE UNCHANGED task
      BY <2>1, <3>1
    <3>2. ASSUME NEW d \in Execs, Restart(d) PROVE FALSE
      BY <2>1, <3>2 DEF Restart, TypeOK
    <3>3. ASSUME NEW d \in Execs, NEW r \in Specs, NEW p, TaskGoto(d, r, p)
          PROVE  d = e /\ r = s /\ p = "calling"
      BY <2>1, <3>3 DEF TaskGoto, TypeOK
    <3>4. ASSUME NEW d \in Execs, RunStep(d) PROVE UNCHANGED task \/ Restart(d)
      BY <3>4
      DEF RunStep, RejectStale, Enter, PreCancel, LoadInit, BeginRun, BeginLost,
          LostCancel, SaveInit, AnnounceStart, ApplyInjectionPolicy,
          AnnounceInjection, Join, Rethrow, Finalize, SaveDone, tasks
    <3>5. ASSUME NEW d \in Execs, NEW r \in Specs,
                 SpecialistStep(d, r) \/ Throw(d, r)
          PROVE  \/ UNCHANGED task
                 \/ StartAttempt(d, r) /\ TaskGoto(d, r, "calling")
                 \/ \E p : TaskGoto(d, r, p) /\ p # "calling"
      <4>1. CASE StartAttempt(d, r)
        BY <4>1 DEF StartAttempt, PollTask
      <4>2. CASE Resume(d, r) \/ NextSpecialist(d, r)
        BY <4>2 DEF Resume, NextSpecialist
      <4>3. CASE Gate(d, r) \/ ProviderAnswer(d, r)
        BY <4>3 DEF Gate, PollTask, ProviderAnswer
      <4>4. CASE \/ Announce(d, r) \/ SaveRetry(d, r) \/ AnnounceRetry(d, r)
                 \/ SaveRow(d, r) \/ SaveCkpt(d, r) \/ AnnounceCkpt(d, r)
                 \/ AnnounceOutcome(d, r) \/ Throw(d, r)
        BY <4>4
        DEF Announce, SaveRetry, AnnounceRetry, SaveRow, SaveCkpt,
            AnnounceCkpt, AnnounceOutcome, Throw
      <4> QED
        BY <3>5, <4>1, <4>2, <4>3, <4>4 DEF SpecialistStep
    <3>6. ASSUME NEW d \in Execs, NEW r \in Specs,
                 SpecialistStep(d, r) \/ Throw(d, r)
          PROVE  At(e, s, "poll")
      <4>1. CASE StartAttempt(d, r) /\ TaskGoto(d, r, "calling")
        BY <3>3, <4>1 DEF StartAttempt, PollTask
      <4> QED
        BY <3>1, <3>3, <3>5, <3>6, <4>1
    <3> QED
      BY <3>1, <3>2, <3>4, <3>6
      DEF Next, vars, tasks, Step, Disturbance, Crash, AtRest, RequestCancel
  <2> QED
    BY <2>2 DEF At, SoloInv, WorkerInv, TaskAgrees, Unsaved
<1> QED
  BY <1>1, TypeCorrect, SoloInvariantHolds, PTL DEF Spec, NoCallAfterCheckpoint

-----------------------------------------------------------------------------
(* What a run that executions end one after another reports.               *)

\* How an execution comes to a decision, or keeps it.
LEMMA DecisionReached ==
  ASSUME TypeOK, [Next]_vars, NEW e \in Execs, pc'[e] = "finalize"
  PROVE  \/ /\ pc[e] = "finalize"
            /\ verdict'[e] = verdict[e] /\ task'[e] = task[e]
         \/ verdict'[e] \in {"cancelled", "failed"}
         \/ /\ Joinable(e) /\ Rejection(e) = {} /\ task'[e] = task[e]
            /\ verdict'[e] = JoinedStatus(e)
<1> DEFINE Held == /\ pc'[e] = pc[e] /\ verdict'[e] = verdict[e]
                   /\ task'[e] = task[e]
<1>1. CASE UNCHANGED vars \/ RequestCancel \/ AtRest
  BY <1>1 DEF vars, tasks, RequestCancel, AtRest
<1>2. ASSUME NEW d \in Execs, Restart(d) PROVE Held
  BY <1>2 DEF Restart, Goto, TypeOK
<1>3. ASSUME NEW d \in Execs, NEW t, Decide(d, t), UNCHANGED task
      PROVE  Held \/ (d = e /\ verdict'[e] = t /\ task'[e] = task[e])
  <2>1. CASE d = e
    BY <1>3, <2>1 DEF Decide, TypeOK
  <2>2. CASE d # e
    BY <1>3, <2>2 DEF Decide, Goto, TypeOK
  <2> QED
    BY <2>1, <2>2
<1>4. ASSUME NEW d \in Execs, NEW q, q # "finalize", Goto(d, q),
             UNCHANGED <<verdict, task>>
      PROVE  Held
  BY <1>4 DEF Goto, TypeOK
<1>5. ASSUME NEW d \in Execs, NEW s \in Specs, NEW p, TaskGoto(d, s, p),
             UNCHANGED <<pc, verdict>>, pc[d] = "run"
      PROVE  Held
  BY <1>5 DEF TaskGoto, TypeOK
<1>6. ASSUME NEW d \in Execs, Join(d)
      PROVE  \/ Held
             \/ verdict'[e] \in {"cancelled", "failed"}
             \/ /\ Joinable(e) /\ Rejection(e) = {} /\ task'[e] = task[e]
                /\ verdict'[e] = JoinedStatus(e)
  <2>1. UNCHANGED task
    BY <1>6 DEF Join, tasks
  <2>2. CASE Rejection(d) = {} /\ Decide(d, JoinedStatus(d))
    <3>1. Held \/ (d = e /\ verdict'[e] = JoinedStatus(d) /\ task'[e] = task[e])
      <4>1. PICK t : t = JoinedStatus(d)
        OBVIOUS
      <4> QED
        BY <1>3, <2>1, <2>2, <4>1
    <3> QED
      BY <1>6, <2>2, <3>1 DEF Join
  <2>3. CASE Decide(d, "cancelled") \/ Decide(d, "failed")
    BY <1>3, <2>1, <2>3
  <2> QED
    BY <1>6, <2>2, <2>3 DEF Join
<1>7. ASSUME NEW d \in Execs, RunStep(d), ~Join(d)
      PROVE  Held \/ verdict'[e] \in {"cancelled", "failed"}
  <2>1. CASE Rethrow(d)
    BY <1>2, <2>1 DEF Rethrow
  <2>2. CASE PreCancel(d) \/ LostCancel(d) \/ ApplyInjectionPolicy(d)
    <3>1. UNCHANGED task
      BY <2>2 DEF PreCancel, LostCancel, ApplyInjectionPolicy, tasks
    <3>2. CASE Decide(d, "cancelled") \/ Decide(d, "failed")
      BY <1>3, <3>1, <3>2
    <3>3. CASE ~(Decide(d, "cancelled") \/ Decide(d, "failed"))
      BY <1>4, <2>2, <3>1, <3>3 DEF PreCancel, LostCancel, ApplyInjectionPolicy
    <3> QED
      BY <3>2, <3>3
  <2>3. CASE \/ RejectStale(d) \/ Enter(d) \/ LoadInit(d) \/ BeginRun(d)
             \/ BeginLost(d) \/ SaveInit(d) \/ AnnounceStart(d)
             \/ AnnounceInjection(d) \/ Finalize(d) \/ SaveDone(d)
    BY <1>4, <2>3
    DEF RejectStale, Enter, LoadInit, BeginRun, BeginLost, SaveInit,
        AnnounceStart, AnnounceInjection, Finalize, SaveDone, tasks
  <2> QED
    BY <1>7, <2>1, <2>2, <2>3 DEF RunStep
<1>8. ASSUME NEW d \in Execs, NEW s \in Specs,
             SpecialistStep(d, s) \/ Throw(d, s)
      PROVE  Held \/ verdict'[e] \in {"cancelled", "failed"}
  <2>1. CASE Resume(d, s)
    <3>1. d # e /\ UNCHANGED verdict
      BY <2>1 DEF Resume, Goto, TypeOK
    <3>2. pc'[e] = pc[e] /\ task'[e] = task[e]
      BY <2>1, <3>1 DEF Resume, Goto, TaskGoto, TypeOK
    <3> QED
      BY <3>1, <3>2
  <2>2. CASE NextSpecialist(d, s)
    <3>1. CASE (Decide(d, "cancelled") \/ Decide(d, "failed")) /\ UNCHANGED task
      BY <1>3, <3>1
    <3>2. CASE TaskGoto(d, s, "gate") /\ UNCHANGED <<pc, verdict>>
      BY <1>5, <2>2, <3>2 DEF NextSpecialist, At
    <3> QED
      BY <2>2, <3>1, <3>2 DEF NextSpecialist
  <2>3. CASE ~Resume(d, s) /\ ~NextSpecialist(d, s)
    <3>1. pc[d] = "run" /\ UNCHANGED <<pc, verdict>>
      BY <1>8, <2>3
      DEF SpecialistStep, Gate, PollTask, Announce, StartAttempt,
          ProviderAnswer, SaveRetry, AnnounceRetry, SaveRow, SaveCkpt,
          AnnounceCkpt, AnnounceOutcome, Throw, At
    <3>2. PICK p : TaskGoto(d, s, p)
      BY <1>8, <2>3
      DEF SpecialistStep, Gate, PollTask, Announce, StartAttempt,
          ProviderAnswer, SaveRetry, AnnounceRetry, SaveRow, SaveCkpt,
          AnnounceCkpt, AnnounceOutcome, Throw
    <3> QED
      BY <1>5, <3>1, <3>2
  <2> QED
    BY <2>1, <2>2, <2>3
<1>9. ASSUME NEW d \in Execs, Crash(d) PROVE Held
  BY <1>2, <1>9 DEF Crash
<1> DEFINE Joined == /\ Joinable(e) /\ Rejection(e) = {} /\ task'[e] = task[e]
                     /\ verdict'[e] = JoinedStatus(e)
<1>10. Held \/ verdict'[e] \in {"cancelled", "failed"} \/ Joined
  <2>1. ASSUME NEW d \in Execs, RunStep(d)
        PROVE  Held \/ verdict'[e] \in {"cancelled", "failed"} \/ Joined
    BY <1>6, <1>7, <2>1
  <2>2. ASSUME NEW d \in Execs, Step(d) \/ Disturbance(d)
        PROVE  Held \/ verdict'[e] \in {"cancelled", "failed"} \/ Joined
    <3> HIDE DEF Held, Joined
    <3>1. CASE \E s \in Specs : SpecialistStep(d, s) \/ Throw(d, s)
      BY <1>8, <3>1
    <3> QED
      BY <1>9, <2>1, <2>2, <3>1 DEF Step, Disturbance
  <2>3. CASE UNCHANGED vars \/ RequestCancel \/ AtRest
    BY <1>1, <2>3
  <2> HIDE DEF Held, Joined
  <2> QED
    BY <2>2, <2>3 DEF Next
<1> QED
  BY <1>10

\* What a run is ended with.
LEMMA EndStep ==
  ASSUME [Next]_vars
  PROVE  \/ UNCHANGED summary /\ (UNCHANGED status \/ ~IsTerminal(status'))
         \/ UNCHANGED summary /\ status' = "cancelled"
         \/ \E e \in Execs : e \in StaleExecs /\ EndRun("failed", {}, {})
         \/ \E e \in Execs :
                /\ pc[e] = "finalize"
                /\ EndRun(verdict[e], ReportedAs(e, "completed"),
                          ReportedAs(e, "failed"))
                /\ UNCHANGED <<ckpt, task, seen>>
<1>1. CASE UNCHANGED vars \/ RequestCancel \/ AtRest
  BY <1>1 DEF vars, runRow, RequestCancel, AtRest, StatusOnCancel, IsTerminal,
              TerminalStatuses
<1>2. ASSUME NEW e \in Execs, RejectStale(e) \/ Finalize(e)
      PROVE  \/ UNCHANGED <<status, summary>>
             \/ e \in StaleExecs /\ EndRun("failed", {}, {})
             \/ /\ pc[e] = "finalize"
                /\ EndRun(verdict[e], ReportedAs(e, "completed"),
                          ReportedAs(e, "failed"))
                /\ UNCHANGED <<ckpt, task, seen>>
  BY <1>2 DEF RejectStale, Finalize, stores, tasks
<1>3. ASSUME NEW e \in Execs, BeginRun(e)
      PROVE  UNCHANGED summary /\ (UNCHANGED status \/ ~IsTerminal(status'))
  BY <1>3 DEF BeginRun, IsTerminal, TerminalStatuses
<1>4. ASSUME NEW e \in Execs, RunStep(e), ~RejectStale(e), ~Finalize(e),
             ~BeginRun(e)
      PROVE  UNCHANGED <<status, summary>>
  BY <1>4
  DEF RunStep, Enter, PreCancel, LoadInit, BeginLost, LostCancel, SaveInit,
      AnnounceStart, ApplyInjectionPolicy, AnnounceInjection, Join, Rethrow,
      SaveDone, runRow
<1>5. ASSUME NEW e \in Execs, NEW s \in Specs,
             SpecialistStep(e, s) \/ Throw(e, s)
      PROVE  UNCHANGED <<status, summary>>
  BY <1>5
  DEF SpecialistStep, Resume, NextSpecialist, Gate, PollTask, Announce,
      StartAttempt, ProviderAnswer, SaveRetry, AnnounceRetry, SaveRow,
      SaveCkpt, AnnounceCkpt, AnnounceOutcome, Throw, runRow
<1>6. ASSUME NEW e \in Execs, Crash(e) PROVE UNCHANGED <<status, summary>>
  BY <1>6 DEF Crash, runRow
<1>7. ASSUME NEW e \in Execs, RunStep(e)
      PROVE  \/ UNCHANGED summary /\ (UNCHANGED status \/ ~IsTerminal(status'))
             \/ e \in StaleExecs /\ EndRun("failed", {}, {})
             \/ /\ pc[e] = "finalize"
                /\ EndRun(verdict[e], ReportedAs(e, "completed"),
                          ReportedAs(e, "failed"))
                /\ UNCHANGED <<ckpt, task, seen>>
  BY <1>2, <1>3, <1>4, <1>7
<1> QED
  BY <1>1, <1>5, <1>6, <1>7 DEF Next, Step, Disturbance

LEMMA AllDoneKept ==
  ASSUME TypeOK, TasksJustified, SummaryInv, [Next]_vars, NEW e \in Execs,
         pc'[e] = "finalize", verdict'[e] \in {"completed", "partial"},
         NEW s \in Specs
  PROVE  Done(e, s)'
<1>1. CASE pc[e] = "finalize" /\ verdict'[e] = verdict[e] /\ task'[e] = task[e]
  BY <1>1 DEF SummaryInv, Done
<1>2. CASE /\ Joinable(e) /\ Rejection(e) = {} /\ task'[e] = task[e]
           /\ verdict'[e] = JoinedStatus(e)
  <2>1. ~ChainStopped(e)
    <3>1. ASSUME ChainStopped(e) PROVE ReportedAs(e, "failed") # {}
      BY <1>2, <3>1 DEF ChainStopped, ReportedAs, Reported
    <3> QED
      BY <1>2, <3>1 DEF JoinedStatus, ChainStopped
  <2>2. task[e][s] \in TaskStates
    BY DEF TypeOK
  <2>3. task[e][s] \notin Working \cup Rejected \cup {"pending", "idle"}
    BY <1>2, <2>1 DEF Joinable, NoneWorking, Rejection, TasksJustified
  <2> QED
    BY <1>2, <2>2, <2>3 DEF TaskStates, Done
<1>3. CASE verdict'[e] \in {"cancelled", "failed"}
  BY <1>3
<1> QED
  BY <1>1, <1>2, <1>3, DecisionReached

\* What the run reports is what was made durable: the summary lists the
\* checkpointed outcomes, all of them when the run ran to its join, and the
\* result rows show the same.
THEOREM SummaryMatchesCheckpointsHolds ==
  Spec /\ []OneAtATime => []SummaryMatchesCheckpoints
<1>1. Init => SummaryInv
  BY DEF Init, SummaryInv, SummaryMatchesCheckpoints
<1>2. /\ IInv /\ EndInv /\ SoloInv /\ SoloInv' /\ SummaryInv /\ [Next]_vars
      /\ [\A s \in Specs : ckpt[s] # "none" => ckpt'[s] = ckpt[s]]_vars
      => SummaryInv'
  <2> SUFFICES ASSUME IInv, EndInv, SoloInv, SoloInv', SummaryInv, [Next]_vars,
                      \A s \in Specs : ckpt[s] # "none" => ckpt'[s] = ckpt[s]
               PROVE  SummaryInv'
    BY DEF vars, stores
  <2>1. TypeOK /\ OutcomeKnown /\ TasksJustified
    BY DEF IInv, EndInv
  <2>2. \A s \in Specs : ckpt'[s] # "none" => row'[s] = ckpt'[s]
    BY DEF SoloInv, StoreInv, StoresAgree
  <2>3. SummaryMatchesCheckpoints'
    <3>1. CASE /\ UNCHANGED summary
               /\ UNCHANGED status \/ status' \notin {"completed", "partial"}
      BY <2>2, <3>1 DEF SummaryInv, SummaryMatchesCheckpoints
    <3>2. CASE EndRun("failed", {}, {})
      BY <2>2, <3>2 DEF EndRun, SummaryMatchesCheckpoints
    <3>3. ASSUME NEW e \in Execs, pc[e] = "finalize",
                 EndRun(verdict[e], ReportedAs(e, "completed"),
                        ReportedAs(e, "failed")),
                 UNCHANGED <<ckpt, task, seen>>
          PROVE  SummaryMatchesCheckpoints'
      <4>1. ASSUME NEW s \in Reported(e) PROVE ckpt'[s] = seen[e][s]
        <5>1. s \in Specs /\ task[e][s] \in Saved
          BY DEF Reported, Saved
        <5> QED
          BY <3>3, <5>1 DEF SoloInv, WorkerInv, TaskAgrees
      <4>2. /\ status' = verdict[e]
            /\ summary'.completed = ReportedAs(e, "completed")
            /\ summary'.failed = ReportedAs(e, "failed")
        BY <3>3 DEF EndRun
      <4>3. ASSUME status' \in {"completed", "partial"}
            PROVE  ReportedAs(e, "completed") \cup ReportedAs(e, "failed") = Specs
        <5>1. \A s \in Specs : Done(e, s)
          BY <3>3, <4>2, <4>3 DEF SummaryInv
        <5>2. \A s \in Specs : s \in Reported(e) /\ seen[e][s] \in Outcomes
          BY <2>1, <5>1 DEF Reported, Rejection, Rejected, Done, OutcomeKnown
        <5>3. Reported(e) \subseteq Specs
          BY DEF Reported
        <5> QED
          BY <5>2, <5>3 DEF ReportedAs, Outcomes
      <4> QED
        BY <2>2, <4>1, <4>2, <4>3 DEF SummaryMatchesCheckpoints, ReportedAs
    <3>4. \/ UNCHANGED summary /\ (UNCHANGED status \/ ~IsTerminal(status'))
          \/ UNCHANGED summary /\ status' = "cancelled"
          \/ \E e \in Execs : e \in StaleExecs /\ EndRun("failed", {}, {})
          \/ \E e \in Execs :
                 /\ pc[e] = "finalize"
                 /\ EndRun(verdict[e], ReportedAs(e, "completed"),
                           ReportedAs(e, "failed"))
                 /\ UNCHANGED <<ckpt, task, seen>>
      BY EndStep
    <3> QED
      BY <3>1, <3>2, <3>3, <3>4 DEF IsTerminal, TerminalStatuses
  <2> QED
    BY <2>1, <2>3, AllDoneKept DEF SummaryInv
<1>3. SummaryInv => SummaryMatchesCheckpoints
  BY DEF SummaryInv
<1> QED
  BY <1>1, <1>2, <1>3, InvariantHolds, EndInvariantHolds, SoloInvariantHolds,
     CheckpointsAreFinalHolds, PTL DEF Spec, CheckpointsAreFinal

-----------------------------------------------------------------------------
(* After the end.                                                          *)

\* Where an execution stands when it can still write for a run.
Writing == Positions \ {"idle", "preCancel", "loadInit", "begin", "beginLost",
                        "finalize", "saveDone", "ended", "exhausted"}

\* A step of an execution that is not writing leaves the log and the results
\* alone, unless it ends the run.
LEMMA QuietStep ==
  ASSUME TypeOK, QueuedUntouched, QuietInv, StaleExecs = {}, [Next]_vars,
         IsTerminal(status)
  PROVE  /\ UNCHANGED <<status, events, ckpt, row>>
         /\ "init" \in marks <=> "init" \in marks'
         /\ \A e \in Execs : pc'[e] \in {"preCancel", "loadInit"} =>
                pc[e] \in {"preCancel", "loadInit"}
         /\ \A e \in Execs : pc'[e] = pc[e] \/ pc'[e] \notin Writing
<1>1. /\ status # "queued"
      /\ \A e \in Execs : pc[e] \in Positions \ Writing
      /\ \A e \in Execs : pc[e] \in {"preCancel", "loadInit"} =>
             "init" \notin marks
  BY DEF QuietInv, Writing, IsTerminal, TerminalStatuses, Positions
<1>2. CASE UNCHANGED vars \/ AtRest
  BY <1>2 DEF AtRest, vars, runRow, events, stores
<1>3. ~RequestCancel
  BY DEF RequestCancel
<1>4. ASSUME NEW e \in Execs, Step(e) \/ Disturbance(e)
      PROVE  /\ UNCHANGED <<status, events, ckpt, row>>
             /\ "init" \in marks <=> "init" \in marks'
             /\ \E q \in Positions \ Writing :
                    Goto(e, q) /\ q \notin {"preCancel"}
                    /\ (q = "loadInit" => pc[e] = "preCancel")
  <2>1. pc[e] \in {"idle", "preCancel", "loadInit", "begin", "beginLost",
                   "finalize", "saveDone", "ended", "exhausted"}
    BY <1>1 DEF Writing, Positions
  <2>2. CASE Crash(e) \/ Rethrow(e)
    BY <2>2 DEF Crash, Rethrow, Restart, Writing, Positions, runRow, stores
  <2>3. CASE Enter(e) \/ PreCancel(e) \/ LoadInit(e)
    BY <1>1, <2>3 DEF Enter, PreCancel, LoadInit, Decide, Writing, Positions,
                      runRow, stores
  <2>4. CASE BeginRun(e) \/ BeginLost(e)
    BY <1>1, <2>4 DEF BeginRun, BeginLost, Writing, Positions, runRow, stores
  <2>5. CASE Finalize(e) \/ SaveDone(e)
    BY <2>5 DEF Finalize, EndRun, SaveDone, SaveMark, Writing, Positions,
                runRow, stores
  <2> QED
    BY <1>4, <2>1, <2>2, <2>3, <2>4, <2>5
    DEF Step, RunStep, Disturbance, SpecialistStep, RejectStale, LostCancel,
        SaveInit, AnnounceStart, ApplyInjectionPolicy, AnnounceInjection, Join,
        Joinable, Throw, Resume, NextSpecialist, Gate, PollTask, Announce,
        StartAttempt, ProviderAnswer, SaveRetry, AnnounceRetry, SaveRow,
        SaveCkpt, AnnounceCkpt, AnnounceOutcome, At
<1> QED
  BY <1>2, <1>3, <1>4 DEF Next, Goto, TypeOK

\* Who writes the status of a run, when no key is stale.
LEMMA StatusWriters ==
  ASSUME StaleExecs = {}, [Next]_vars, status' # status
  PROVE  RequestCancel \/ \E e \in Execs : BeginRun(e) \/ Finalize(e)
<1>1. CASE UNCHANGED vars \/ AtRest
  BY <1>1 DEF AtRest, vars, runRow
<1>2. ASSUME NEW e \in Execs, RunStep(e) PROVE BeginRun(e) \/ Finalize(e)
  BY <1>2
  DEF RunStep, RejectStale, Enter, PreCancel, LoadInit, BeginLost, LostCancel,
      SaveInit, AnnounceStart, ApplyInjectionPolicy, AnnounceInjection, Join,
      Rethrow, SaveDone, runRow
<1>3. ASSUME NEW e \in Execs, NEW s \in Specs,
             SpecialistStep(e, s) \/ Throw(e, s)
      PROVE  FALSE
  BY <1>3
  DEF SpecialistStep, Resume, NextSpecialist, Gate, PollTask, Announce,
      StartAttempt, ProviderAnswer, SaveRetry, AnnounceRetry, SaveRow,
      SaveCkpt, AnnounceCkpt, AnnounceOutcome, Throw, runRow
<1>4. ASSUME NEW e \in Execs, Crash(e) PROVE FALSE
  BY <1>4 DEF Crash, runRow
<1> QED
  BY <1>1, <1>2, <1>3, <1>4 DEF Next, Step, Disturbance

\* A run that is still queued has seen no more than the first lines.
LEMMA StillQueued ==
  ASSUME TypeOK, DecisionSound, QueuedUntouched, QuietInv, StaleExecs = {}, [Next]_vars,
         status' = "queued"
  PROVE  /\ "init" \notin marks'
         /\ \A e \in Execs : pc'[e] \in
                {"idle", "preCancel", "loadInit", "begin", "exhausted"}
<1> DEFINE Held == /\ "init" \notin marks'
                   /\ \A e \in Execs : pc'[e] \in
                         {"idle", "preCancel", "loadInit", "begin", "exhausted"}
<1>1. CASE UNCHANGED vars \/ AtRest
  BY <1>1 DEF AtRest, vars, runRow, stores, QuietInv
<1>2. ~RequestCancel
  BY DEF RequestCancel, StatusOnCancel
<1>3. ASSUME status = "queued", NEW e \in Execs, Step(e) \/ Disturbance(e)
      PROVE  Held
  <2>1. /\ ~cancelRequested /\ "init" \notin marks /\ ~IsTerminal(status)
        /\ \A d \in Execs : pc[d] \in
               {"idle", "preCancel", "loadInit", "begin", "exhausted"}
    BY <1>3 DEF QuietInv, QueuedUntouched, IsTerminal, TerminalStatuses
  <2>2. /\ marks' = marks
        /\ \E q \in {"idle", "preCancel", "loadInit", "begin", "exhausted"} :
               Goto(e, q)
    <3>1. CASE Crash(e)
      BY <3>1 DEF Crash, Restart, stores
    <3>2. CASE Enter(e) \/ PreCancel(e) \/ LoadInit(e)
      BY <2>1, <3>2 DEF Enter, PreCancel, LoadInit, stores
    <3>3. ~BeginRun(e)
      BY <1>3 DEF BeginRun
    <3> QED
      BY <1>3, <2>1, <3>1, <3>2, <3>3
      DEF Step, RunStep, Disturbance, SpecialistStep, RejectStale, BeginLost,
          LostCancel, SaveInit, AnnounceStart, ApplyInjectionPolicy,
          AnnounceInjection, Join, Rethrow, Joinable, Finalize, SaveDone, Throw,
          Resume, NextSpecialist, Gate, PollTask, Announce, StartAttempt,
          ProviderAnswer, SaveRetry, AnnounceRetry, SaveRow, SaveCkpt,
          AnnounceCkpt, AnnounceOutcome, At
  <2> QED
    BY <2>1, <2>2 DEF Goto, TypeOK
<1>4. ASSUME NEW e \in Execs, Finalize(e) PROVE status' = status
  <2>1. CASE EndRun(verdict[e], ReportedAs(e, "completed"),
                    ReportedAs(e, "failed"))
    <3>1. verdict[e] \in TerminalStatuses /\ status' = verdict[e]
      BY <1>4, <2>1 DEF Finalize, DecisionSound, EndRun
    <3> QED
      BY <3>1 DEF TerminalStatuses
  <2> QED
    BY <1>4, <2>1 DEF Finalize
<1>5. status = "queued"
  <2>1. ~\E e \in Execs : BeginRun(e)
    BY DEF BeginRun
  <2> QED
    BY <1>2, <1>4, <2>1, StatusWriters
<1> QED
  BY <1>1, <1>2, <1>3, <1>5 DEF Next

\* Once the run has ended nothing more is written for it: no specialist is left
\* running behind the terminal event, whatever crashed before.
THEOREM QuietAfterEndHolds ==
  ASSUME StaleExecs = {}
  PROVE  Spec /\ []OneAtATime => QuietAfterEnd
<1>1. Init => QuietInv
  BY DEF Init, QuietInv, IsTerminal, TerminalStatuses
<1>2. IInv /\ OneAtATime /\ QuietInv /\ [Next]_vars => QuietInv'
  <2> SUFFICES ASSUME IInv, OneAtATime, QuietInv, [Next]_vars PROVE QuietInv'
    OBVIOUS
  <2>1. TypeOK /\ DecisionSound /\ QueuedUntouched
    BY DEF IInv
  <2>2. CASE status' = "queued"
    BY <2>1, <2>2, StillQueued DEF QuietInv, IsTerminal, TerminalStatuses
  <2>3. CASE IsTerminal(status)
    <3>1. /\ status' = status
          /\ "init" \in marks <=> "init" \in marks'
          /\ \A e \in Execs : pc'[e] \in {"preCancel", "loadInit"} =>
                 pc[e] \in {"preCancel", "loadInit"}
          /\ \A e \in Execs : pc'[e] = pc[e] \/ pc'[e] \notin Writing
      BY <2>1, <2>3, QuietStep
    <3>2. \A e \in Execs : pc'[e] \in Positions
      BY <2>1, TypeStep DEF IInv, TypeOK
    <3> QED
      BY <2>3, <3>1, <3>2
      DEF QuietInv, Writing, Positions, IsTerminal, TerminalStatuses
  <2>4. CASE ~IsTerminal(status) /\ IsTerminal(status')
    <3>1. status' # status /\ status' # "queued"
      BY <2>4 DEF IsTerminal, TerminalStatuses
    <3>2. CASE RequestCancel
      BY <2>4, <3>1, <3>2
      DEF RequestCancel, StatusOnCancel, QuietInv, IsTerminal, TerminalStatuses,
          stores
    <3>3. ASSUME NEW e \in Execs, BeginRun(e) PROVE FALSE
      BY <2>4, <3>1, <3>3 DEF BeginRun, IsTerminal, TerminalStatuses
    <3>4. ASSUME NEW e \in Execs, Finalize(e) PROVE QuietInv'
      <4>1. /\ \A d \in Execs \ {e} : pc[d] \in {"idle", "ended", "exhausted"}
            /\ pc' = [pc EXCEPT ![e] = "saveDone"]
            /\ pc \in [Execs -> Positions]
        BY <2>1, <2>4, <3>4, OthersRest DEF Finalize, Goto, TypeOK
      <4>2. \A d \in Execs : pc'[d] \in {"idle", "saveDone", "ended", "exhausted"}
        BY <4>1
      <4> QED
        BY <3>1, <4>2 DEF QuietInv
    <3> QED
      BY <3>1, <3>2, <3>3, <3>4, StatusWriters
  <2>5. CASE ~IsTerminal(status') /\ status' # "queued"
    BY <2>5 DEF QuietInv
  <2> QED
    BY <2>2, <2>3, <2>4, <2>5
<1>3. IInv /\ QuietInv /\ [Next]_vars =>
          [IsTerminal(status) => UNCHANGED <<events, ckpt, row>>]_vars
  BY QuietStep DEF IInv
<1> QED
  BY <1>1, <1>2, <1>3, InvariantHolds, PTL DEF Spec, QuietAfterEnd

=============================================================================

------------------------ MODULE MutationCommandProofs ------------------------
(***************************************************************************)
(* Theorems about MutationCommand, for every set of requests under one key *)
(* and any number of crashes.                                              *)
(***************************************************************************)
EXTENDS MutationCommand, TLAPS

Positions == Working \cup {"new", "done"}

\* The request that inserted the command, until the result is stored or the
\* command is failed.  A replay comes to "load" only with a stored result.
OwnerAt(p) ==
    \/ p \in {"auditQueued", "regrant", "recheck", "call", "persist",
              "markDenied", "markFailed"}
    \/ p = "load" /\ ~stored

\* The request that closed the command, until it has audited that.
AuditorAt(p) == p \in {"auditCompleted", "auditDenied", "auditFailed"}

\* Audit records of how the command was closed.
Closings == audits["completed"] + audits["failed"] + audits["denied"]

\* What can be said of the shared state while some request is at p.
OwnerClaim(p) ==
    /\ OwnerAt(p) => command = "queued" /\ ~stored
    /\ OwnerAt(p) /\ p \notin {"persist", "markFailed"} => effects = 0
    /\ p = "persist" => effects = 1
    /\ p = "auditQueued" => audits["queued"] = 0

CloserClaim(p) ==
    /\ p = "complete" => stored
    /\ p = "auditCompleted" => command = "completed"
    /\ p \in {"auditDenied", "auditFailed"} => command = "failed"
    /\ AuditorAt(p) => Closings = 0

LapsedClaim(p) ==
    lapsed => /\ p \notin {"call", "persist", "markFailed"}
              /\ p = "recheck" => ~approved

Claim(p) == OwnerClaim(p) /\ CloserClaim(p) /\ LapsedClaim(p)

Claims == \A r \in Requests : Claim(pc[r])

\* At most one request owns the command, and at most one audits its closing.
Alone ==
    \A r, s \in Requests :
        \/ OwnerAt(pc[r]) /\ OwnerAt(pc[s])
        \/ AuditorAt(pc[r]) /\ AuditorAt(pc[s])
        => r = s

\* The audit trail agrees with the command.
TrailInv ==
    /\ audits["queued"] <= 1
    /\ Closings <= 1
    /\ command = "none" => audits["queued"] = 0
    /\ command \in {"none", "queued"} => Closings = 0
    /\ audits["completed"] = 1 => command = "completed"
    /\ audits["failed"] + audits["denied"] = 1 => command = "failed"

\* The stored result and the status agree with the effect.
EffectInv ==
    /\ effects \in 0..1
    /\ command = "none" => effects = 0
    /\ stored => effects = 1 /\ command \in {"queued", "completed"}
    /\ command = "completed" => stored
    /\ lapsed => effects = 0 /\ ~(granted /\ approved)

RepliesInv == \A r \in Requests : reply[r] = "completed" => command = "completed"

CommandInv ==
    /\ TypeOK
    /\ Claims
    /\ Alone
    /\ TrailInv
    /\ EffectInv
    /\ RepliesInv

-----------------------------------------------------------------------------
LEMMA InitCommandInv == Init => CommandInv
<1> SUFFICES ASSUME Init PROVE CommandInv
  OBVIOUS
<1>1. TypeOK
  <2>1. audits \in [AuditOutcomes -> Nat] /\ crashes \in 0..MaxCrashes
    BY CrashAssumption DEF Init
  <2>2. /\ granted \in BOOLEAN /\ approved \in BOOLEAN
        /\ stored \in BOOLEAN /\ lapsed \in BOOLEAN
    BY DEF Init
  <2>3. /\ command \in Statuses /\ effects \in Nat
        /\ pc \in [Requests -> Working \cup {"new", "done"}]
        /\ reply \in [Requests -> Statuses \cup {"error"}]
    BY DEF Init, Statuses
  <2> QED
    BY <2>1, <2>2, <2>3 DEF TypeOK
<1>2. Claims
  BY DEF Init, Claims, Claim, OwnerClaim, CloserClaim, LapsedClaim, OwnerAt,
     AuditorAt
<1>3. Alone /\ RepliesInv
  BY DEF Init, Alone, RepliesInv, OwnerAt, AuditorAt
<1>4. TrailInv
  <2>1. audits["queued"] = 0 /\ audits["completed"] = 0
        /\ audits["failed"] = 0 /\ audits["denied"] = 0
    BY DEF Init, AuditOutcomes
  <2> QED
    BY <2>1 DEF Init, TrailInv, Closings
<1>5. EffectInv
  BY DEF Init, EffectInv
<1> QED
  BY <1>1, <1>2, <1>3, <1>4, <1>5 DEF CommandInv

\* The positions after r moved.
LEMMA Moved ==
  ASSUME TypeOK, NEW r \in Requests, NEW p \in Positions, Goto(r, p)
  PROVE  /\ pc' \in [Requests -> Positions]
         /\ pc'[r] = p
         /\ \A s \in Requests \ {r} : pc'[s] = pc[s]
BY DEF TypeOK, Goto, Positions

\* A step that moves one request and changes nothing the claims are about.
LEMMA MoveCommandInv ==
  ASSUME CommandInv, NEW r \in Requests, NEW p \in Positions, Goto(r, p),
         UNCHANGED <<command, stored, audits, granted, approved, lapsed, effects>>,
         \/ reply' = reply
         \/ reply' = [reply EXCEPT ![r] = command]
         \/ reply' = [reply EXCEPT ![r] = "error"],
         crashes' \in 0..MaxCrashes,
         Claim(p),
         OwnerAt(p) => OwnerAt(pc[r]),
         AuditorAt(p) => AuditorAt(pc[r])
  PROVE  CommandInv'
<1> USE DEF CommandInv
<1>1. /\ pc' \in [Requests -> Positions]
      /\ pc'[r] = p
      /\ \A s \in Requests \ {r} : pc'[s] = pc[s]
  BY Moved
<1>2. reply' \in [Requests -> Statuses \cup {"error"}]
      /\ \A s \in Requests : reply'[s] \in {reply[s], command, "error"}
  BY DEF TypeOK
<1>3. TypeOK'
  BY <1>1, <1>2 DEF TypeOK, Positions
<1>4. Claims'
  <2> SUFFICES ASSUME NEW s \in Requests PROVE Claim(pc[s])'
    BY DEF Claims
  <2>1. Claim(pc'[s])
    <3>1. CASE s = r
      BY <1>1, <3>1
    <3>2. CASE s # r
      BY <1>1, <3>2 DEF Claims
    <3> QED
      BY <3>1, <3>2
  <2> QED
    BY <2>1 DEF Claim, OwnerClaim, CloserClaim, LapsedClaim, OwnerAt,
       AuditorAt, Closings
<1>5. Alone'
  <2> SUFFICES ASSUME NEW s \in Requests, NEW t \in Requests,
                      \/ OwnerAt(pc'[s]) /\ OwnerAt(pc'[t])
                      \/ AuditorAt(pc'[s]) /\ AuditorAt(pc'[t])
               PROVE  s = t
    BY DEF Alone, OwnerAt, AuditorAt
  <2>1. \/ OwnerAt(pc[s]) /\ OwnerAt(pc[t])
        \/ AuditorAt(pc[s]) /\ AuditorAt(pc[t])
    BY <1>1
  <2> QED
    BY <2>1 DEF Alone
<1>6. TrailInv' /\ EffectInv'
  BY DEF TrailInv, EffectInv, Closings
<1>7. RepliesInv'
  BY <1>2 DEF RepliesInv
<1> QED
  BY <1>3, <1>4, <1>5, <1>6, <1>7

\* Positions that claim nothing.
LEMMA QuietClaims ==
  ASSUME NEW p \in {"new", "find", "grant", "check", "insert", "refuse",
                    "answer", "done"}
  PROVE  Claim(p) /\ ~OwnerAt(p) /\ ~AuditorAt(p) /\ p \in Positions
BY DEF Claim, OwnerClaim, CloserClaim, LapsedClaim, OwnerAt, AuditorAt,
   Positions, Working, Worker

\* The steps that only read, and those that end a request.
LEMMA ReceiveCommandInv ==
  ASSUME CommandInv, NEW r \in Requests, Receive(r)
  PROVE  CommandInv'
<1>1. Goto(r, "find") /\ crashes' \in 0..MaxCrashes
  BY DEF Receive, At, CommandInv, TypeOK
<1> QED
  BY <1>1, QuietClaims, MoveCommandInv DEF Receive, gates

LEMMA FindCommandInv ==
  ASSUME CommandInv, NEW r \in Requests, Find(r)
  PROVE  CommandInv'
<1>1. UNCHANGED <<command, stored, audits, granted, approved, lapsed, effects>>
      /\ crashes' \in 0..MaxCrashes
  BY DEF Find, gates, CommandInv, TypeOK
<1>2. CASE Goto(r, "grant") /\ UNCHANGED reply
  BY <1>1, <1>2, QuietClaims, MoveCommandInv
<1>3. CASE Resumable /\ Goto(r, "load") /\ UNCHANGED reply
  <2>1. Claim("load") /\ ~OwnerAt("load") /\ ~AuditorAt("load")
        /\ "load" \in Positions
    BY <1>3 DEF Resumable, Claim, OwnerClaim, CloserClaim, LapsedClaim,
       OwnerAt, AuditorAt, Positions, Working, Worker
  <2> QED
    BY <1>1, <1>3, <2>1, MoveCommandInv
<1>4. CASE Answer(r, command)
  BY <1>1, <1>4, QuietClaims, MoveCommandInv DEF Answer
<1> QED
  BY <1>2, <1>3, <1>4 DEF Find

\* A denied grant or approval, as found or as the query failed.
LEMMA DeniedMove ==
  ASSUME CommandInv, NEW r \in Requests, pc[r] \in {"regrant", "recheck"},
         Goto(r, "markDenied"), UNCHANGED reply, crashes' \in 0..MaxCrashes,
         UNCHANGED <<command, stored, audits, granted, approved, lapsed, effects>>
  PROVE  CommandInv'
<1>1. Claim(pc[r])
  BY DEF CommandInv, Claims
<1>2. Claim("markDenied") /\ OwnerAt(pc[r]) /\ ~AuditorAt("markDenied")
      /\ "markDenied" \in Positions
  BY <1>1 DEF Claim, OwnerClaim, CloserClaim, LapsedClaim, OwnerAt, AuditorAt,
     Positions, Working, Worker
<1> QED
  BY <1>2, MoveCommandInv

LEMMA CheckGrantCommandInv ==
  ASSUME CommandInv, NEW r \in Requests, CheckGrant(r)
  PROVE  CommandInv'
<1>1. UNCHANGED <<command, stored, audits, granted, approved, lapsed, effects,
                  reply>>
      /\ crashes' \in 0..MaxCrashes
  BY DEF CheckGrant, gates, CommandInv, TypeOK
<1>2. CASE Goto(r, "check") \/ Goto(r, "refuse")
  BY <1>1, <1>2, QuietClaims, MoveCommandInv
<1>3. CASE pc[r] = "regrant" /\ granted /\ Goto(r, "recheck")
  <2>1. Claim(pc[r]) /\ (lapsed => ~approved)
    BY <1>3 DEF CommandInv, Claims, EffectInv
  <2>2. Claim("recheck") /\ OwnerAt(pc[r]) /\ ~AuditorAt("recheck")
        /\ "recheck" \in Positions
    BY <1>3, <2>1 DEF Claim, OwnerClaim, CloserClaim, LapsedClaim, OwnerAt,
       AuditorAt, Positions, Working, Worker
  <2> QED
    BY <1>1, <1>3, <2>2, MoveCommandInv
<1>4. CASE pc[r] = "regrant" /\ Goto(r, "markDenied")
  BY <1>1, <1>4, DeniedMove
<1> QED
  BY <1>2, <1>3, <1>4 DEF CheckGrant, At

LEMMA CheckApprovalCommandInv ==
  ASSUME CommandInv, NEW r \in Requests, CheckApproval(r)
  PROVE  CommandInv'
<1>1. UNCHANGED <<command, stored, audits, granted, approved, lapsed, effects,
                  reply>>
      /\ crashes' \in 0..MaxCrashes
  BY DEF CheckApproval, gates, CommandInv, TypeOK
<1>2. CASE Goto(r, "insert") \/ Goto(r, "refuse")
  BY <1>1, <1>2, QuietClaims, MoveCommandInv
<1>3. CASE pc[r] = "recheck" /\ approved /\ Goto(r, "call")
  <2>1. Claim(pc[r])
    BY DEF CommandInv, Claims
  <2>2. Claim("call") /\ OwnerAt(pc[r]) /\ ~AuditorAt("call")
        /\ "call" \in Positions
    BY <1>3, <2>1 DEF Claim, OwnerClaim, CloserClaim, LapsedClaim, OwnerAt,
       AuditorAt, Positions, Working, Worker
  <2> QED
    BY <1>1, <1>3, <2>2, MoveCommandInv
<1>4. CASE pc[r] = "recheck" /\ Goto(r, "markDenied")
  BY <1>1, <1>4, DeniedMove
<1> QED
  BY <1>2, <1>3, <1>4 DEF CheckApproval, StillApproved, At

\* A query of a check that throws is a denial.
LEMMA CheckThrowsCommandInv ==
  ASSUME CommandInv, NEW r \in Requests, CheckThrows(r)
  PROVE  CommandInv'
<1>1. UNCHANGED <<command, stored, audits, granted, approved, lapsed, effects,
                  reply>>
      /\ crashes' \in 0..MaxCrashes
  BY CrashAssumption DEF CheckThrows, gates, CommandInv, TypeOK
<1>2. CASE Goto(r, "refuse")
  BY <1>1, <1>2, QuietClaims, MoveCommandInv
<1>3. CASE pc[r] \in {"regrant", "recheck"} /\ Goto(r, "markDenied")
  BY <1>1, <1>3, DeniedMove
<1> QED
  BY <1>2, <1>3 DEF CheckThrows

\* Refuse, Respond, Crash and AuditLost end the request or its worker.
LEMMA EndCommandInv ==
  ASSUME CommandInv, NEW r \in Requests,
         Refuse(r) \/ Respond(r) \/ Crash(r) \/ AuditLost(r)
  PROVE  CommandInv'
<1>1. UNCHANGED <<command, stored, audits, granted, approved, lapsed, effects>>
      /\ crashes' \in 0..MaxCrashes
  BY CrashAssumption
  DEF Refuse, Respond, Crash, AuditLost, gates, CommandInv, TypeOK
<1>2. \/ Goto(r, "done") /\ reply' = [reply EXCEPT ![r] = command]
      \/ Goto(r, "done") /\ reply' = [reply EXCEPT ![r] = "error"]
      \/ Goto(r, "answer") /\ reply' = reply
  BY DEF Refuse, Respond, Crash, AuditLost, Answer, At
<1> QED
  BY <1>1, <1>2, QuietClaims, MoveCommandInv

-----------------------------------------------------------------------------
(* The steps that change what the claims are about.                        *)

LEMMA ChangeGrantCommandInv ==
  ASSUME CommandInv, ChangeGrant
  PROVE  CommandInv'
<1> USE DEF CommandInv
<1>1. /\ granted' = ~granted
      /\ lapsed' = (lapsed /\ ~granted')
      /\ UNCHANGED <<command, stored, audits, approved, effects, pc, reply, crashes>>
  BY DEF ChangeGrant
<1>2. granted' \in BOOLEAN /\ lapsed' \in BOOLEAN
  BY <1>1
<1>3. TypeOK'
  BY <1>1, <1>2 DEF TypeOK
<1>4. lapsed' => lapsed /\ ~granted'
  BY <1>1
<1>5. Claims'
  BY <1>1, <1>4 DEF Claims, Claim, OwnerClaim, CloserClaim, LapsedClaim,
     OwnerAt, AuditorAt, Closings
<1>6. Alone' /\ TrailInv' /\ RepliesInv'
  BY <1>1 DEF Alone, TrailInv, RepliesInv, OwnerAt, AuditorAt, Closings
<1>7. EffectInv'
  BY <1>1, <1>4 DEF EffectInv
<1> QED
  BY <1>3, <1>5, <1>6, <1>7

LEMMA ApprovalExpiresCommandInv ==
  ASSUME CommandInv, ApprovalExpires
  PROVE  CommandInv'
<1> USE DEF CommandInv, ApprovalExpires
<1>1. TypeOK'
  BY DEF TypeOK
<1>2. Claims'
  BY DEF Claims, Claim, OwnerClaim, CloserClaim, LapsedClaim, OwnerAt,
     AuditorAt, Closings
<1>3. Alone' /\ TrailInv' /\ RepliesInv'
  BY DEF Alone, TrailInv, RepliesInv, OwnerAt, AuditorAt, Closings
<1>4. EffectInv'
  BY DEF EffectInv
<1> QED
  BY <1>1, <1>2, <1>3, <1>4

LEMMA InsertCommandInv ==
  ASSUME CommandInv, NEW r \in Requests, Insert(r)
  PROVE  CommandInv'
<1> USE DEF CommandInv
<1>1. UNCHANGED <<stored, audits, granted, approved, lapsed, effects>>
      /\ crashes' \in 0..MaxCrashes
  BY DEF Insert, gates, TypeOK
<1>2. CASE command # "none"
  <2>1. Answer(r, command) /\ command' = command
    BY <1>2 DEF Insert
  <2> QED
    BY <1>1, <2>1, QuietClaims, MoveCommandInv DEF Answer
<1>3. CASE command = "none"
  <2>1. Goto(r, "auditQueued") /\ reply' = reply /\ command' = "queued"
        /\ crashes' = crashes
    BY <1>3 DEF Insert
  <2>2. /\ pc' \in [Requests -> Positions]
        /\ pc'[r] = "auditQueued"
        /\ \A s \in Requests \ {r} : pc'[s] = pc[s]
    BY <2>1, Moved DEF Positions, Working, Worker
  <2>3. ~stored /\ effects = 0 /\ audits["queued"] = 0 /\ Closings = 0
    BY <1>3 DEF EffectInv, TrailInv
  <2>4. \A s \in Requests : ~OwnerAt(pc[s])
    BY <1>3 DEF Claims, Claim, OwnerClaim
  <2>5. \A s \in Requests :
            pc[s] \notin {"complete", "auditCompleted", "auditDenied",
                          "auditFailed"}
    BY <1>3, <2>3 DEF Claims, Claim, CloserClaim
  <2>6. TypeOK'
    BY <1>1, <2>1, <2>2 DEF TypeOK, Positions, Statuses
  <2>7. Claims'
    <3> SUFFICES ASSUME NEW s \in Requests PROVE Claim(pc[s])'
      BY DEF Claims
    <3>1. CASE s = r
      BY <1>1, <2>1, <2>2, <2>3, <3>1 DEF Claim, OwnerClaim, CloserClaim,
         LapsedClaim, OwnerAt, AuditorAt, Closings
    <3>2. CASE s # r
      <4>1. pc'[s] = pc[s] /\ ~OwnerAt(pc[s]) /\ LapsedClaim(pc[s])
        BY <2>2, <2>4, <3>2 DEF Claims, Claim
      <4> QED
        BY <1>1, <2>5, <4>1 DEF Claim, OwnerClaim, CloserClaim, LapsedClaim,
           OwnerAt, AuditorAt
    <3> QED
      BY <3>1, <3>2
  <2>8. Alone'
    <3>1. \A s \in Requests : OwnerAt(pc[s])' => s = r
      BY <1>1, <2>2, <2>4 DEF OwnerAt
    <3>2. \A s \in Requests : ~AuditorAt(pc[s])'
      BY <2>2, <2>5 DEF AuditorAt
    <3> QED
      BY <3>1, <3>2 DEF Alone
  <2>9. TrailInv' /\ EffectInv'
    BY <1>1, <1>3, <2>1, <2>3 DEF TrailInv, EffectInv, Closings
  <2>10. RepliesInv'
    BY <1>3, <2>1 DEF RepliesInv
  <2> QED
    BY <2>6, <2>7, <2>8, <2>9, <2>10
<1> QED
  BY <1>2, <1>3

LEMMA LoadCommandInv ==
  ASSUME CommandInv, NEW r \in Requests, Load(r)
  PROVE  CommandInv'
<1> USE DEF CommandInv
<1>1. UNCHANGED <<command, stored, audits, granted, approved, effects, reply>>
      /\ crashes' \in 0..MaxCrashes
  BY DEF Load, TypeOK
<1>2. CASE Goto(r, "answer") /\ UNCHANGED lapsed
  BY <1>1, <1>2, QuietClaims, MoveCommandInv
<1>3. CASE stored /\ Goto(r, "complete") /\ UNCHANGED lapsed
  <2>1. Claim("complete") /\ ~OwnerAt("complete") /\ ~AuditorAt("complete")
        /\ "complete" \in Positions
    BY <1>3 DEF Claim, OwnerClaim, CloserClaim, LapsedClaim, OwnerAt,
       AuditorAt, Positions, Working, Worker
  <2> QED
    BY <1>1, <1>3, <2>1, MoveCommandInv
<1>4. CASE pc[r] = "load" /\ ~stored /\ Goto(r, "regrant")
           /\ lapsed' = ~(granted /\ approved)
  <2>1. /\ pc' \in [Requests -> Positions]
        /\ pc'[r] = "regrant"
        /\ \A s \in Requests \ {r} : pc'[s] = pc[s]
    BY <1>4, Moved DEF Positions, Working, Worker
  <2>2. OwnerAt(pc[r]) /\ effects = 0 /\ command = "queued"
    BY <1>4 DEF OwnerAt, Claims, Claim, OwnerClaim
  <2>3. lapsed' \in BOOLEAN /\ (lapsed' => ~(granted /\ approved))
    BY <1>4
  <2>4. TypeOK'
    BY <1>1, <2>1, <2>3 DEF TypeOK, Positions
  <2>5. \A s \in Requests \ {r} : ~OwnerAt(pc[s])
    BY <2>2 DEF Alone
  <2>6. Claims'
    <3> SUFFICES ASSUME NEW s \in Requests PROVE Claim(pc[s])'
      BY DEF Claims
    <3>1. CASE s = r
      BY <1>1, <1>4, <2>1, <2>2, <3>1 DEF Claim, OwnerClaim, CloserClaim,
         LapsedClaim, OwnerAt, AuditorAt
    <3>2. CASE s # r
      <4>1. pc'[s] = pc[s] /\ ~OwnerAt(pc[s]) /\ Claim(pc[s])
        BY <2>1, <2>5, <3>2 DEF Claims
      <4> QED
        BY <1>1, <4>1 DEF Claim, OwnerClaim, CloserClaim, LapsedClaim,
           OwnerAt, AuditorAt, Closings
    <3> QED
      BY <3>1, <3>2
  <2>7. Alone'
    <3>1. \A s \in Requests : OwnerAt(pc[s])' => s = r
      BY <1>1, <2>1, <2>5 DEF OwnerAt
    <3>2. \A s \in Requests : AuditorAt(pc[s])' => AuditorAt(pc[s])
      BY <2>1 DEF AuditorAt
    <3> QED
      BY <3>1, <3>2 DEF Alone
  <2>8. TrailInv' /\ RepliesInv'
    BY <1>1 DEF TrailInv, RepliesInv, Closings
  <2>9. EffectInv'
    BY <1>1, <2>2, <2>3 DEF EffectInv
  <2> QED
    BY <2>4, <2>6, <2>7, <2>8, <2>9
<1> QED
  BY <1>2, <1>3, <1>4 DEF Load

\* The owner of a queued command moves on; what the others claim does not
\* depend on what it changes.
LEMMA OwnerStep ==
  ASSUME CommandInv, NEW r \in Requests, OwnerAt(pc[r])
  PROVE  /\ command = "queued" /\ ~stored /\ Closings = 0
         /\ \A s \in Requests \ {r} : ~OwnerAt(pc[s])
         /\ \A s \in Requests :
                ~AuditorAt(pc[s]) /\ pc[s] # "complete"
<1> USE DEF CommandInv
<1>1. command = "queued" /\ ~stored
  BY DEF Claims, Claim, OwnerClaim
<1>2. Closings = 0
  BY <1>1 DEF TrailInv
<1>3. \A s \in Requests \ {r} : ~OwnerAt(pc[s])
  BY DEF Alone
<1>4. \A s \in Requests : ~AuditorAt(pc[s]) /\ pc[s] # "complete"
  BY <1>1 DEF Claims, Claim, CloserClaim, AuditorAt
<1> QED
  BY <1>1, <1>2, <1>3, <1>4

LEMMA AuditQueuedCommandInv ==
  ASSUME CommandInv, NEW r \in Requests, AuditQueued(r)
  PROVE  CommandInv'
<1> USE DEF CommandInv
<1>1. /\ UNCHANGED <<command, stored, granted, approved, lapsed, effects, reply,
                     crashes>>
      /\ pc[r] = "auditQueued" /\ Goto(r, "load")
  BY DEF AuditQueued, At, gates
<1>2. /\ pc' \in [Requests -> Positions]
      /\ pc'[r] = "load"
      /\ \A s \in Requests \ {r} : pc'[s] = pc[s]
  BY <1>1, Moved DEF Positions, Working, Worker
<1>3. OwnerAt(pc[r]) /\ audits["queued"] = 0 /\ effects = 0
  BY <1>1 DEF OwnerAt, Claims, Claim, OwnerClaim
<1>4. /\ command = "queued" /\ ~stored /\ Closings = 0
      /\ \A s \in Requests \ {r} : ~OwnerAt(pc[s])
      /\ \A s \in Requests : ~AuditorAt(pc[s]) /\ pc[s] # "complete"
  BY <1>3, OwnerStep
<1>5. /\ audits' \in [AuditOutcomes -> Nat]
      /\ audits'["queued"] = 1
      /\ audits'["completed"] = audits["completed"]
      /\ audits'["failed"] = audits["failed"]
      /\ audits'["denied"] = audits["denied"]
  BY <1>3 DEF AuditQueued, Record, TypeOK, AuditOutcomes
<1>6. TypeOK'
  BY <1>1, <1>2, <1>5 DEF TypeOK, Positions
<1>7. Claims'
  <2> SUFFICES ASSUME NEW s \in Requests PROVE Claim(pc[s])'
    BY DEF Claims
  <2>1. CASE s = r
    BY <1>1, <1>2, <1>3, <1>4, <2>1 DEF Claim, OwnerClaim, CloserClaim,
       LapsedClaim, OwnerAt, AuditorAt
  <2>2. CASE s # r
    <3>1. /\ pc'[s] = pc[s] /\ ~OwnerAt(pc[s]) /\ ~AuditorAt(pc[s])
          /\ Claim(pc[s])
      BY <1>2, <1>4, <2>2 DEF Claims
    <3> QED
      BY <1>1, <3>1 DEF Claim, OwnerClaim, CloserClaim, LapsedClaim,
         OwnerAt, AuditorAt
  <2> QED
    BY <2>1, <2>2
<1>8. Alone'
  <2>1. \A s \in Requests : OwnerAt(pc[s])' => s = r
    BY <1>1, <1>2, <1>4 DEF OwnerAt
  <2>2. \A s \in Requests : ~AuditorAt(pc[s])'
    BY <1>2, <1>4 DEF AuditorAt
  <2> QED
    BY <2>1, <2>2 DEF Alone
<1>9. TrailInv'
  BY <1>1, <1>4, <1>5 DEF TrailInv, Closings
<1>10. EffectInv' /\ RepliesInv'
  BY <1>1 DEF EffectInv, RepliesInv
<1> QED
  BY <1>6, <1>7, <1>8, <1>9, <1>10

LEMMA CallCommandInv ==
  ASSUME CommandInv, NEW r \in Requests, Call(r)
  PROVE  CommandInv'
<1> USE DEF CommandInv
<1>1. /\ UNCHANGED <<command, stored, audits, granted, approved, lapsed, reply,
                     crashes>>
      /\ pc[r] = "call"
      /\ \/ Goto(r, "persist") /\ effects' = effects + 1
         \/ Goto(r, "markFailed") /\ effects' \in {effects, effects + 1}
  BY DEF Call, At, gates
<1>2. /\ pc' \in [Requests -> Positions]
      /\ pc'[r] \in {"persist", "markFailed"}
      /\ \A s \in Requests \ {r} : pc'[s] = pc[s]
  BY <1>1, Moved DEF Positions, Working, Worker
<1>3. OwnerAt(pc[r]) /\ effects = 0 /\ ~lapsed
  BY <1>1 DEF OwnerAt, Claims, Claim, OwnerClaim, LapsedClaim
<1>4. /\ command = "queued" /\ ~stored /\ Closings = 0
      /\ \A s \in Requests \ {r} : ~OwnerAt(pc[s])
      /\ \A s \in Requests : ~AuditorAt(pc[s]) /\ pc[s] # "complete"
  BY <1>3, OwnerStep
<1>5. effects' \in 0..1 /\ (pc'[r] = "persist" => effects' = 1)
  <2>1. CASE Goto(r, "persist") /\ effects' = effects + 1
    BY <1>3, <2>1
  <2>2. CASE Goto(r, "markFailed") /\ effects' \in {effects, effects + 1}
    <3>1. pc'[r] = "markFailed"
      BY <2>2, Moved DEF Positions, Working, Worker
    <3> QED
      BY <1>3, <2>2, <3>1
  <2> QED
    BY <1>1, <2>1, <2>2
<1>6. TypeOK'
  BY <1>1, <1>2, <1>5 DEF TypeOK, Positions
<1>7. Claims'
  <2> SUFFICES ASSUME NEW s \in Requests PROVE Claim(pc[s])'
    BY DEF Claims
  <2>1. CASE s = r
    BY <1>1, <1>2, <1>3, <1>4, <1>5, <2>1 DEF Claim, OwnerClaim, CloserClaim,
       LapsedClaim, OwnerAt, AuditorAt
  <2>2. CASE s # r
    <3>1. /\ pc'[s] = pc[s] /\ ~OwnerAt(pc[s]) /\ ~AuditorAt(pc[s])
          /\ Claim(pc[s])
      BY <1>2, <1>4, <2>2 DEF Claims
    <3> QED
      BY <1>1, <3>1 DEF Claim, OwnerClaim, CloserClaim, LapsedClaim,
         OwnerAt, AuditorAt
  <2> QED
    BY <2>1, <2>2
<1>8. Alone'
  <2>1. \A s \in Requests : OwnerAt(pc[s])' => s = r
    BY <1>1, <1>2, <1>4 DEF OwnerAt
  <2>2. \A s \in Requests : ~AuditorAt(pc[s])'
    BY <1>2, <1>4 DEF AuditorAt
  <2> QED
    BY <2>1, <2>2 DEF Alone
<1>9. TrailInv' /\ RepliesInv'
  BY <1>1 DEF TrailInv, RepliesInv, Closings
<1>10. EffectInv'
  BY <1>1, <1>3, <1>4, <1>5 DEF EffectInv
<1> QED
  BY <1>6, <1>7, <1>8, <1>9, <1>10

LEMMA PersistCommandInv ==
  ASSUME CommandInv, NEW r \in Requests, Persist(r)
  PROVE  CommandInv'
<1> USE DEF CommandInv
<1>1. /\ UNCHANGED <<command, audits, granted, approved, lapsed, effects, reply,
                     crashes>>
      /\ pc[r] = "persist" /\ Goto(r, "complete") /\ stored' = TRUE
  BY DEF Persist, At, gates
<1>2. /\ pc' \in [Requests -> Positions]
      /\ pc'[r] = "complete"
      /\ \A s \in Requests \ {r} : pc'[s] = pc[s]
  BY <1>1, Moved DEF Positions, Working, Worker
<1>3. OwnerAt(pc[r]) /\ effects = 1
  BY <1>1 DEF OwnerAt, Claims, Claim, OwnerClaim
<1>4. /\ command = "queued" /\ ~stored /\ Closings = 0
      /\ \A s \in Requests \ {r} : ~OwnerAt(pc[s])
      /\ \A s \in Requests : ~AuditorAt(pc[s]) /\ pc[s] # "complete"
  BY <1>3, OwnerStep
<1>5. TypeOK'
  BY <1>1, <1>2 DEF TypeOK, Positions
<1>6. \A s \in Requests : ~OwnerAt(pc[s])' /\ ~AuditorAt(pc[s])'
  <2> SUFFICES ASSUME NEW s \in Requests
               PROVE  ~OwnerAt(pc[s])' /\ ~AuditorAt(pc[s])'
    OBVIOUS
  <2>1. CASE s = r
    BY <1>1, <1>2, <2>1 DEF OwnerAt, AuditorAt
  <2>2. CASE s # r
    <3>1. pc'[s] = pc[s] /\ ~OwnerAt(pc[s]) /\ ~AuditorAt(pc[s])
      BY <1>2, <1>4, <2>2
    <3> QED
      BY <1>1, <3>1 DEF OwnerAt, AuditorAt
  <2> QED
    BY <2>1, <2>2
<1>7. Claims'
  <2> SUFFICES ASSUME NEW s \in Requests PROVE Claim(pc[s])'
    BY DEF Claims
  <2>1. ~OwnerAt(pc[s])' /\ ~AuditorAt(pc[s])'
    BY <1>6
  <2> QED
    BY <1>1, <2>1 DEF Claim, OwnerClaim, CloserClaim, LapsedClaim, OwnerAt,
       AuditorAt
<1>8. Alone'
  BY <1>6 DEF Alone
<1>9. TrailInv' /\ RepliesInv'
  BY <1>1 DEF TrailInv, RepliesInv, Closings
<1>10. EffectInv'
  BY <1>1, <1>3, <1>4 DEF EffectInv
<1> QED
  BY <1>5, <1>7, <1>8, <1>9, <1>10

\* A queued command is closed: nobody owns it any more, and only the closer
\* has to audit it.
LEMMA CloseCommandInv ==
  ASSUME CommandInv, NEW r \in Requests,
         NEW status \in {"completed", "failed"},
         NEW p \in {"auditCompleted", "auditDenied", "auditFailed"},
         command = "queued", Goto(r, p), command' = status,
         UNCHANGED <<stored, audits, granted, approved, effects, lapsed, reply,
                     crashes>>,
         status = "completed" => stored /\ p = "auditCompleted",
         status = "failed" => ~stored /\ p # "auditCompleted",
         \A s \in Requests \ {r} : ~OwnerAt(pc[s])
  PROVE  CommandInv'
<1> USE DEF CommandInv
<1>1. /\ pc' \in [Requests -> Positions]
      /\ pc'[r] = p
      /\ \A s \in Requests \ {r} : pc'[s] = pc[s]
  BY Moved DEF Positions, Working, Worker
<1>2. \A s \in Requests :
          /\ ~AuditorAt(pc[s])
          /\ pc[s] = "complete" => stored
  BY DEF Claims, Claim, CloserClaim, AuditorAt
<1>3. Closings = 0
  BY DEF TrailInv
<1>4. TypeOK'
  BY <1>1 DEF TypeOK, Positions, Statuses
<1>5. Claims'
  <2> SUFFICES ASSUME NEW s \in Requests PROVE Claim(pc[s])'
    BY DEF Claims
  <2>1. CASE s = r
    BY <1>1, <1>3, <2>1 DEF Claim, OwnerClaim, CloserClaim, LapsedClaim,
       OwnerAt, AuditorAt, Closings
  <2>2. CASE s # r
    <3>1. /\ pc'[s] = pc[s] /\ ~OwnerAt(pc[s]) /\ ~AuditorAt(pc[s])
          /\ Claim(pc[s])
      BY <1>1, <1>2, <2>2 DEF Claims
    <3> QED
      BY <3>1 DEF Claim, OwnerClaim, CloserClaim, LapsedClaim, OwnerAt,
         AuditorAt
  <2> QED
    BY <2>1, <2>2
<1>6. Alone'
  <2>1. \A s \in Requests : ~OwnerAt(pc[s])'
    <3> SUFFICES ASSUME NEW s \in Requests PROVE ~OwnerAt(pc[s])'
      OBVIOUS
    <3>1. CASE s = r
      BY <1>1, <3>1 DEF OwnerAt
    <3>2. CASE s # r
      <4>1. pc'[s] = pc[s] /\ ~OwnerAt(pc[s])
        BY <1>1, <3>2
      <4> QED
        BY <4>1 DEF OwnerAt
    <3> QED
      BY <3>1, <3>2
  <2>2. \A s \in Requests : AuditorAt(pc[s])' => s = r
    BY <1>1, <1>2 DEF AuditorAt
  <2> QED
    BY <2>1, <2>2 DEF Alone
<1>7. TrailInv'
  <2>1. audits["completed"] \in Nat /\ audits["failed"] \in Nat
        /\ audits["denied"] \in Nat
    BY DEF TypeOK, AuditOutcomes
  <2>2. audits["completed"] = 0 /\ audits["failed"] + audits["denied"] = 0
    BY <1>3, <2>1 DEF Closings
  <2> QED
    BY <1>3, <2>2 DEF TrailInv, Closings
<1>8. EffectInv'
  BY DEF EffectInv
<1>9. RepliesInv'
  BY DEF RepliesInv
<1> QED
  BY <1>4, <1>5, <1>6, <1>7, <1>8, <1>9

LEMMA MarkCompletedCommandInv ==
  ASSUME CommandInv, NEW r \in Requests, MarkCompleted(r)
  PROVE  CommandInv'
<1> USE DEF CommandInv
<1>1. pc[r] = "complete" /\ stored /\ stored' = stored
  <2>1. pc[r] = "complete" /\ stored' = TRUE
    BY DEF MarkCompleted, At
  <2>2. stored
    BY <2>1 DEF Claims, Claim, CloserClaim
  <2>3. stored = TRUE
    BY <2>2 DEF TypeOK
  <2> QED
    BY <2>1, <2>2, <2>3
<1>2. UNCHANGED <<audits, granted, approved, effects, lapsed, reply, crashes>>
      /\ crashes' \in 0..MaxCrashes
  BY DEF MarkCompleted, gates, TypeOK
<1>3. \A s \in Requests : ~OwnerAt(pc[s])
  BY <1>1 DEF Claims, Claim, OwnerClaim
<1>4. CASE StillQueued
  <2>1. command = "queued" /\ command' = "completed" /\ Goto(r, "auditCompleted")
    BY <1>4 DEF MarkCompleted, StillQueued, At
  <2> QED
    BY <1>1, <1>2, <1>3, <2>1, CloseCommandInv
<1>5. CASE ~StillQueued
  <2>1. command' = command /\ Goto(r, "answer")
    BY <1>5 DEF MarkCompleted, At
  <2> QED
    BY <1>1, <1>2, <2>1, QuietClaims, MoveCommandInv
<1> QED
  BY <1>4, <1>5

LEMMA MarkFailedCommandInv ==
  ASSUME CommandInv, NEW r \in Requests, MarkFailed(r)
  PROVE  CommandInv'
<1>1. pc[r] \in {"markDenied", "markFailed"} /\ command' = "failed"
      /\ (Goto(r, "auditDenied") \/ Goto(r, "auditFailed"))
      /\ UNCHANGED <<stored, audits, granted, approved, effects, lapsed, reply,
                     crashes>>
  BY DEF MarkFailed, At, gates, FailedStatus
<1>2. OwnerAt(pc[r])
  BY <1>1 DEF OwnerAt
<1>3. /\ command = "queued" /\ ~stored
      /\ \A s \in Requests \ {r} : ~OwnerAt(pc[s])
  BY <1>2, OwnerStep
<1> QED
  BY <1>1, <1>3, CloseCommandInv

\* The closing is audited, by the only request that has to.
LEMMA AuditClosingCommandInv ==
  ASSUME CommandInv, NEW r \in Requests, AuditCompleted(r) \/ AuditFailure(r)
  PROVE  CommandInv'
<1> USE DEF CommandInv
<1>1. /\ UNCHANGED <<command, stored, granted, approved, lapsed, effects, crashes>>
      /\ AuditorAt(pc[r])
      /\ Goto(r, "answer") \/ Goto(r, "done")
      /\ reply' = reply \/ reply' = [reply EXCEPT ![r] = "error"]
  BY DEF AuditCompleted, AuditFailure, At, Answer, AuditorAt, gates
<1>2. /\ pc' \in [Requests -> Positions]
      /\ pc'[r] \in {"answer", "done"}
      /\ \A s \in Requests \ {r} : pc'[s] = pc[s]
  BY <1>1, Moved DEF Positions, Working, Worker
<1>3. \A s \in Requests \ {r} : ~AuditorAt(pc[s])
  BY <1>1 DEF Alone
<1>4. Claim(pc[r]) /\ Closings = 0
  BY <1>1 DEF Claims, Claim, CloserClaim
<1>5. /\ audits["completed"] = 0 /\ audits["failed"] = 0
      /\ audits["denied"] = 0
  <2>1. /\ audits["completed"] \in Nat /\ audits["failed"] \in Nat
        /\ audits["denied"] \in Nat
    BY DEF TypeOK, AuditOutcomes
  <2> QED
    BY <1>4, <2>1 DEF Closings
<1>6. PICK o \in {"completed", "failed", "denied"} :
          /\ Record(o)
          /\ o = "completed" => command = "completed"
          /\ o # "completed" => command = "failed"
  <2>1. CASE AuditCompleted(r)
    BY <1>4, <2>1 DEF AuditCompleted, At, Claim, CloserClaim
  <2>2. CASE AuditFailure(r)
    BY <1>4, <2>2 DEF AuditFailure, Claim, CloserClaim
  <2> QED
    BY <2>1, <2>2
<1>7. /\ audits' \in [AuditOutcomes -> Nat]
      /\ audits'["queued"] = audits["queued"]
      /\ \A x \in {"completed", "failed", "denied"} :
             audits'[x] = IF x = o THEN 1 ELSE 0
  BY <1>5, <1>6 DEF Record, TypeOK, AuditOutcomes
<1>8. TypeOK'
  <2>1. reply' \in [Requests -> Statuses \cup {"error"}]
    BY <1>1 DEF TypeOK
  <2> QED
    BY <1>1, <1>2, <1>7, <2>1 DEF TypeOK, Positions
<1>9. \A s \in Requests : ~AuditorAt(pc[s])'
  BY <1>2, <1>3 DEF AuditorAt
<1>10. Claims'
  <2> SUFFICES ASSUME NEW s \in Requests PROVE Claim(pc[s])'
    BY DEF Claims
  <2>1. CASE s = r
    BY <1>2, <2>1 DEF Claim, OwnerClaim, CloserClaim, LapsedClaim, OwnerAt,
       AuditorAt
  <2>2. CASE s # r
    <3>1. pc'[s] = pc[s] /\ ~AuditorAt(pc[s]) /\ Claim(pc[s])
      BY <1>2, <1>3, <2>2 DEF Claims
    <3> QED
      BY <1>1, <1>7, <3>1 DEF Claim, OwnerClaim, CloserClaim, LapsedClaim,
         OwnerAt, AuditorAt
  <2> QED
    BY <2>1, <2>2
<1>11. Alone'
  <2>1. \A s \in Requests : OwnerAt(pc[s])' => OwnerAt(pc[s])
    <3> SUFFICES ASSUME NEW s \in Requests, OwnerAt(pc[s])'
                 PROVE  OwnerAt(pc[s])
      OBVIOUS
    <3>1. s # r
      BY <1>2 DEF OwnerAt
    <3> QED
      BY <1>1, <1>2, <3>1 DEF OwnerAt
  <2> QED
    BY <1>9, <2>1 DEF Alone
<1>12. TrailInv'
  BY <1>1, <1>6, <1>7 DEF TrailInv, Closings
<1>13. EffectInv'
  BY <1>1 DEF EffectInv
<1>14. RepliesInv'
  BY <1>1 DEF RepliesInv, TypeOK
<1> QED
  BY <1>8, <1>10, <1>11, <1>12, <1>13, <1>14

LEMMA NextCommandInv == CommandInv /\ [Next]_vars => CommandInv'
<1> SUFFICES ASSUME CommandInv, [Next]_vars PROVE CommandInv'
  OBVIOUS
<1>1. CASE UNCHANGED vars
  BY <1>1 DEF vars, gates, CommandInv, TypeOK, Claims, Claim, OwnerClaim,
     CloserClaim, LapsedClaim, OwnerAt, AuditorAt, Closings, Alone, TrailInv,
     EffectInv, RepliesInv
<1>2. CASE ChangeGrant \/ ApprovalExpires
  BY <1>2, ChangeGrantCommandInv, ApprovalExpiresCommandInv
<1>3. ASSUME NEW r \in Requests,
             \/ Receive(r) \/ Find(r) \/ CheckGrant(r) \/ CheckApproval(r)
             \/ CheckThrows(r)
      PROVE  CommandInv'
  BY <1>3, ReceiveCommandInv, FindCommandInv, CheckGrantCommandInv,
     CheckApprovalCommandInv, CheckThrowsCommandInv
<1>4. ASSUME NEW r \in Requests,
             Refuse(r) \/ Respond(r) \/ Crash(r) \/ AuditLost(r)
      PROVE  CommandInv'
  BY <1>4, EndCommandInv
<1>5. ASSUME NEW r \in Requests,
             \/ Insert(r) \/ AuditQueued(r) \/ Load(r) \/ Call(r) \/ Persist(r)
             \/ MarkCompleted(r) \/ MarkFailed(r)
             \/ AuditCompleted(r) \/ AuditFailure(r)
      PROVE  CommandInv'
  BY <1>5, InsertCommandInv, AuditQueuedCommandInv, LoadCommandInv,
     CallCommandInv, PersistCommandInv, MarkCompletedCommandInv,
     MarkFailedCommandInv, AuditClosingCommandInv
<1> QED
  BY <1>1, <1>2, <1>3, <1>4, <1>5 DEF Next, Step

-----------------------------------------------------------------------------
\* The inductive invariant of a key: one owner until the result is stored, one
\* auditor after the command is closed.
THEOREM CommandInvariantHolds == Spec => []CommandInv
<1>1. Init => CommandInv
  BY InitCommandInv
<1>2. CommandInv /\ [Next]_vars => CommandInv'
  BY NextCommandInv
<1> QED
  BY <1>1, <1>2, PTL DEF Spec

\* Duplicate requests, replays and crashes leave one queueing and at most one
\* closing in the audit trail, which agrees with the command.
THEOREM AuditedOnceHolds == Spec => []AuditedOnce
<1>1. CommandInv => AuditedOnce
  <2> SUFFICES ASSUME CommandInv PROVE AuditedOnce
    OBVIOUS
  <2>1. TrailInv
    BY DEF CommandInv
  <2> QED
    BY <2>1 DEF TrailInv, Closings, AuditedOnce
<1> QED
  BY <1>1, CommandInvariantHolds, PTL

\* A mutation whose grant or approval lapsed before the worker took it up
\* does not reach GitHub.
THEOREM LapsedIsStoppedHolds == Spec => []LapsedIsStopped
<1>1. CommandInv => LapsedIsStopped
  BY DEF CommandInv, EffectInv, LapsedIsStopped
<1> QED
  BY <1>1, CommandInvariantHolds, PTL

\* Who is told completed can rely on the effect and on the stored result.
THEOREM CompletedIsTrueHolds == Spec => []CompletedIsTrue
<1>1. CommandInv => CompletedIsTrue
  BY DEF CommandInv, RepliesInv, EffectInv, CompletedIsTrue
<1> QED
  BY <1>1, CommandInvariantHolds, PTL

\* The key keeps the promise of SingleEffect: every step of a request opens,
\* applies, completes or fails the command, or is none of its business.
THEOREM ImplementsOneEffect == Spec => OneEffectSpec
<1>1. Init => OneEffect!Init
  BY DEF Init, OneEffect!Init
<1>2. CommandInv /\ CommandInv' /\ [Next]_vars => [OneEffect!Next]_(OneEffect!vars)
  <2> SUFFICES ASSUME CommandInv, [Next]_vars
               PROVE  [OneEffect!Next]_(OneEffect!vars)
    OBVIOUS
  <2> USE DEF OneEffect!vars
  <2>1. CASE UNCHANGED <<command, effects>>
    BY <2>1
  <2>2. ASSUME NEW r \in Requests, Insert(r) PROVE [OneEffect!Next]_(OneEffect!vars)
    BY <2>2 DEF Insert, OneEffect!Next, OneEffect!Open
  <2>3. ASSUME NEW r \in Requests, Call(r) PROVE [OneEffect!Next]_(OneEffect!vars)
    <3>1. pc[r] = "call" /\ command' = command /\ effects' \in {effects, effects + 1}
      BY <2>3 DEF Call, At
    <3>2. Claim(pc[r]) /\ OwnerAt(pc[r])
      BY <3>1 DEF CommandInv, Claims, OwnerAt
    <3>3. command = "queued" /\ effects = 0
      BY <3>1, <3>2 DEF Claim, OwnerClaim
    <3> QED
      BY <3>1, <3>3 DEF OneEffect!Next, OneEffect!Apply
  <2>4. ASSUME NEW r \in Requests, MarkCompleted(r)
        PROVE  [OneEffect!Next]_(OneEffect!vars)
    <3>1. Claim(pc[r]) /\ pc[r] = "complete"
      BY <2>4 DEF MarkCompleted, At, CommandInv, Claims
    <3>2. effects = 1
      BY <3>1 DEF Claim, CloserClaim, CommandInv, EffectInv
    <3> QED
      BY <2>4, <3>2 DEF MarkCompleted, StillQueued, OneEffect!Next,
         OneEffect!Complete
  <2>5. ASSUME NEW r \in Requests, MarkFailed(r)
        PROVE  [OneEffect!Next]_(OneEffect!vars)
    <3>1. OwnerAt(pc[r])
      BY <2>5 DEF MarkFailed, At, OwnerAt
    <3>2. command = "queued"
      BY <3>1, OwnerStep
    <3> QED
      BY <2>5, <3>2 DEF MarkFailed, FailedStatus, OneEffect!Next,
         OneEffect!Fail
  <2>6. CASE UNCHANGED vars
    BY <2>6 DEF vars
  <2>7. CASE ChangeGrant \/ ApprovalExpires
    BY <2>7 DEF ChangeGrant, ApprovalExpires
  <2>8. ASSUME NEW r \in Requests,
               \/ Receive(r) \/ Find(r) \/ CheckGrant(r) \/ CheckApproval(r)
               \/ Refuse(r) \/ AuditQueued(r) \/ Load(r) \/ Persist(r)
               \/ AuditCompleted(r) \/ AuditFailure(r) \/ Respond(r)
               \/ CheckThrows(r) \/ Crash(r) \/ AuditLost(r)
        PROVE  UNCHANGED <<command, effects>>
    BY <2>8 DEF Receive, Find, CheckGrant, CheckApproval, Refuse, AuditQueued,
       Load, Persist, AuditCompleted, AuditFailure, Respond, CheckThrows,
       Crash, AuditLost
  <2> QED
    BY <2>1, <2>2, <2>3, <2>4, <2>5, <2>6, <2>7, <2>8 DEF Next, Step
<1> QED
  BY <1>1, <1>2, CommandInvariantHolds, PTL
  DEF Spec, OneEffectSpec, OneEffect!Spec

=============================================================================

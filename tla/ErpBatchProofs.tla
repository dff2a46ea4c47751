---------------------------- MODULE ErpBatchProofs ----------------------------
(***************************************************************************)
(* Proofs about ErpBatch, for any number of batches, heads, calls, faults  *)
(* and unlocks: type correctness, that a batch is inserted into Oracle at  *)
(* most once, that an unlock leaves no usable batch behind and a flagged   *)
(* one never moves up, that at most one batch is active, that at most one  *)
(* call changes the adjustments after a posting, that a LOCKED batch is the*)
(* live one of Oracle and its last word, that no call which landed is      *)
(* logged FAILED, and that the log explains where Postgres and Oracle      *)
(* disagree.                                                               *)
(***************************************************************************)
EXTENDS ErpBatch, TLAPS

-----------------------------------------------------------------------------
(* Type correctness.  A step that has logged its call finds the call's row *)
(* at the end of the log.                                                  *)

InStep(b) == InCall(b) \/ run[b].pc \in {"row", "answered"}
StepOp(b) == InStep(b) => run[b].op \in Ops
CallLogged(b) == InCall(b) => calls[b] # <<>>

TypeInv == TypeOK /\ \A b \in Batches : StepOp(b) /\ CallLogged(b)

LEMMA LastAsType ==
  ASSUME NEW log \in Seq(Call), log # <<>>,
         NEW st \in {"STARTED", "SUCCESS", "FAILED", "UNKNOWN"}, NEW landed \in BOOLEAN
  PROVE  /\ LastAs(log, st, landed) \in Seq(Call)
         /\ LastAs(log, st, landed) # <<>>
         /\ Len(LastAs(log, st, landed)) = Len(log)
         /\ \A i \in 1..Len(log) : LastAs(log, st, landed)[i].op = log[i].op
<1>1. Len(log) \in 1..Len(log) /\ Len(log) \in Nat
  OBVIOUS
<1>2. log[Len(log)] \in Call
  BY <1>1
<1> DEFINE last == [op |-> log[Len(log)].op, st |-> st, landed |-> landed]
<1>3. last \in Call
  BY <1>2 DEF Call
<1>4. last.op = log[Len(log)].op
  OBVIOUS
<1> HIDE DEF last
<1>5. [log EXCEPT ![Len(log)] = last] \in Seq(Call)
      /\ Len([log EXCEPT ![Len(log)] = last]) = Len(log)
  BY <1>1, <1>3
<1>6. \A i \in 1..Len(log) : [log EXCEPT ![Len(log)] = last][i].op = log[i].op
  BY <1>1, <1>4
<1> QED
  BY <1>1, <1>5, <1>6 DEF LastAs, last

LEMMA StartedType ==
  ASSUME NEW log \in Seq(Call), NEW op \in Ops
  PROVE  /\ Started(log, op) \in Seq(Call)
         /\ Started(log, op) # <<>>
         /\ Len(Started(log, op)) = Len(log) + 1
         /\ \A i \in 1..Len(log) : Started(log, op)[i].op = log[i].op
         /\ Started(log, op)[Len(log) + 1].op = op
<1> DEFINE row == [op |-> op, st |-> "STARTED", landed |-> FALSE]
<1>1. row \in Call /\ row.op = op
  BY DEF Call
<1> HIDE DEF row
<1> QED
  BY <1>1 DEF Started, row

\* What the call commits in Oracle is well typed.
LEMMA EffectType ==
  ASSUME TypeOK, NEW b \in Batches, NEW op \in Ops, Effect(b, op)
  PROVE  /\ header' \in [Batches -> HeaderStatuses]
         /\ adj' \in [Heads -> Adjustment]
         /\ adjLog' \in [Batches -> [Heads -> OldValue]]
<1>t. /\ header \in [Batches -> HeaderStatuses] /\ adj \in [Heads -> Adjustment]
      /\ adjLog \in [Batches -> [Heads -> OldValue]]
      /\ run[b].rows \in [Heads -> OldValue]
  BY DEF TypeOK, Run
<1>1. CASE op = "push"
  <2>1. header' = [header EXCEPT ![b] = "pushed"] /\ adj' = adj /\ adjLog' = adjLog
    BY <1>1 DEF Effect, InsertBatch
  <2> QED
    BY <1>t, <2>1 DEF HeaderStatuses
<1>2. CASE op = "valuate"
  <2>0. ValuateAdj(b)
    BY <1>2 DEF Effect
  <2>1. header' \in [Batches -> HeaderStatuses]
    BY <1>t, <2>0 DEF ValuateAdj, HeaderStatuses
  <2>2. \A h \in Heads : [adj[h] EXCEPT !.stamp = b, !.val = b] \in Adjustment
    <3>1. b \in 0..NumBatches
      BY BoundsAssumption DEF Batches
    <3> QED
      BY <1>t, <3>1 DEF Adjustment
  <2>3. adj' \in [Heads -> Adjustment]
    BY <1>t, <2>0, <2>2 DEF ValuateAdj
  <2>5. [h \in Heads |-> IF h \in Selected(b) THEN run[b].rows[h] ELSE adjLog[b][h]]
          \in [Heads -> OldValue]
    BY <1>t
  <2>6. adjLog' \in [Batches -> [Heads -> OldValue]]
    BY <1>t, <2>0, <2>5 DEF ValuateAdj
  <2> QED
    BY <2>1, <2>3, <2>6
<1>3. CASE op = "approve"
  <2>0. ApproveAdj(b)
    BY <1>3 DEF Effect
  <2>1. \A h \in Heads : [adj[h] EXCEPT !.state = "approved"] \in Adjustment
    BY <1>t DEF Adjustment
  <2>2. adj' \in [Heads -> Adjustment]
    BY <1>t, <2>0, <2>1 DEF ApproveAdj
  <2>3. header' \in [Batches -> HeaderStatuses] /\ adjLog' = adjLog
    BY <1>t, <2>0 DEF ApproveAdj, HeaderStatuses
  <2> QED
    BY <1>t, <2>2, <2>3
<1>4. CASE op = "restore"
  <2>0. RestoreAdj(b)
    BY <1>4 DEF Effect
  <2>1. header' \in [Batches -> HeaderStatuses] /\ adjLog' = adjLog
    BY <1>t, <2>0 DEF RestoreAdj, HeaderStatuses
  <2>2. ASSUME NEW h \in Heads, adjLog[b][h] # NotLogged
        PROVE  [adj[h] EXCEPT !.stamp = adjLog[b][h].stamp, !.val = adjLog[b][h].val]
                 \in Adjustment
    <3>1. adjLog[b][h] \in [stamp: 0..NumBatches, val: 0..NumBatches]
      BY <1>t, <2>2 DEF OldValue
    <3>2. adjLog[b][h].stamp \in 0..NumBatches /\ adjLog[b][h].val \in 0..NumBatches
      BY <3>1
    <3> QED
      BY <1>t, <3>2 DEF Adjustment
  <2>3. adj' \in [Heads -> Adjustment]
    BY <1>t, <2>0, <2>2 DEF RestoreAdj
  <2> QED
    BY <1>t, <2>1, <2>3
<1>5. CASE op = "lock"
  <2>1. header' = [header EXCEPT ![b] = "locked"] /\ adj' = adj /\ adjLog' = adjLog
    BY <1>5 DEF Effect, LockHeader
  <2> QED
    BY <1>t, <2>1 DEF HeaderStatuses
<1> QED
  BY <1>1, <1>2, <1>3, <1>4, <1>5 DEF Ops

\* The parts of the type invariant that speak of one batch's run and log.
RunTyped ==
  /\ run \in [Batches -> Run]
  /\ calls \in [Batches -> Seq(Call)]
  /\ \A b \in Batches : StepOp(b) /\ CallLogged(b)

Rest ==
  /\ status \in [Batches -> Statuses]
  /\ needsRepush \in [Batches -> BOOLEAN]
  /\ adjApproved \in [Batches -> BOOLEAN]
  /\ locked \in BOOLEAN
  /\ unlocker \in {"idle", "probed", "taken"}
  /\ faults \in 0..MaxFaults /\ unlocks \in 0..MaxUnlocks /\ edits \in 0..MaxEdits

OracleTyped ==
  /\ header \in [Batches -> HeaderStatuses]
  /\ adj \in [Heads -> Adjustment]
  /\ adjLog \in [Batches -> [Heads -> OldValue]]
  /\ late \in Nat

LEMMA TypeParts == TypeInv <=> RunTyped /\ Rest /\ OracleTyped
BY DEF TypeInv, TypeOK, RunTyped, Rest, OracleTyped

LEMMA TypePartsNext == RunTyped' /\ Rest' /\ OracleTyped' => TypeInv'
BY DEF TypeInv, TypeOK, RunTyped, Rest, OracleTyped

\* A step that gives one batch a well-typed run and log keeps the others' as they are.
LEMMA RunStep ==
  ASSUME RunTyped, NEW b \in Batches, NEW r \in Run, NEW log \in Seq(Call),
         run' = [run EXCEPT ![b] = r], calls' = [calls EXCEPT ![b] = log],
         r.pc \in {"row", "logged", "checked", "written", "answered"} => r.op \in Ops,
         r.pc \in {"logged", "checked", "written"} => log # <<>>
  PROVE  RunTyped'
BY DEF RunTyped, StepOp, CallLogged, InStep, InCall

LEMMA SameLog ==
  ASSUME RunTyped, NEW b \in Batches, UNCHANGED calls
  PROVE  calls[b] \in Seq(Call) /\ calls' = [calls EXCEPT ![b] = calls[b]]
BY DEF RunTyped

LEMMA NoRowsType == NoRows \in [Heads -> OldValue]
BY DEF NoRows, OldValue

LEMMA OldRowsType ==
  ASSUME adj \in [Heads -> Adjustment], NEW hs
  PROVE  OldRows(hs) \in [Heads -> OldValue]
<1>1. \A h \in Heads : [stamp |-> adj[h].stamp, val |-> adj[h].val] \in OldValue
  BY DEF Adjustment, OldValue
<1>2. NotLogged \in OldValue
  BY DEF OldValue
<1> QED
  BY <1>1, <1>2 DEF OldRows

LEMMA IdleType == Idle \in Run /\ Idle.pc = "idle"
BY NoRowsType DEF Idle, Run, Ops

LEMMA StepBeginType ==
  ASSUME TypeInv, NEW b \in Batches, NEW op \in Ops, StepBegin(b, op)
  PROVE  TypeInv'
<1> DEFINE r == [Idle EXCEPT !.pc = "row", !.op = op]
<1>1. r \in Run /\ r.pc = "row" /\ r.op = op
  BY NoRowsType DEF Idle, Run
<1>2. RunTyped
  BY TypeParts
<1>3. RunTyped'
  <2>1. run' = [run EXCEPT ![b] = r] /\ UNCHANGED calls
    BY DEF StepBegin
  <2> HIDE DEF r
  <2> QED
    BY <1>1, <1>2, <2>1, RunStep, SameLog
<1>4. Rest' /\ OracleTyped'
  BY TypeParts DEF StepBegin, Rest, OracleTyped, pgVars, oracleVars, bounds
<1> QED
  BY <1>3, <1>4, TypePartsNext

LEMMA SelectSetType == \A b, op : SelectSet(b, op) \subseteq Heads
BY DEF SelectSet, Eligible, StampedBy

LEMMA StepIssueType ==
  ASSUME TypeInv, NEW b \in Batches, StepIssue(b)
  PROVE  TypeInv'
<1> DEFINE op == run[b].op
           r == [run[b] EXCEPT !.pc = "logged", !.set = SelectSet(b, op)]
<1>1. RunTyped /\ run[b] \in Run /\ op \in Ops /\ calls[b] \in Seq(Call)
  BY TypeParts DEF RunTyped, StepOp, InStep, StepIssue
<1>2. r \in Run /\ r.pc = "logged" /\ r.op = op
  BY <1>1, SelectSetType DEF Run
<1>3. RunTyped'
  <2>1. run' = [run EXCEPT ![b] = r] /\ calls' = [calls EXCEPT ![b] = Started(calls[b], op)]
    BY <1>1 DEF StepIssue, RunTyped
  <2> HIDE DEF r, op
  <2>2. Started(calls[b], op) \in Seq(Call) /\ Started(calls[b], op) # <<>>
    BY <1>1, StartedType
  <2> QED
    BY <1>1, <1>2, <2>1, <2>2, RunStep
<1>4. Rest' /\ OracleTyped'
  BY TypeParts DEF StepIssue, Rest, OracleTyped, pgVars, oracleVars, bounds
<1> QED
  BY <1>3, <1>4, TypePartsNext

\* A batch's run goes back to idle, and its log stays as it is.
LEMMA IdleStep ==
  ASSUME RunTyped, NEW b \in Batches, run' = [run EXCEPT ![b] = Idle], UNCHANGED calls
  PROVE  RunTyped'
BY IdleType, RunStep, SameLog

\* The answer, and what becomes of the call's row.
LEMMA AnsweredStep ==
  ASSUME RunTyped, NEW b \in Batches, InStep(b),
         NEW res \in {"SUCCESS", "FAILED", "UNKNOWN"}, run' = Answered(b, res),
         NEW log \in Seq(Call), calls' = [calls EXCEPT ![b] = log]
  PROVE  RunTyped'
<1> DEFINE r == [run[b] EXCEPT !.pc = "answered", !.res = res, !.rows = NoRows]
<1>1. run[b] \in Run /\ run[b].op \in Ops
  BY DEF RunTyped, StepOp
<1>2. r \in Run /\ r.pc = "answered" /\ r.op \in Ops
  BY <1>1, NoRowsType DEF Run
<1>3. run' = [run EXCEPT ![b] = r]
  BY DEF Answered, RunTyped
<1> HIDE DEF r
<1> QED
  BY <1>2, <1>3, RunStep

LEMMA CloseType ==
  ASSUME RunTyped, NEW b \in Batches, InCall(b),
         NEW st \in {"STARTED", "SUCCESS", "FAILED", "UNKNOWN"}, NEW landed \in BOOLEAN
  PROVE  /\ LastAs(calls[b], st, landed) \in Seq(Call)
         /\ LastAs(calls[b], st, landed) # <<>>
         /\ Close(b, st, landed) = [calls EXCEPT ![b] = LastAs(calls[b], st, landed)]
<1>1. calls[b] \in Seq(Call) /\ calls[b] # <<>>
  BY DEF RunTyped, CallLogged
<1>2. Close(b, st, landed) = [calls EXCEPT ![b] = LastAs(calls[b], st, landed)]
  BY DEF Close, RunTyped
<1> QED
  BY <1>1, <1>2, LastAsType

\* The COMMIT of a call, and its two steps before that.
LEMMA CommitsType ==
  ASSUME TypeInv, NEW b \in Batches, Commits(b)
  PROVE  OracleTyped'
<1>1. run[b].op \in Ops
  BY TypeParts DEF RunTyped, StepOp, InStep, InCall, Commits
<1>2. late' \in Nat
  BY TypeParts DEF OracleTyped, Commits
<1> QED
  BY <1>1, <1>2, EffectType DEF OracleTyped, Commits, TypeInv

LEMMA CallStepsType ==
  ASSUME TypeInv, NEW b \in Batches, OracleChecks(b) \/ OracleWrites(b)
  PROVE  TypeInv'
<1>1. /\ RunTyped /\ run[b] \in Run /\ run[b].op \in Ops /\ calls[b] # <<>>
      /\ calls[b] \in Seq(Call) /\ adj \in [Heads -> Adjustment]
  BY TypeParts DEF RunTyped, OracleTyped, StepOp, CallLogged, InStep, InCall, OracleChecks,
     OracleWrites
<1>2. Rest' /\ OracleTyped'
  BY TypeParts DEF OracleChecks, OracleWrites, Rest, OracleTyped, pgVars, oracleVars, bounds
<1>3. ASSUME NEW pc \in {"checked", "written"}, NEW rows \in [Heads -> OldValue],
             run' = [run EXCEPT ![b] = [run[b] EXCEPT !.pc = pc, !.rows = rows]],
             UNCHANGED calls
      PROVE  RunTyped'
  <2> DEFINE r == [run[b] EXCEPT !.pc = pc, !.rows = rows]
  <2>1. r \in Run /\ r.op \in Ops
    BY <1>1 DEF Run
  <2>2. run' = [run EXCEPT ![b] = r]
    BY <1>3
  <2> HIDE DEF r
  <2> QED
    BY <1>1, <1>3, <2>1, <2>2, RunStep, SameLog
<1>4. CASE OracleChecks(b)
  <2>1. run[b].rows \in [Heads -> OldValue]
    BY <1>1 DEF Run
  <2>2. run' = [run EXCEPT ![b] = [run[b] EXCEPT !.pc = "checked", !.rows = run[b].rows]]
    BY <1>1, <1>4 DEF OracleChecks, Run, RunTyped
  <2>3. UNCHANGED calls
    BY <1>4 DEF OracleChecks
  <2>4. RunTyped'
    BY <1>3, <2>1, <2>2, <2>3
  <2> QED
    BY <1>2, <2>4, TypePartsNext
<1>5. CASE OracleWrites(b)
  <2> DEFINE rows == CASE run[b].op = "valuate" -> OldRows(Eligible)
                       [] run[b].op = "approve" -> OldRows(Eligible \cap StampedBy(b))
                       [] OTHER -> NoRows
  <2>1. rows \in [Heads -> OldValue]
    BY <1>1, NoRowsType, OldRowsType
  <2>2. run' = [run EXCEPT ![b] = [run[b] EXCEPT !.pc = "written", !.rows = rows]]
    BY <1>1, <1>5 DEF OracleWrites, RunTyped
  <2>3. UNCHANGED calls
    BY <1>5 DEF OracleWrites
  <2> HIDE DEF rows
  <2>4. RunTyped'
    BY <1>3, <2>1, <2>2, <2>3
  <2> QED
    BY <1>2, <2>4, TypePartsNext
<1> QED
  BY <1>4, <1>5

\* The ends of a call: Oracle's side, and the run and the log.
LEMMA CallEndsType ==
  ASSUME TypeInv, NEW b \in Batches, InCall(b), UNCHANGED oracleVars \/ Commits(b),
         NEW res \in {"SUCCESS", "FAILED", "UNKNOWN"}, run' = Answered(b, res),
         NEW st \in {"STARTED", "SUCCESS", "FAILED", "UNKNOWN"}, NEW landed \in BOOLEAN,
         calls' = Close(b, st, landed)
  PROVE  RunTyped' /\ OracleTyped'
<1>1. OracleTyped'
  <2>1. CASE UNCHANGED oracleVars
    BY <2>1, TypeParts DEF OracleTyped, oracleVars
  <2> QED
    BY <2>1, CommitsType
<1>2. RunTyped /\ InStep(b)
  BY TypeParts DEF InStep
<1> QED
  BY <1>1, <1>2, CloseType, AnsweredStep

LEMMA AnswersType ==
  ASSUME TypeInv, NEW b \in Batches,
         OracleAnswers(b) \/ OracleAnswersUnlogged(b) \/ OracleUnknown(b)
  PROVE  TypeInv'
<1>1. Rest'
  <2>1. UNCHANGED <<status, needsRepush, adjApproved, locked, unlocker, unlocks, edits>>
    BY DEF OracleAnswers, OracleAnswersUnlogged, OracleUnknown, pgVars, bounds
  <2>2. UNCHANGED faults \/ (faults < MaxFaults /\ faults' = faults + 1)
    BY DEF OracleAnswers, OracleAnswersUnlogged, OracleUnknown, bounds
  <2>3. faults' \in 0..MaxFaults
    BY <2>2, TypeParts, BoundsAssumption DEF Rest
  <2> QED
    BY <2>1, <2>3, TypeParts DEF Rest
<1>2. InCall(b)
  BY DEF OracleAnswers, OracleAnswersUnlogged, OracleUnknown, Commits, Refuses, InCall
<1>3. \E res \in {"SUCCESS", "FAILED", "UNKNOWN"}, landed \in BOOLEAN,
         st \in {"STARTED", "SUCCESS", "FAILED", "UNKNOWN"} :
        /\ UNCHANGED oracleVars \/ Commits(b)
        /\ run' = Answered(b, res) /\ calls' = Close(b, st, landed)
  BY DEF OracleAnswers, OracleAnswersUnlogged, OracleUnknown, Refuses
<1> QED
  BY <1>1, <1>2, <1>3, CallEndsType, TypePartsNext

LEMMA OracleBusyType ==
  ASSUME TypeInv, NEW b \in Batches, OracleBusy(b)
  PROVE  TypeInv'
<1>1. RunTyped /\ InCall(b) /\ run[b].op \in Ops /\ run[b] \in Run
  BY TypeParts DEF RunTyped, StepOp, InStep, OracleBusy
<1>2. Rest' /\ OracleTyped'
  BY TypeParts, BoundsAssumption DEF OracleBusy, Rest, OracleTyped, pgVars, oracleVars
<1>3. RunTyped'
  <2>1. CASE calls' = Close(b, "FAILED", FALSE) /\ run' = Answered(b, "FAILED")
    BY <1>1, <2>1, CloseType, AnsweredStep DEF InStep
  <2>2. CASE calls' = [calls EXCEPT ![b] = Started(LastAs(@, "FAILED", FALSE), run[b].op)]
             /\ run' = [run EXCEPT ![b].pc = "logged", ![b].rows = NoRows]
    <3> DEFINE log == Started(LastAs(calls[b], "FAILED", FALSE), run[b].op)
               r == [run[b] EXCEPT !.pc = "logged", !.rows = NoRows]
    <3>1. log \in Seq(Call) /\ log # <<>>
      BY <1>1, CloseType, StartedType
    <3>2. calls' = [calls EXCEPT ![b] = log] /\ run' = [run EXCEPT ![b] = r]
      BY <1>1, <2>2 DEF RunTyped
    <3>3. r \in Run /\ r.op \in Ops
      BY <1>1, NoRowsType DEF Run
    <3> HIDE DEF log, r
    <3> QED
      BY <1>1, <3>1, <3>2, <3>3, RunStep
  <2> QED
    BY <2>1, <2>2 DEF OracleBusy
<1> QED
  BY <1>2, <1>3, TypePartsNext

LEMMA CrashType ==
  ASSUME TypeInv, NEW b \in Batches, Crash(b)
  PROVE  TypeInv'
<1>1. RunTyped
  BY TypeParts
<1>2. Rest'
  BY TypeParts, BoundsAssumption DEF Crash, Rest, pgVars
<1>3. run' = [run EXCEPT ![b] = Idle]
  BY DEF Crash
<1>4. CASE UNCHANGED <<oracleVars, calls>>
  <2>1. OracleTyped'
    BY <1>4, TypeParts DEF OracleTyped, oracleVars
  <2> QED
    BY <1>1, <1>2, <1>3, <1>4, <2>1, IdleStep, TypePartsNext
<1>5. CASE Commits(b) /\ calls' = Close(b, "STARTED", TRUE)
  <2>1. InCall(b)
    BY <1>5 DEF Commits, InCall
  <2> QED
    BY <1>1, <1>2, <1>3, <1>5, <2>1, CommitsType, CloseType, IdleType, RunStep, TypePartsNext
<1> QED
  BY <1>4, <1>5 DEF Crash

\* The outcome is saved in one transaction.
LEMMA StepCommitType ==
  ASSUME TypeInv, NEW b \in Batches, StepCommit(b)
  PROVE  TypeInv'
<1>1. RunTyped' /\ OracleTyped'
  BY TypeParts, IdleStep DEF StepCommit, OracleTyped, oracleVars
<1>2. status \in [Batches -> Statuses] /\ adjApproved \in [Batches -> BOOLEAN]
  BY TypeParts DEF Rest
<1>3. status' \in [Batches -> Statuses] /\ adjApproved' \in [Batches -> BOOLEAN]
  <2>1. CASE FinishPush(b)
    BY <1>2, <2>1 DEF FinishPush, Statuses
  <2>2. CASE FinishValuate(b)
    BY <1>2, <2>2 DEF FinishValuate, Statuses
  <2>3. CASE FinishApprove(b)
    BY <1>2, <2>3 DEF FinishApprove
  <2>4. CASE FinishRestore(b)
    BY <1>2, <2>4 DEF FinishRestore, Statuses
  <2>5. CASE FinishLock(b)
    BY <1>2, <2>5 DEF FinishLock, Statuses
  <2>6. CASE Hold(b)
    BY <1>2, <2>6 DEF Hold
  <2> QED
    BY <2>1, <2>2, <2>3, <2>4, <2>5, <2>6 DEF StepCommit
<1>4. Rest'
  BY <1>3, TypeParts DEF StepCommit, Rest, bounds
<1> QED
  BY <1>1, <1>4, TypePartsNext

\* The reconciliation settles calls, it adds none.
LEMMA SettledType ==
  ASSUME NEW b \in Batches, calls[b] \in Seq(Call)
  PROVE  /\ Settled(b) \in Seq(Call) /\ Len(Settled(b)) = Len(calls[b])
         /\ \A i \in 1..Len(calls[b]) : Settled(b)[i].op = calls[b][i].op
<1>1. \A i \in 1..Len(calls[b]) : calls[b][i] \in Call
  OBVIOUS
<1>2. \A op \in Ops : Proof(b, op) \in {"SUCCESS", "FAILED", ""}
  BY DEF Proof, Ops
<1> DEFINE settle(c) == IF c.st \in Unresolved /\ Proof(b, c.op) # ""
                        THEN [c EXCEPT !.st = Proof(b, c.op)] ELSE c
<1>3. \A c \in Call : settle(c) \in Call /\ settle(c).op = c.op
  BY <1>2 DEF Call
<1>4. Settled(b) = [i \in 1..Len(calls[b]) |-> settle(calls[b][i])]
  BY DEF Settled
<1> HIDE DEF settle
<1> QED
  BY <1>1, <1>3, <1>4

LEMMA ReconReadType ==
  ASSUME TypeInv, NEW b \in Batches, ReconRead(b)
  PROVE  TypeInv'
<1> DEFINE r == [Idle EXCEPT !.pc = "read", !.op = "recon",
                            !.res = IF Clean(b) THEN "clean" ELSE "diff"]
<1>1. r \in Run /\ r.pc = "read"
  BY NoRowsType DEF Run, Idle
<1>2. RunTyped /\ calls[b] \in Seq(Call)
  BY TypeParts DEF RunTyped
<1>3. RunTyped'
  <2>1. run' = [run EXCEPT ![b] = r] /\ calls' = [calls EXCEPT ![b] = Settled(b)]
    BY DEF ReconRead
  <2> HIDE DEF r
  <2> QED
    BY <1>1, <1>2, <2>1, SettledType, RunStep
<1>4. Rest' /\ OracleTyped'
  BY TypeParts DEF ReconRead, Rest, OracleTyped, pgVars, oracleVars, bounds
<1> QED
  BY <1>3, <1>4, TypePartsNext

LEMMA ReconCommitType ==
  ASSUME TypeInv, NEW b \in Batches, ReconCommit(b)
  PROVE  TypeInv'
<1>1. RunTyped' /\ OracleTyped'
  BY TypeParts, IdleStep DEF ReconCommit, OracleTyped, oracleVars
<1>2. status \in [Batches -> Statuses]
  BY TypeParts DEF Rest
<1>3. ReconTo(b) \in Statuses
  BY <1>2 DEF ReconTo, Statuses
<1>4. Rest'
  BY <1>2, <1>3, TypeParts DEF ReconCommit, Rest, bounds
<1> QED
  BY <1>1, <1>4, TypePartsNext

\* The other ends of a step before its call.
LEMMA StepEndsType ==
  ASSUME TypeInv, NEW b \in Batches, StepFindsDone(b) \/ StepRefused(b) \/ StepVictim(b)
  PROVE  TypeInv'
<1>1. Rest' /\ OracleTyped'
  BY TypeParts DEF StepFindsDone, StepRefused, StepVictim, Rest, OracleTyped, pgVars,
     oracleVars, bounds
<1>2. RunTyped'
  <2>1. CASE StepFindsDone(b)
    <3>2. run' = Answered(b, "SUCCESS") /\ UNCHANGED calls /\ InStep(b)
      BY <2>1 DEF StepFindsDone, InStep
    <3>3. calls[b] \in Seq(Call) /\ calls' = [calls EXCEPT ![b] = calls[b]]
      BY <3>2, TypeParts, SameLog
    <3> QED
      BY <3>2, <3>3, TypeParts, AnsweredStep
  <2>2. CASE StepRefused(b) \/ StepVictim(b)
    BY <2>2, TypeParts, IdleStep DEF StepRefused, StepVictim
  <2> QED
    BY <2>1, <2>2
<1> QED
  BY <1>1, <1>2, TypePartsNext

\* What the operator does before the push, and the release of a batch.
LEMMA StatusType ==
  ASSUME TypeInv, NEW b \in Batches,
         Create(b) \/ Validate(b) \/ Reopen(b) \/ Abandon(b)
  PROVE  TypeInv'
<1>1. \E s \in Statuses : status' = [status EXCEPT ![b] = s]
  BY DEF Create, Validate, Reopen, Abandon, Statuses
<1>2. UNCHANGED <<needsRepush, adjApproved, calls, run, locked, unlocker, header, adj,
                  adjLog, late, faults, unlocks, edits>>
  BY DEF Create, Validate, Reopen, Abandon, oracleVars, bounds
<1>3. Rest' /\ OracleTyped'
  BY <1>1, <1>2, TypeParts DEF Rest, OracleTyped
<1>4. RunTyped'
  BY <1>2, TypeParts DEF RunTyped, StepOp, CallLogged, InStep, InCall
<1> QED
  BY <1>3, <1>4, TypePartsNext

LEMMA PeriodType ==
  ASSUME TypeInv, LockPeriod \/ Unlock
  PROVE  TypeInv'
<1>1. UNCHANGED <<status, adjApproved, calls, run, header, adj, adjLog, late, faults, edits>>
  BY DEF LockPeriod, Unlock, UnlockProbe, UnlockTake, UnlockCommit, UnlockVictim, pgVars,
     oracleVars, bounds
<1>2. needsRepush' \in [Batches -> BOOLEAN]
  BY TypeParts DEF LockPeriod, Unlock, UnlockProbe, UnlockTake, UnlockCommit, UnlockVictim,
     pgVars, Rest
<1>3. locked' \in BOOLEAN /\ unlocker' \in {"idle", "probed", "taken"}
  BY TypeParts DEF LockPeriod, Unlock, UnlockProbe, UnlockTake, UnlockCommit, UnlockVictim, Rest
<1>4. unlocks' \in 0..MaxUnlocks
  BY TypeParts, BoundsAssumption
     DEF LockPeriod, Unlock, UnlockProbe, UnlockTake, UnlockCommit, UnlockVictim, Rest, bounds
<1>5. Rest' /\ OracleTyped'
  BY <1>1, <1>2, <1>3, <1>4, TypeParts DEF Rest, OracleTyped
<1>6. RunTyped'
  BY <1>1, TypeParts DEF RunTyped, StepOp, CallLogged, InStep, InCall
<1> QED
  BY <1>5, <1>6, TypePartsNext

LEMMA ErpUserType ==
  ASSUME TypeInv, ErpUser
  PROVE  TypeInv'
<1>1. UNCHANGED <<status, needsRepush, adjApproved, calls, run, locked, unlocker, header,
                  adjLog, late, faults, unlocks>>
  BY DEF ErpUser, ErpEdits, ErpApproves, ErpPosts, pgVars, bounds
<1>2. adj \in [Heads -> Adjustment]
  BY TypeParts DEF OracleTyped
<1>3. adj' \in [Heads -> Adjustment] /\ edits' \in 0..MaxEdits
  <2>1. ASSUME NEW h \in Heads, ErpEdits(h)
        PROVE  adj' \in [Heads -> Adjustment] /\ edits' \in 0..MaxEdits
    BY <1>2, <2>1, TypeParts, BoundsAssumption DEF ErpEdits, Adjustment, None, Rest
  <2>2. ASSUME NEW h \in Heads, ErpApproves(h) \/ ErpPosts(h)
        PROVE  adj' \in [Heads -> Adjustment] /\ UNCHANGED edits
    BY <1>2, <2>2 DEF ErpApproves, ErpPosts, Adjustment, bounds
  <2> QED
    BY <2>1, <2>2, TypeParts DEF ErpUser, Rest
<1>4. Rest' /\ OracleTyped'
  BY <1>1, <1>3, TypeParts DEF Rest, OracleTyped
<1>5. RunTyped'
  BY <1>1, TypeParts DEF RunTyped, StepOp, CallLogged, InStep, InCall
<1> QED
  BY <1>4, <1>5, TypePartsNext

LEMMA TypeInit == Init => TypeInv
<1> SUFFICES ASSUME Init PROVE TypeInv
  OBVIOUS
<1>1. RunTyped
  <2>1. Idle \in Run /\ Idle.pc = "idle" /\ <<>> \in Seq(Call)
    BY IdleType
  <2>2. run = [b \in Batches |-> Idle] /\ calls = [b \in Batches |-> <<>>]
    BY DEF Init
  <2> HIDE DEF Idle
  <2> QED
    BY <2>1, <2>2 DEF RunTyped, StepOp, CallLogged, InStep, InCall
<1>2. Rest
  <2>1. status \in [Batches -> Statuses]
    BY DEF Init, Statuses
  <2>2. needsRepush \in [Batches -> BOOLEAN] /\ adjApproved \in [Batches -> BOOLEAN]
    BY DEF Init
  <2>3. locked \in BOOLEAN /\ unlocker \in {"idle", "probed", "taken"}
    BY DEF Init
  <2>4. faults \in 0..MaxFaults /\ unlocks \in 0..MaxUnlocks /\ edits \in 0..MaxEdits
    BY BoundsAssumption DEF Init
  <2> QED
    BY <2>1, <2>2, <2>3, <2>4 DEF Rest
<1>3. OracleTyped
  <2>1. adjLog \in [Batches -> [Heads -> OldValue]]
    BY NoRowsType DEF Init
  <2> QED
    BY <2>1, BoundsAssumption DEF Init, OracleTyped, HeaderStatuses, Adjustment, None
<1> QED
  BY <1>1, <1>2, <1>3, TypeParts

LEMMA TypeStep == TypeInv /\ [Next]_vars => TypeInv'
<1> SUFFICES ASSUME TypeInv, [Next]_vars PROVE TypeInv'
  OBVIOUS
<1>1. CASE ErpUser
  BY <1>1, ErpUserType
<1>2. CASE LockPeriod \/ Unlock
  BY <1>2, PeriodType
<1>3. ASSUME NEW b \in Batches, Operator(b) PROVE TypeInv'
  BY <1>3, StatusType, StepBeginType DEF Operator
<1>4. ASSUME NEW b \in Batches, ReconRead(b) PROVE TypeInv'
  BY <1>4, ReconReadType
<1>5. ASSUME NEW b \in Batches, Advance(b) PROVE TypeInv'
  BY <1>5, StepIssueType, StepEndsType, CallStepsType, AnswersType, StepCommitType,
     ReconCommitType DEF Advance
<1>6. ASSUME NEW b \in Batches, Mishap(b) PROVE TypeInv'
  BY <1>6, AnswersType, OracleBusyType, CrashType DEF Mishap
<1>7. CASE UNCHANGED vars
  BY <1>7 DEF vars, TypeInv, TypeOK, StepOp, CallLogged, InStep, InCall
<1> QED
  BY <1>1, <1>2, <1>3, <1>4, <1>5, <1>6, <1>7 DEF Next

\* Every variable keeps its type (TypeOK), and a step that waits for Oracle's answer has
\* logged its call first: the log is written before the package is called.
THEOREM TypeCorrect == Spec => []TypeOK
<1>1. TypeInv => TypeOK
  BY DEF TypeInv
<1> QED
  BY <1>1, TypeInit, TypeStep, PTL DEF Spec

-----------------------------------------------------------------------------
(* The push reaches Oracle once.  PushedOnce is inductive by itself: only  *)
(* the issue of a push adds a row of that kind, and it has looked for one. *)

OneInsert(log) ==
  \A i, j \in 1..Len(log) : log[i].op = "push" /\ log[j].op = "push" => i = j

LEMMA OneInsertSame ==
  ASSUME NEW log \in Seq(Call), NEW new \in Seq(Call), Len(new) = Len(log),
         \A i \in 1..Len(log) : new[i].op = log[i].op, OneInsert(log)
  PROVE  OneInsert(new)
BY DEF OneInsert

LEMMA OneInsertStarted ==
  ASSUME NEW log \in Seq(Call), NEW op \in Ops, OneInsert(log),
         op = "push" => \A i \in 1..Len(log) : log[i].op # "push"
  PROVE  OneInsert(Started(log, op))
<1> DEFINE new == Started(log, op)
<1>1. Len(log) \in Nat /\ Len(new) = Len(log) + 1
  BY StartedType
<1>2. (\A i \in 1..Len(log) : new[i].op = log[i].op) /\ new[Len(log) + 1].op = op
  BY StartedType
<1> HIDE DEF new
<1>3. OneInsert(new)
  BY <1>1, <1>2 DEF OneInsert
<1> QED
  BY <1>3 DEF new

LEMMA OneInsertClose ==
  ASSUME RunTyped, NEW b \in Batches, InCall(b), OneInsert(calls[b]),
         NEW st \in {"STARTED", "SUCCESS", "FAILED", "UNKNOWN"}, NEW landed \in BOOLEAN
  PROVE  OneInsert(LastAs(calls[b], st, landed))
<1>1. calls[b] \in Seq(Call) /\ calls[b] # <<>>
  BY DEF RunTyped, CallLogged
<1> DEFINE log == calls[b]
           new == LastAs(log, st, landed)
<1>2. /\ new \in Seq(Call) /\ Len(new) = Len(log)
      /\ \A i \in 1..Len(log) : new[i].op = log[i].op
  BY <1>1, LastAsType
<1> QED
  BY <1>1, <1>2, OneInsertSame

LEMMA OneInsertStep ==
  ASSUME RunTyped, \A c \in Batches : OneInsert(calls[c]), NEW b \in Batches,
         NEW log, OneInsert(log), calls' = [calls EXCEPT ![b] = log]
  PROVE  \A c \in Batches : OneInsert(calls'[c])
BY DEF RunTyped

LEMMA OneInsertCloses ==
  ASSUME RunTyped, \A c \in Batches : OneInsert(calls[c]), NEW b \in Batches,
         InCall(b), NEW landed \in BOOLEAN,
         NEW st \in {"STARTED", "SUCCESS", "FAILED", "UNKNOWN"},
         calls' = Close(b, st, landed)
  PROVE  \A c \in Batches : OneInsert(calls'[c])
BY OneInsertClose, CloseType, OneInsertStep

LEMMA OneInsertNext ==
  ASSUME TypeInv, \A c \in Batches : OneInsert(calls[c]), [Next]_vars
  PROVE  \A c \in Batches : OneInsert(calls'[c])
<1> DEFINE Goal == \A c \in Batches : OneInsert(calls'[c])
<1>0. RunTyped
  BY TypeParts
<1>1. CASE UNCHANGED calls
  BY <1>1
<1>2. CASE ErpUser \/ LockPeriod \/ Unlock \/ UNCHANGED vars
  <2>1. UNCHANGED calls
    BY <1>2 DEF ErpUser, ErpEdits, ErpApproves, ErpPosts, LockPeriod, Unlock, UnlockProbe,
       UnlockTake, UnlockCommit, UnlockVictim, vars
  <2> QED
    BY <1>1, <2>1
<1>3. ASSUME NEW b \in Batches,
             Operator(b) \/ StepFindsDone(b) \/ StepRefused(b) \/ StepVictim(b)
             \/ OracleChecks(b) \/ OracleWrites(b) \/ StepCommit(b) \/ ReconCommit(b)
      PROVE  Goal
  <2>1. UNCHANGED calls
    BY <1>3 DEF Operator, Create, Validate, Reopen, Abandon, StepBegin, StepFindsDone,
       StepRefused, StepVictim, OracleChecks, OracleWrites, StepCommit, ReconCommit
  <2> QED
    BY <1>1, <2>1
<1>4. ASSUME NEW b \in Batches, ReconRead(b) PROVE Goal
  <2>1. calls[b] \in Seq(Call)
    BY <1>0 DEF RunTyped
  <2>2. OneInsert(Settled(b))
    BY <2>1, SettledType, OneInsertSame
  <2>3. calls' = [calls EXCEPT ![b] = Settled(b)]
    BY <1>4 DEF ReconRead
  <2> QED
    BY <1>0, <2>2, <2>3, OneInsertStep
<1>5. ASSUME NEW b \in Batches, StepIssue(b) PROVE Goal
  <2> DEFINE op == run[b].op
  <2>1. calls[b] \in Seq(Call) /\ op \in Ops
    BY <1>0, <1>5 DEF RunTyped, StepOp, InStep, StepIssue
  <2>2. op = "push" => \A i \in 1..Len(calls[b]) : calls[b][i].op # "push"
    BY <1>5 DEF StepIssue, Reprobe, HasAttempt
  <2>3. calls' = [calls EXCEPT ![b] = Started(calls[b], op)]
    BY <1>0, <1>5 DEF StepIssue, RunTyped
  <2> HIDE DEF op
  <2>4. OneInsert(Started(calls[b], op))
    BY <2>1, <2>2, OneInsertStarted
  <2> QED
    BY <1>0, <2>3, <2>4, OneInsertStep
<1>6. ASSUME NEW b \in Batches, OracleAnswers(b) \/ OracleAnswersUnlogged(b) \/ OracleUnknown(b)
      PROVE  Goal
  <2>1. InCall(b)
    BY <1>6 DEF OracleAnswers, OracleAnswersUnlogged, OracleUnknown, Commits, Refuses, InCall
  <2>2. \E st \in {"STARTED", "SUCCESS", "FAILED", "UNKNOWN"}, landed \in BOOLEAN :
          calls' = Close(b, st, landed)
    BY <1>6 DEF OracleAnswers, OracleAnswersUnlogged, OracleUnknown
  <2> QED
    BY <1>0, <2>1, <2>2, OneInsertCloses
<1>7. ASSUME NEW b \in Batches, OracleBusy(b) PROVE Goal
  <2>1. InCall(b) /\ run[b].op \in Ops
    BY <1>0, <1>7 DEF RunTyped, StepOp, InStep, OracleBusy
  <2>2. CASE calls' = Close(b, "FAILED", FALSE)
    BY <1>0, <2>1, <2>2, OneInsertCloses
  <2>3. CASE /\ run[b].op # "push"
             /\ calls' = [calls EXCEPT ![b] = Started(LastAs(@, "FAILED", FALSE), run[b].op)]
    <3> DEFINE log == LastAs(calls[b], "FAILED", FALSE)
    <3>1. log \in Seq(Call) /\ OneInsert(log)
      BY <1>0, <2>1, CloseType, OneInsertClose
    <3> HIDE DEF log
    <3>2. OneInsert(Started(log, run[b].op))
      BY <2>1, <2>3, <3>1, OneInsertStarted
    <3>3. calls' = [calls EXCEPT ![b] = Started(log, run[b].op)]
      BY <1>0, <2>3 DEF RunTyped, log
    <3> QED
      BY <1>0, <3>2, <3>3, OneInsertStep
  <2> QED
    BY <1>7, <2>2, <2>3 DEF OracleBusy
<1>8. ASSUME NEW b \in Batches, Crash(b) PROVE Goal
  <2>1. CASE UNCHANGED calls
    BY <1>1, <2>1
  <2>2. CASE Commits(b) /\ calls' = Close(b, "STARTED", TRUE)
    <3>1. InCall(b)
      BY <2>2 DEF Commits, InCall
    <3> QED
      BY <1>0, <2>2, <3>1, OneInsertCloses
  <2> QED
    BY <1>8, <2>1, <2>2 DEF Crash
<1> QED
  BY <1>2, <1>3, <1>4, <1>5, <1>6, <1>7, <1>8 DEF Next, Advance, Mishap

\* A batch is inserted into Oracle at most once (PushedOnce), whatever crashes, lost answers
\* and reconciliations come in between: a new push needs a new batch.
THEOREM PushesOnce == Spec => []PushedOnce
<1>1. Init => \A c \in Batches : OneInsert(calls[c])
  <2>1. Init => calls = [c \in Batches |-> <<>>]
    BY DEF Init
  <2>2. OneInsert(<<>>)
    BY DEF OneInsert
  <2> QED
    BY <2>1, <2>2
<1>2. TypeInv /\ (\A c \in Batches : OneInsert(calls[c])) /\ [Next]_vars =>
        (\A c \in Batches : OneInsert(calls[c]))'
  BY OneInsertNext
<1>3. (\A c \in Batches : OneInsert(calls[c])) => PushedOnce
  BY DEF OneInsert, PushedOnce
<1> QED
  BY <1>1, <1>2, <1>3, TypeInit, TypeStep, PTL DEF Spec

-----------------------------------------------------------------------------
(* The unlock.  A step that may still call Oracle shares the period lock,  *)
(* so the unlock sees its batch as the step leaves it; and no step before  *)
(* its commit belongs to a flagged batch.                                  *)

ShareInv ==
  /\ \A b \in Batches : SharesPeriod(b) => locked /\ unlocker # "taken"
  /\ unlocker = "taken" => locked
  /\ \A b \in Batches : InStep(b) => ~needsRepush[b]

\* Only what was pushed is ever flagged, and a batch does not go back before its push.
Early == {"none", "new", "validated"}
EarlyUnflagged == \A b \in Batches : status[b] \in Early => ~needsRepush[b]

RepushInv == ShareInv /\ UnlockedMeansRepush /\ EarlyUnflagged

\* What a commit can do to the statuses.
LEMMA CommitStatus ==
  ASSUME TypeInv, NEW b \in Batches, StepCommit(b), NEW c \in Batches
  PROVE  \/ status'[c] = status[c]
         \/ c = b
         \/ status'[c] = "superseded"
<1>1. status \in [Batches -> Statuses]
  BY TypeParts DEF Rest
<1>2. CASE FinishValuate(b)
  BY <1>1, <1>2 DEF FinishValuate
<1>3. CASE FinishPush(b) \/ FinishApprove(b) \/ FinishRestore(b) \/ FinishLock(b) \/ Hold(b)
  BY <1>1, <1>3 DEF FinishPush, FinishApprove, FinishRestore, FinishLock, Hold
<1> QED
  BY <1>2, <1>3 DEF StepCommit

\* The answer touches the step's state, rows and result only.
LEMMA AnsweredFields ==
  ASSUME TypeInv, NEW b \in Batches, NEW res, run' = Answered(b, res)
  PROVE  /\ run'[b].pc = "answered" /\ run'[b].res = res /\ run'[b].op = run[b].op
         /\ \A c \in Batches \ {b} : run'[c] = run[c]
<1>1. run \in [Batches -> Run] /\ run[b] \in Run
  BY TypeParts DEF RunTyped
<1>2. /\ run'[b] = [run[b] EXCEPT !.pc = "answered", !.res = res, !.rows = NoRows]
      /\ \A c \in Batches \ {b} : run'[c] = run[c]
  BY <1>1 DEF Answered
<1> QED
  BY <1>1, <1>2 DEF Run

\* The steps of a call in progress, up to its answer.
CallStep(b) ==
  \/ OracleChecks(b) \/ OracleWrites(b) \/ OracleAnswers(b) \/ OracleAnswersUnlogged(b)
  \/ OracleUnknown(b) \/ OracleBusy(b)

LEMMA CallStepRun ==
  ASSUME TypeInv, NEW b \in Batches, CallStep(b)
  PROVE  /\ InCall(b) /\ run'[b].op = run[b].op
         /\ run'[b].pc \in {"logged", "checked", "written", "answered"}
         /\ \A c \in Batches \ {b} : run'[c] = run[c]
<1>1. run \in [Batches -> Run] /\ run[b] \in Run
  BY TypeParts DEF RunTyped
<1>2. CASE OracleChecks(b) \/ OracleWrites(b)
  BY <1>1, <1>2 DEF OracleChecks, OracleWrites, InCall, Run
<1>3. CASE \E res : run' = Answered(b, res)
  <2>1. InCall(b)
    <3>1. ~OracleChecks(b) /\ ~OracleWrites(b)
      <4>1. run'[b].pc = "answered"
        BY <1>3, AnsweredFields
      <4> QED
        BY <1>1, <4>1 DEF OracleChecks, OracleWrites, Run
    <3> QED
      BY <3>1 DEF CallStep, OracleAnswers, OracleAnswersUnlogged, OracleUnknown, OracleBusy,
         Commits, Refuses, InCall
  <2> QED
    BY <1>3, <2>1, AnsweredFields
<1>4. CASE InCall(b) /\ run' = [run EXCEPT ![b].pc = "logged", ![b].rows = NoRows]
  BY <1>1, <1>4 DEF Run
<1> QED
  BY <1>2, <1>3, <1>4 DEF CallStep, OracleAnswers, OracleAnswersUnlogged, OracleUnknown,
     OracleBusy

LEMMA RunAfter ==
  ASSUME TypeInv, NEW b \in Batches, NEW c \in Batches,
         Advance(b) \/ Mishap(b) \/ ReconRead(b)
  PROVE  /\ c # b => run'[c] = run[c]
         /\ InStep(b)' => InStep(b)
         /\ SharesPeriod(b)' =>
              SharesPeriod(b) \/ (run[b].pc = "row" /\ locked /\ unlocker # "taken")
<1>1. run \in [Batches -> Run]
  BY TypeParts DEF RunTyped
<1>2. CASE StepIssue(b) \/ StepRefused(b) \/ StepVictim(b)
  BY <1>1, <1>2, IdleType DEF StepIssue, StepRefused, StepVictim, InStep, SharesPeriod, InCall
<1>3. CASE StepFindsDone(b)
  BY <1>3, AnsweredFields DEF StepFindsDone, InStep
<1>4. CASE CallStep(b)
  BY <1>4, CallStepRun DEF InStep, SharesPeriod
<1>5. CASE StepCommit(b) \/ ReconCommit(b) \/ Crash(b)
  BY <1>1, <1>5, IdleType DEF StepCommit, ReconCommit, Crash, InStep, SharesPeriod, InCall
<1>6. CASE ReconRead(b)
  BY <1>1, <1>6 DEF ReconRead, Idle, InStep, SharesPeriod, InCall
<1> QED
  BY <1>2, <1>3, <1>4, <1>5, <1>6 DEF Advance, Mishap, CallStep

\* Nothing but the commits and the operator touches the statuses, and nothing but the
\* unlock the flags and the lock.
LEMMA PeriodKept ==
  ASSUME NEW b \in Batches, Advance(b) \/ Mishap(b) \/ ReconRead(b) \/ Operator(b)
  PROVE  UNCHANGED <<locked, unlocker, needsRepush>>
BY DEF Advance, Mishap, Operator, StepIssue, StepFindsDone, StepRefused, StepVictim,
   OracleChecks, OracleWrites, OracleAnswers, StepCommit, ReconCommit, OracleAnswersUnlogged,
   OracleUnknown, OracleBusy, Crash, ReconRead, Create, Validate, Reopen, Abandon, StepBegin,
   pgVars

LEMMA StatusKept ==
  ASSUME NEW b \in Batches, Advance(b) \/ Mishap(b) \/ ReconRead(b),
         ~StepCommit(b), ~ReconCommit(b)
  PROVE  UNCHANGED <<status, adjApproved>>
BY DEF Advance, Mishap, StepIssue, StepFindsDone, StepRefused, StepVictim, OracleChecks,
   OracleWrites, OracleAnswers, OracleAnswersUnlogged, OracleUnknown, OracleBusy, Crash,
   ReconRead, pgVars

LEMMA ShareStep ==
  ASSUME TypeInv, ShareInv, [Next]_vars
  PROVE  ShareInv'
<1>1. run \in [Batches -> Run] /\ needsRepush \in [Batches -> BOOLEAN]
  BY TypeParts DEF RunTyped, Rest
<1>2. CASE ErpUser \/ UNCHANGED vars
  <2>1. UNCHANGED <<run, locked, unlocker, needsRepush>>
    BY <1>2 DEF ErpUser, ErpEdits, ErpApproves, ErpPosts, vars, pgVars
  <2> QED
    BY <2>1 DEF ShareInv, SharesPeriod, InStep, InCall
<1>3. CASE LockPeriod \/ UnlockProbe \/ UnlockTake \/ UnlockVictim
  <2>1. UNCHANGED <<run, needsRepush>>
    BY <1>3 DEF LockPeriod, UnlockProbe, UnlockTake, UnlockVictim, pgVars
  <2> QED
    BY <1>3, <2>1 DEF ShareInv, SharesPeriod, InStep, InCall, LockPeriod, UnlockProbe,
       UnlockTake, UnlockVictim
<1>4. CASE UnlockCommit
  <2>1. \A b \in Batches : ~SharesPeriod(b)
    BY <1>4 DEF ShareInv, UnlockCommit
  <2>2. \A b \in Batches : run[b].pc = "row" => ~needsRepush'[b]
    BY <1>1, <1>4 DEF UnlockCommit, HoldsRow, ShareInv, InStep
  <2>3. UNCHANGED run /\ unlocker' = "idle"
    BY <1>4 DEF UnlockCommit
  <2> QED
    BY <2>1, <2>2, <2>3 DEF ShareInv, SharesPeriod, InStep, InCall
<1>5. ASSUME NEW b \in Batches, Operator(b) PROVE ShareInv'
  <2>1. UNCHANGED <<locked, unlocker, needsRepush>>
    BY <1>5, PeriodKept
  <2>2. CASE UNCHANGED run
    BY <2>1, <2>2 DEF ShareInv, SharesPeriod, InStep, InCall
  <2>3. ASSUME NEW op \in Ops, StepBegin(b, op) PROVE ShareInv'
    <3>1. run' = [run EXCEPT ![b] = [Idle EXCEPT !.pc = "row", !.op = op]] /\ ~needsRepush[b]
      BY <2>3 DEF StepBegin, StepGate
    <3>2. run'[b].pc = "row" /\ \A c \in Batches \ {b} : run'[c] = run[c]
      BY <1>1, <3>1 DEF Idle
    <3> QED
      BY <2>1, <3>1, <3>2 DEF ShareInv, SharesPeriod, InStep, InCall
  <2> QED
    BY <1>5, <2>2, <2>3 DEF Operator, Create, Validate, Reopen, Abandon
<1>6. ASSUME NEW b \in Batches, Advance(b) \/ Mishap(b) \/ ReconRead(b) PROVE ShareInv'
  <2>1. UNCHANGED <<locked, unlocker, needsRepush>>
    BY <1>6, PeriodKept
  <2>2. \A c \in Batches :
          /\ c # b => run'[c] = run[c]
          /\ InStep(b)' => InStep(b)
          /\ SharesPeriod(b)' =>
               SharesPeriod(b) \/ (run[b].pc = "row" /\ locked /\ unlocker # "taken")
    BY <1>6, RunAfter
  <2> QED
    BY <2>1, <2>2 DEF ShareInv, SharesPeriod, InStep, InCall
<1> QED
  BY <1>2, <1>3, <1>4, <1>5, <1>6 DEF Next, Unlock

\* A comparison moves a batch between VALUATED and RECONCILED only, and not a flagged one.
LEMMA ReconStatus ==
  ASSUME TypeInv, NEW b \in Batches, ReconCommit(b), NEW c \in Batches
  PROVE  \/ status'[c] = status[c]
         \/ /\ c = b /\ ~needsRepush[b]
            /\ status[b] \in {"valuated", "reconciled"}
            /\ status'[b] \in {"valuated", "reconciled"}
<1>1. status \in [Batches -> Statuses]
  BY TypeParts DEF Rest
<1>2. CASE status' = status
  BY <1>2
<1>3. CASE /\ ReconTo(b) # status[b] /\ Allowed(b, ReconTo(b))
           /\ status' = [status EXCEPT ![b] = ReconTo(b)]
  <2>1. status[b] \in {"valuated", "reconciled"} /\ ReconTo(b) \in {"valuated", "reconciled"}
    BY <1>3 DEF ReconTo
  <2>2. needsRepush[b] => ReconTo(b) \notin Active
    BY <1>3 DEF Allowed
  <2> QED
    BY <1>1, <1>3, <2>1, <2>2 DEF Active
<1> QED
  BY <1>2, <1>3 DEF ReconCommit

\* What the operator does moves a batch before its push, or to FAILED.
LEMMA OperatorStatus ==
  ASSUME TypeInv, NEW b \in Batches, Operator(b), NEW c \in Batches
  PROVE  \/ status'[c] = status[c]
         \/ c = b /\ status[b] \in Early /\ status'[b] \in {"new", "validated"}
         \/ c = b /\ run[b].pc = "idle" /\ status'[b] = "failed"
<1>1. status \in [Batches -> Statuses]
  BY TypeParts DEF Rest
<1>2. CASE Create(b) \/ Validate(b) \/ Reopen(b)
  BY <1>1, <1>2 DEF Create, Validate, Reopen, Early
<1>3. CASE Abandon(b)
  BY <1>1, <1>3 DEF Abandon
<1>4. ASSUME NEW op \in Ops, StepBegin(b, op) PROVE UNCHANGED status
  BY <1>4 DEF StepBegin, pgVars
<1> QED
  BY <1>2, <1>3, <1>4 DEF Operator

LEMMA CommitOwnStatus ==
  ASSUME TypeInv, NEW b \in Batches, StepCommit(b)
  PROVE  status'[b] = status[b] \/ status'[b] \in {"pushed", "failed", "valuated", "locked"}
<1>1. status \in [Batches -> Statuses]
  BY TypeParts DEF Rest
<1> QED
  BY <1>1 DEF StepCommit, FinishPush, FinishValuate, FinishApprove, FinishRestore,
     FinishLock, Hold

LEMMA RepushStep ==
  ASSUME TypeInv, RepushInv, [Next]_vars
  PROVE  RepushInv'
<1>1. ShareInv'
  BY ShareStep DEF RepushInv
<1>2. CASE ErpUser \/ UNCHANGED vars
  <2>1. UNCHANGED <<status, locked, needsRepush>>
    BY <1>2 DEF ErpUser, ErpEdits, ErpApproves, ErpPosts, vars, pgVars
  <2> QED
    BY <1>1, <2>1 DEF RepushInv, UnlockedMeansRepush, EarlyUnflagged
<1>3. CASE LockPeriod \/ UnlockProbe \/ UnlockTake \/ UnlockVictim
  <2>1. UNCHANGED <<status, needsRepush>> /\ (locked' = locked \/ locked')
    BY <1>3 DEF LockPeriod, UnlockProbe, UnlockTake, UnlockVictim, pgVars
  <2> QED
    BY <1>1, <2>1 DEF RepushInv, UnlockedMeansRepush, EarlyUnflagged
<1>4. CASE UnlockCommit
  <2>1. needsRepush' = [b \in Batches |-> needsRepush[b] \/ b \in ToFlag] /\ UNCHANGED status
    BY <1>4 DEF UnlockCommit
  <2>2. \A b \in Batches : status[b] \in Flaggable => needsRepush'[b]
    BY <2>1 DEF ToFlag
  <2>3. \A b \in Batches : status[b] \in Early => ~needsRepush'[b]
    BY <2>1 DEF ToFlag, Flaggable, Early, RepushInv, EarlyUnflagged
  <2> QED
    BY <1>1, <2>1, <2>2, <2>3 DEF RepushInv, UnlockedMeansRepush, EarlyUnflagged
<1>5. ASSUME NEW b \in Batches, Operator(b) PROVE RepushInv'
  <2>1. UNCHANGED <<locked, needsRepush>>
    BY <1>5, PeriodKept
  <2>2. \A c \in Batches : \/ status'[c] = status[c]
                           \/ status[c] \in Early /\ status'[c] \in {"new", "validated"}
                           \/ status'[c] = "failed"
    BY <1>5, OperatorStatus
  <2> QED
    BY <1>1, <2>1, <2>2 DEF RepushInv, UnlockedMeansRepush, EarlyUnflagged, Early, Flaggable
<1>6. ASSUME NEW b \in Batches, StepCommit(b) PROVE RepushInv'
  <2>1. UNCHANGED <<locked, needsRepush>>
    BY <1>6, PeriodKept DEF Advance
  <2>2. locked /\ ~needsRepush[b]
    BY <1>6 DEF StepCommit, RepushInv, ShareInv, SharesPeriod, InStep
  <2>3. \A c \in Batches : status'[c] = status[c] \/ c = b \/ status'[c] = "superseded"
    BY <1>6, CommitStatus
  <2>4. EarlyUnflagged'
    BY <2>1, <2>2, <2>3 DEF RepushInv, EarlyUnflagged, Early
  <2>5. UnlockedMeansRepush'
    BY <2>1, <2>2 DEF UnlockedMeansRepush
  <2> QED
    BY <1>1, <2>4, <2>5 DEF RepushInv
<1>7. ASSUME NEW b \in Batches, ReconCommit(b) PROVE RepushInv'
  <2>1. UNCHANGED <<locked, needsRepush>>
    BY <1>7, PeriodKept DEF Advance
  <2>2. \A c \in Batches : \/ status'[c] = status[c]
                           \/ /\ status[c] \in {"valuated", "reconciled"}
                              /\ status'[c] \in {"valuated", "reconciled"}
    BY <1>7, ReconStatus
  <2> QED
    BY <1>1, <2>1, <2>2 DEF RepushInv, UnlockedMeansRepush, EarlyUnflagged, Early, Flaggable
<1>8. ASSUME NEW b \in Batches, Advance(b) \/ Mishap(b) \/ ReconRead(b),
             ~StepCommit(b), ~ReconCommit(b)
      PROVE  RepushInv'
  <2>1. UNCHANGED <<status, locked, needsRepush>>
    BY <1>8, PeriodKept, StatusKept
  <2> QED
    BY <1>1, <2>1 DEF RepushInv, UnlockedMeansRepush, EarlyUnflagged
<1> QED
  BY <1>2, <1>3, <1>4, <1>5, <1>6, <1>7, <1>8 DEF Next, Unlock, Advance

LEMMA RepushInit == Init => RepushInv
<1> SUFFICES ASSUME Init PROVE RepushInv
  OBVIOUS
<1>1. \A b \in Batches : run[b].pc = "idle" /\ status[b] = "none" /\ needsRepush[b] = FALSE
  BY DEF Init, Idle
<1>2. unlocker = "idle" /\ locked = FALSE
  BY DEF Init
<1> QED
  BY <1>1, <1>2 DEF RepushInv, ShareInv, SharesPeriod, InStep, InCall, UnlockedMeansRepush,
     EarlyUnflagged, Flaggable

\* While the period is not locked, every batch that was pushed under an earlier lock is
\* flagged for a new push (UnlockedMeansRepush), the batches of steps that were waiting for
\* Oracle when the unlock came included.
THEOREM UnlockFlags == Spec => []UnlockedMeansRepush
<1>1. RepushInv => UnlockedMeansRepush
  BY DEF RepushInv
<1>2. TypeInv /\ RepushInv /\ [Next]_vars => RepushInv'
  BY RepushStep
<1> QED
  BY <1>1, <1>2, TypeInit, TypeStep, RepushInit, PTL DEF Spec

-----------------------------------------------------------------------------
(* The ERP's side.  Oracle changes its headers and adjustments only as the *)
(* effect of a call in progress, or by the hand of the ERP's own users.    *)

LEMMA OracleKept ==
  ASSUME [Next]_vars,
         ~(\E b \in Batches : OracleAnswers(b) \/ OracleAnswersUnlogged(b) \/ OracleUnknown(b)
                              \/ Crash(b))
  PROVE  UNCHANGED header /\ (ErpUser \/ UNCHANGED adj)
<1>1. CASE ErpUser
  BY <1>1 DEF ErpUser, ErpEdits, ErpApproves, ErpPosts
<1>2. CASE LockPeriod \/ Unlock \/ UNCHANGED vars
  BY <1>2 DEF LockPeriod, Unlock, UnlockProbe, UnlockTake, UnlockCommit, UnlockVictim, vars,
     oracleVars
<1>3. ASSUME NEW b \in Batches, Operator(b) \/ ReconRead(b)
      PROVE  UNCHANGED <<header, adj>>
  BY <1>3 DEF Operator, Create, Validate, Reopen, Abandon, StepBegin, ReconRead, oracleVars
<1>4. ASSUME NEW b \in Batches, Advance(b) \/ OracleBusy(b), ~OracleAnswers(b)
      PROVE  UNCHANGED <<header, adj>>
  BY <1>4 DEF Advance, StepIssue, StepFindsDone, StepRefused, StepVictim, OracleChecks,
     OracleWrites, StepCommit, ReconCommit, OracleBusy, oracleVars
<1> QED
  BY <1>1, <1>2, <1>3, <1>4 DEF Next, Mishap

\* A call's step leaves Oracle alone or commits.
LEMMA CallEffect ==
  ASSUME TypeInv, NEW b \in Batches,
         OracleAnswers(b) \/ OracleAnswersUnlogged(b) \/ OracleUnknown(b) \/ Crash(b)
  PROVE  \/ UNCHANGED oracleVars
         \/ Commits(b) /\ run[b].op \in Ops
<1>1. Commits(b) => run[b].op \in Ops
  BY TypeParts DEF RunTyped, StepOp, InStep, InCall, Commits
<1> QED
  BY <1>1 DEF OracleAnswers, OracleAnswersUnlogged, OracleUnknown, Crash, Refuses, oracleVars

\* One call changes the header of its own batch; it retires others at most.
LEMMA OthersHeader ==
  ASSUME TypeInv, NEW b \in Batches, NEW op \in Ops, Effect(b, op),
         NEW c \in Batches \ {b}
  PROVE  header'[c] \in {header[c], "superseded"}
<1>1. header \in [Batches -> HeaderStatuses]
  BY TypeParts DEF OracleTyped
<1> QED
  BY <1>1 DEF Effect, Ops, InsertBatch, ValuateAdj, ApproveAdj, RestoreAdj, LockHeader

LEMMA ErpStamps ==
  ASSUME TypeInv, ErpUser, NEW h \in Heads
  PROVE  adj'[h].stamp = adj[h].stamp
<1>1. adj \in [Heads -> Adjustment]
  BY TypeParts DEF OracleTyped
<1>2. PICK k \in Heads : ErpEdits(k) \/ ErpApproves(k) \/ ErpPosts(k)
  BY DEF ErpUser
<1>3. CASE h = k
  <2>1. adj[h] \in Adjustment
    BY <1>1
  <2>2. \/ adj'[h] = [adj[h] EXCEPT !.val = None]
        \/ adj'[h] = [adj[h] EXCEPT !.state = "approved"]
        \/ adj'[h] = [adj[h] EXCEPT !.state = "posted"]
    BY <1>1, <1>2, <1>3 DEF ErpEdits, ErpApproves, ErpPosts
  <2> QED
    BY <2>1, <2>2 DEF Adjustment
<1>4. CASE h # k
  BY <1>1, <1>2, <1>4 DEF ErpEdits, ErpApproves, ErpPosts
<1> QED
  BY <1>3, <1>4

\* A batch flagged for a new push is never advanced, neither here nor in Oracle
\* (RepushNeverAdvances): no step of it is past its gate when the flag is set, and none
\* begins afterwards.
THEOREM FlaggedStays == Spec => RepushNeverAdvances
<1> DEFINE Stays == \A b \in Batches : needsRepush[b] =>
                      /\ status'[b] \in {status[b], "failed", "superseded"}
                      /\ header'[b] \in {header[b], "superseded"}
<1>1. TypeInv /\ RepushInv /\ [Next]_vars => Stays
  <2> SUFFICES ASSUME TypeInv, RepushInv, [Next]_vars, NEW b \in Batches, needsRepush[b]
               PROVE  /\ status'[b] \in {status[b], "failed", "superseded"}
                      /\ header'[b] \in {header[b], "superseded"}
    OBVIOUS
  <2>0. ~InStep(b) /\ status[b] \notin Early
    BY DEF RepushInv, ShareInv, EarlyUnflagged
  <2>1. header'[b] \in {header[b], "superseded"}
    <3>1. ASSUME NEW c \in Batches,
                 OracleAnswers(c) \/ OracleAnswersUnlogged(c) \/ OracleUnknown(c) \/ Crash(c)
          PROVE  header'[b] \in {header[b], "superseded"}
      <4>1. CASE UNCHANGED oracleVars
        BY <4>1 DEF oracleVars
      <4>2. CASE Commits(c) /\ run[c].op \in Ops
        <5>1. c # b
          BY <2>0, <4>2 DEF Commits, InStep, InCall
        <5> QED
          BY <4>2, <5>1, OthersHeader DEF Commits
      <4> QED
        BY <3>1, <4>1, <4>2, CallEffect
    <3> QED
      BY <3>1, OracleKept
  <2>2. status'[b] \in {status[b], "failed", "superseded"}
    <3>1. CASE ErpUser \/ LockPeriod \/ Unlock \/ UNCHANGED vars
      BY <3>1 DEF ErpUser, ErpEdits, ErpApproves, ErpPosts, LockPeriod, Unlock, UnlockProbe,
         UnlockTake, UnlockCommit, UnlockVictim, vars, pgVars
    <3>2. ASSUME NEW c \in Batches, Operator(c) PROVE status'[b] \in {status[b], "failed"}
      BY <2>0, <3>2, OperatorStatus
    <3>3. ASSUME NEW c \in Batches, StepCommit(c)
          PROVE  status'[b] \in {status[b], "superseded"}
      <4>1. run[c].pc = "answered"
        BY <3>3 DEF StepCommit
      <4> QED
        BY <2>0, <3>3, <4>1, CommitStatus DEF InStep
    <3>4. ASSUME NEW c \in Batches, ReconCommit(c) PROVE status'[b] = status[b]
      BY <3>4, ReconStatus
    <3>5. ASSUME NEW c \in Batches, Advance(c) \/ Mishap(c) \/ ReconRead(c),
                 ~StepCommit(c), ~ReconCommit(c)
          PROVE  UNCHANGED status
      BY <3>5, StatusKept
    <3> QED
      BY <3>1, <3>2, <3>3, <3>4, <3>5 DEF Next
  <2> QED
    BY <2>1, <2>2
<1>2. TypeInv /\ RepushInv /\ [Next]_vars => [Stays]_vars
  BY <1>1
<1>3. TypeInv /\ RepushInv /\ [Next]_vars => RepushInv'
  BY RepushStep
<1>4. RepushNeverAdvances <=> [][Stays]_vars
  BY DEF RepushNeverAdvances
<1> HIDE DEF Stays
<1> QED
  BY <1>2, <1>3, <1>4, TypeInit, TypeStep, RepushInit, PTL DEF Spec

-----------------------------------------------------------------------------
(* One active batch.  The valuation retires the other active batch in its  *)
(* own transaction; a lock makes no batch active that was not, because the *)
(* batch it was begun on cannot be retired while the step holds the turn.  *)

Solo == \A b, c \in Batches : HoldsRow(b) /\ HoldsRow(c) => b = c
LockFrom ==
  \A b \in Batches : InStep(b) /\ run[b].op = "lock" => status[b] = "reconciled"

ActiveInv == Solo /\ LockFrom /\ OneActive

\* A step in progress keeps its operation.
LEMMA OpAfter ==
  ASSUME TypeInv, NEW b \in Batches, Advance(b) \/ Mishap(b) \/ ReconRead(b)
  PROVE  /\ InStep(b)' => InStep(b) /\ run'[b].op = run[b].op
         /\ HoldsRow(b)' => HoldsRow(b) \/ (ReconRead(b) /\ NoStep)
<1>1. run \in [Batches -> Run]
  BY TypeParts DEF RunTyped
<1>2. CASE StepIssue(b) \/ StepRefused(b) \/ StepVictim(b)
  BY <1>1, <1>2, IdleType DEF StepIssue, StepRefused, StepVictim, HoldsRow, Run, InStep, InCall
<1>3. CASE StepFindsDone(b)
  BY <1>3, AnsweredFields DEF StepFindsDone, HoldsRow, InStep
<1>4. CASE CallStep(b)
  BY <1>4, CallStepRun DEF HoldsRow, InStep, InCall
<1>5. CASE StepCommit(b) \/ ReconCommit(b) \/ Crash(b)
  BY <1>1, <1>5, IdleType DEF StepCommit, ReconCommit, Crash, HoldsRow, InStep, InCall
<1>6. CASE ReconRead(b)
  BY <1>1, <1>6 DEF ReconRead, Idle, InStep, InCall
<1> QED
  BY <1>2, <1>3, <1>4, <1>5, <1>6 DEF Advance, Mishap, CallStep

LEMMA CommitActive ==
  ASSUME TypeInv, ActiveInv, NEW b \in Batches, StepCommit(b)
  PROVE  OneActive'
<1>1. status \in [Batches -> Statuses] /\ run[b].pc = "answered"
  BY TypeParts DEF Rest, StepCommit
<1>2. CASE FinishPush(b)
  BY <1>1, <1>2 DEF FinishPush, ActiveInv, OneActive, Active
<1>3. CASE FinishValuate(b)
  BY <1>1, <1>3 DEF FinishValuate, ActiveInv, OneActive, Active, Prior
<1>4. CASE FinishApprove(b) \/ Hold(b)
  BY <1>1, <1>4 DEF FinishApprove, Hold, ActiveInv, OneActive
<1>5. CASE FinishRestore(b)
  BY <1>1, <1>5 DEF FinishRestore, ActiveInv, OneActive, Active
<1>6. CASE FinishLock(b)
  <2>1. status[b] = "reconciled"
    BY <1>1, <1>6 DEF FinishLock, ActiveInv, LockFrom, InStep
  <2> QED
    BY <1>1, <1>6, <2>1 DEF FinishLock, ActiveInv, OneActive, Active
<1> QED
  BY <1>2, <1>3, <1>4, <1>5, <1>6 DEF StepCommit

LEMMA ActiveStep ==
  ASSUME TypeInv, ActiveInv, [Next]_vars
  PROVE  ActiveInv'
<1>1. run \in [Batches -> Run] /\ status \in [Batches -> Statuses]
  BY TypeParts DEF RunTyped, Rest
<1>2. CASE ErpUser \/ LockPeriod \/ Unlock \/ UNCHANGED vars
  <2>1. UNCHANGED <<run, status>>
    BY <1>2 DEF ErpUser, ErpEdits, ErpApproves, ErpPosts, LockPeriod, Unlock, UnlockProbe,
       UnlockTake, UnlockCommit, UnlockVictim, vars, pgVars
  <2> QED
    BY <2>1 DEF ActiveInv, Solo, HoldsRow, LockFrom, OneActive, InStep, InCall
<1>3. ASSUME NEW b \in Batches, Operator(b) PROVE ActiveInv'
  <2>1. OneActive'
    <3>1. \A c \in Batches : status'[c] = status[c] \/ status'[c] \notin Active
      BY <1>3, OperatorStatus DEF Active
    <3> QED
      BY <3>1 DEF ActiveInv, OneActive
  <2>2. CASE Create(b) \/ Validate(b) \/ Reopen(b) \/ Abandon(b)
    <3>1. UNCHANGED run
      BY <2>2 DEF Create, Validate, Reopen, Abandon
    <3>2. \A c \in Batches : run[c].pc # "idle" /\ status[c] = "reconciled" =>
            status'[c] = "reconciled"
      BY <1>3, OperatorStatus DEF Early
    <3> QED
      BY <2>1, <3>1, <3>2 DEF ActiveInv, Solo, HoldsRow, LockFrom, InStep, InCall
  <2>3. ASSUME NEW op \in Ops, StepBegin(b, op) PROVE ActiveInv'
    <3>1. run' = [run EXCEPT ![b] = [Idle EXCEPT !.pc = "row", !.op = op]] /\ UNCHANGED status
      BY <2>3 DEF StepBegin, pgVars
    <3>2. run'[b].op = op /\ \A c \in Batches \ {b} : run'[c] = run[c]
      BY <1>1, <3>1 DEF Idle
    <3>3. \A c \in Batches : run[c].pc = "idle"
      BY <2>3 DEF StepBegin, NoStep, HoldsRow
    <3>4. op = "lock" => status[b] = "reconciled"
      BY <2>3 DEF StepBegin, StepGate
    <3> QED
      BY <2>1, <3>1, <3>2, <3>3, <3>4 DEF ActiveInv, Solo, HoldsRow, LockFrom, InStep, InCall
  <2> QED
    BY <1>3, <2>2, <2>3 DEF Operator
<1>4. ASSUME NEW b \in Batches, Advance(b) \/ Mishap(b) \/ ReconRead(b) PROVE ActiveInv'
  <2>1. \A c \in Batches \ {b} : run'[c] = run[c]
    BY <1>4, RunAfter
  <2>2. /\ InStep(b)' => InStep(b) /\ run'[b].op = run[b].op
        /\ HoldsRow(b)' => HoldsRow(b) \/ (ReconRead(b) /\ NoStep)
    BY <1>4, OpAfter
  <2>3. Solo'
    BY <2>1, <2>2 DEF ActiveInv, Solo, HoldsRow, NoStep
  <2>4. LockFrom' /\ OneActive'
    <3>1. CASE StepCommit(b)
      <4>1. run'[b] = Idle /\ HoldsRow(b)
        BY <1>1, <3>1 DEF StepCommit, HoldsRow
      <4>2. \A c \in Batches : run'[c].pc = "idle"
        BY <2>1, <4>1, IdleType DEF ActiveInv, Solo, HoldsRow
      <4> QED
        BY <3>1, <4>2, CommitActive DEF LockFrom, InStep, InCall
    <3>2. CASE ReconCommit(b)
      <4>1. run'[b] = Idle /\ HoldsRow(b)
        BY <1>1, <3>2 DEF ReconCommit, HoldsRow
      <4>2. \A c \in Batches : run'[c].pc = "idle"
        BY <2>1, <4>1, IdleType DEF ActiveInv, Solo, HoldsRow
      <4>3. \A c \in Batches : status'[c] \in Active => status[c] \in Active
        BY <3>2, ReconStatus DEF Active
      <4> QED
        BY <4>2, <4>3 DEF LockFrom, ActiveInv, OneActive, InStep, InCall
    <3>3. CASE ~StepCommit(b) /\ ~ReconCommit(b)
      <4>1. UNCHANGED status
        BY <1>4, <3>3, StatusKept
      <4> QED
        BY <2>1, <2>2, <4>1 DEF LockFrom, ActiveInv, OneActive, InStep, InCall
    <3> QED
      BY <3>1, <3>2, <3>3
  <2> QED
    BY <2>3, <2>4 DEF ActiveInv
<1> QED
  BY <1>2, <1>3, <1>4 DEF Next

LEMMA ActiveInit == Init => ActiveInv
<1> SUFFICES ASSUME Init PROVE ActiveInv
  OBVIOUS
<1>1. \A b \in Batches : run[b].pc = "idle" /\ status[b] = "none"
  BY DEF Init, Idle
<1> QED
  BY <1>1 DEF ActiveInv, Solo, HoldsRow, LockFrom, OneActive, Active, InStep, InCall

\* At most one batch of the period is active (OneActive), across lost answers, crashes and
\* the locks, valuations and reconciliations of any number of batches.
THEOREM AtMostOneActive == Spec => []OneActive
<1>1. TypeInv /\ ActiveInv /\ [Next]_vars => ActiveInv'
  BY ActiveStep
<1>2. ActiveInv => OneActive
  BY DEF ActiveInv
<1> QED
  BY <1>1, <1>2, TypeInit, TypeStep, ActiveInit, PTL DEF Spec

-----------------------------------------------------------------------------
(* A call between its check and its COMMIT.  No other call is under way,   *)
(* so its own header and the stamps stay as it has found them; a posting   *)
(* may come, and then this call is the only one that changes adjustments   *)
(* after it.                                                               *)

Past(b) == run[b].pc \in {"checked", "written"}

\* What the check has seen and nothing takes back.
Checked(b) ==
  /\ HeaderFits(b, run[b].op)
  /\ run[b].op = "lock" => Posted
  /\ run[b].op \in AdjOps => \A c \in Batches : header[c] # "locked"

\* The rows selected are those of the open heads; the heads only leave that state.
Written(b) ==
  /\ run[b].op = "valuate" =>
       /\ Eligible \subseteq Selected(b)
       /\ \A h \in Selected(b) : run[b].rows[h].stamp = adj[h].stamp
  /\ run[b].op = "approve" => Selected(b) \subseteq Eligible

CheckedInv ==
  /\ \A b \in Batches : header[b] = "locked" => Posted
  /\ \A b \in Batches : Past(b) => Checked(b)
  /\ \A b \in Batches : run[b].pc = "written" => Written(b)

LEMMA ErpOpen ==
  ASSUME TypeInv, ErpUser, NEW h \in Heads
  PROVE  /\ adj'[h].state = "open" => adj[h].state = "open"
         /\ adj[h].state = "posted" => adj'[h].state = "posted"
         /\ adj[h].state = "open" =>
              adj'[h].state = "open" \/ \A b \in Batches : ~HoldsHead(b, h)
<1>1. adj \in [Heads -> Adjustment]
  BY TypeParts DEF OracleTyped
<1>2. PICK k \in Heads : ErpEdits(k) \/ ErpApproves(k) \/ ErpPosts(k)
  BY DEF ErpUser
<1>3. CASE h = k
  <2>1. adj[h] \in Adjustment
    BY <1>1
  <2>2. \/ adj[h].state = "open" /\ adj'[h] = [adj[h] EXCEPT !.val = None]
        \/ /\ adj[h].state = "open" /\ adj'[h] = [adj[h] EXCEPT !.state = "approved"]
           /\ \A b \in Batches : ~HoldsHead(b, h)
        \/ adj[h].state = "approved" /\ adj'[h] = [adj[h] EXCEPT !.state = "posted"]
    BY <1>1, <1>2, <1>3 DEF ErpEdits, ErpApproves, ErpPosts
  <2> QED
    BY <2>1, <2>2 DEF Adjustment
<1>4. CASE h # k
  BY <1>1, <1>2, <1>4 DEF ErpEdits, ErpApproves, ErpPosts
<1> QED
  BY <1>3, <1>4

\* The check, and the statement that selects.
LEMMA ChecksPast ==
  ASSUME TypeInv, CheckedInv, NEW b \in Batches, OracleChecks(b)
  PROVE  run'[b].pc = "checked" /\ Checked(b)'
<1>1. run \in [Batches -> Run] /\ run[b] \in Run
  BY TypeParts DEF RunTyped
<1>2. run'[b].pc = "checked" /\ run'[b].op = run[b].op /\ UNCHANGED <<header, adj>>
  BY <1>1 DEF OracleChecks, Run, oracleVars
<1>3. Accepts(b, run[b].op)
  BY DEF OracleChecks
<1> QED
  BY <1>2, <1>3 DEF Checked, Accepts, HeaderFits, Posted, CheckedInv

LEMMA WritesRows ==
  ASSUME TypeInv, CheckedInv, NEW b \in Batches, OracleWrites(b)
  PROVE  run'[b].pc = "written" /\ Checked(b)' /\ Written(b)'
<1>1. run \in [Batches -> Run] /\ run[b] \in Run /\ adj \in [Heads -> Adjustment]
  BY TypeParts DEF RunTyped, OracleTyped
<1>2. /\ run'[b].pc = "written" /\ run'[b].op = run[b].op /\ UNCHANGED <<header, adj>>
      /\ run'[b].rows = CASE run[b].op = "valuate" -> OldRows(Eligible)
                          [] run[b].op = "approve" -> OldRows(Eligible \cap StampedBy(b))
                          [] OTHER -> NoRows
  BY <1>1 DEF OracleWrites, Run, oracleVars
<1>3. Checked(b)'
  <2>1. Checked(b)
    BY DEF OracleWrites, CheckedInv, Past
  <2> QED
    BY <1>2, <2>1 DEF Checked, HeaderFits, Posted
<1>4. ASSUME NEW hs, NEW h \in Heads
      PROVE  /\ OldRows(hs)[h] # NotLogged <=> h \in hs
             /\ h \in hs => OldRows(hs)[h].stamp = adj[h].stamp
  <2> DEFINE row == [stamp |-> adj[h].stamp, val |-> adj[h].val]
  <2>1. row.stamp = adj[h].stamp /\ adj[h].stamp \in 0..NumBatches
    BY <1>1 DEF Adjustment
  <2>2. NotLogged.stamp = NumBatches + 1 /\ NumBatches \in Nat
    BY BoundsAssumption DEF NotLogged
  <2>3. row # NotLogged
    <3> HIDE DEF row
    <3> QED
      BY <2>1, <2>2
  <2>4. OldRows(hs)[h] = IF h \in hs THEN row ELSE NotLogged
    BY DEF OldRows
  <2> HIDE DEF row
  <2> QED
    BY <2>1, <2>3, <2>4
<1>5. Eligible' = Eligible
  BY <1>2 DEF Eligible
<1>6. CASE run[b].op = "valuate"
  <2>1. run'[b].rows = OldRows(Eligible)
    BY <1>2, <1>6
  <2>2. Selected(b)' = Eligible
    BY <1>4, <2>1 DEF Selected, Eligible
  <2>3. \A h \in Eligible : h \in Heads
    BY DEF Eligible
  <2>4. Written(b)'
    BY <1>2, <1>4, <1>5, <1>6, <2>1, <2>2, <2>3 DEF Written
  <2> QED
    BY <1>2, <1>3, <2>4
<1>7. CASE run[b].op = "approve"
  <2>1. run'[b].rows = OldRows(Eligible \cap StampedBy(b))
    BY <1>2, <1>7
  <2>2. Selected(b)' \subseteq Eligible
    BY <1>4, <2>1 DEF Selected
  <2>3. Written(b)'
    BY <1>2, <1>5, <1>7, <2>2 DEF Written
  <2> QED
    BY <1>2, <1>3, <2>3
<1>8. CASE run[b].op \notin {"valuate", "approve"}
  BY <1>2, <1>3, <1>8 DEF Written
<1> QED
  BY <1>6, <1>7, <1>8

\* A posting is not undone: an approval changes heads that are open, and holds them.
LEMMA CommitPosted ==
  ASSUME TypeInv, CheckedInv, NEW b \in Batches, Commits(b), run[b].op \in Ops,
         NEW h \in Heads, adj[h].state = "posted"
  PROVE  adj'[h].state = "posted"
<1>1. adj \in [Heads -> Adjustment] /\ adj[h] \in Adjustment
  BY TypeParts DEF OracleTyped
<1>2. Effect(b, run[b].op) /\ Written(b)
  BY DEF Commits, CheckedInv
<1>3. CASE run[b].op \in {"push", "lock"}
  BY <1>2, <1>3 DEF Effect, InsertBatch, LockHeader
<1>4. CASE run[b].op = "valuate"
  <2>1. adj'[h] = adj[h] \/ adj'[h] = [adj[h] EXCEPT !.stamp = b, !.val = b]
    BY <1>2, <1>4 DEF Effect, ValuateAdj
  <2> QED
    BY <1>1, <2>1 DEF Adjustment
<1>5. CASE run[b].op = "approve"
  <2>1. h \notin Selected(b)
    BY <1>2, <1>5 DEF Written, Eligible
  <2> QED
    BY <1>2, <1>5, <2>1 DEF Effect, ApproveAdj
<1>6. CASE run[b].op = "restore"
  <2> DEFINE back == [adj[h] EXCEPT !.stamp = adjLog[b][h].stamp, !.val = adjLog[b][h].val]
  <2>1. adj'[h] = adj[h] \/ adj'[h] = back
    BY <1>2, <1>6 DEF Effect, RestoreAdj
  <2>2. back.state = adj[h].state
    BY <1>1 DEF Adjustment
  <2> HIDE DEF back
  <2> QED
    BY <2>1, <2>2
<1> QED
  BY <1>3, <1>4, <1>5, <1>6 DEF Ops

LEMMA PostedStays ==
  ASSUME TypeInv, CheckedInv, [Next]_vars, Posted
  PROVE  Posted'
<1>1. CASE ErpUser
  BY <1>1, ErpOpen DEF Posted
<1>2. CASE UNCHANGED adj
  BY <1>2 DEF Posted
<1>3. ASSUME NEW b \in Batches,
             OracleAnswers(b) \/ OracleAnswersUnlogged(b) \/ OracleUnknown(b) \/ Crash(b)
      PROVE  Posted'
  <2>1. CASE UNCHANGED oracleVars
    BY <1>2, <2>1 DEF oracleVars
  <2>2. CASE Commits(b) /\ run[b].op \in Ops
    BY <2>2, CommitPosted DEF Posted
  <2> QED
    BY <1>3, <2>1, <2>2, CallEffect
<1> QED
  BY <1>1, <1>2, <1>3, OracleKept

\* Nothing but a COMMIT touches a header, a stamp or the count of late calls, and a COMMIT
\* ends its call.
LEMMA CommitEnds ==
  ASSUME TypeInv, NEW b \in Batches,
         OracleAnswers(b) \/ OracleAnswersUnlogged(b) \/ OracleUnknown(b) \/ Crash(b)
  PROVE  run'[b].pc \in {"answered", "idle"} /\ ~InCall(b)'
<1>1. run \in [Batches -> Run]
  BY TypeParts DEF RunTyped
<1>2. (\E res : run' = Answered(b, res)) \/ run' = [run EXCEPT ![b] = Idle]
  BY DEF OracleAnswers, OracleAnswersUnlogged, OracleUnknown, Crash
<1>3. run'[b].pc \in {"answered", "idle"}
  BY <1>1, <1>2, IdleType, AnsweredFields
<1> QED
  BY <1>3 DEF InCall

LEMMA LateKept ==
  ASSUME [Next]_vars,
         ~(\E b \in Batches : OracleAnswers(b) \/ OracleAnswersUnlogged(b) \/ OracleUnknown(b)
                              \/ Crash(b))
  PROVE  UNCHANGED late
<1>1. CASE ErpUser \/ LockPeriod \/ Unlock \/ UNCHANGED vars
  BY <1>1 DEF ErpUser, ErpEdits, ErpApproves, ErpPosts, LockPeriod, Unlock, UnlockProbe,
     UnlockTake, UnlockCommit, UnlockVictim, vars, oracleVars
<1>2. ASSUME NEW b \in Batches, Operator(b) \/ ReconRead(b)
      PROVE  UNCHANGED late
  BY <1>2 DEF Operator, Create, Validate, Reopen, Abandon, StepBegin, ReconRead, oracleVars
<1>3. ASSUME NEW b \in Batches, Advance(b) \/ OracleBusy(b), ~OracleAnswers(b)
      PROVE  UNCHANGED late
  BY <1>3 DEF Advance, StepIssue, StepFindsDone, StepRefused, StepVictim, OracleChecks,
     OracleWrites, StepCommit, ReconCommit, OracleBusy, oracleVars
<1> QED
  BY <1>1, <1>2, <1>3 DEF Next, Mishap

\* Where the runs of the batches that are past their check come from.
LEMMA PastBefore ==
  ASSUME TypeInv, [Next]_vars, NEW c \in Batches, Past(c)'
  PROVE  OracleChecks(c) \/ OracleWrites(c) \/ run'[c] = run[c]
<1>1. run \in [Batches -> Run]
  BY TypeParts DEF RunTyped
<1>2. CASE ErpUser \/ LockPeriod \/ Unlock \/ UNCHANGED vars
  BY <1>2 DEF ErpUser, ErpEdits, ErpApproves, ErpPosts, LockPeriod, Unlock, UnlockProbe,
     UnlockTake, UnlockCommit, UnlockVictim, vars
<1>3. ASSUME NEW b \in Batches, Operator(b) PROVE run'[c] = run[c]
  <2>1. CASE UNCHANGED run
    BY <2>1
  <2>2. ASSUME NEW op \in Ops, StepBegin(b, op) PROVE run'[c] = run[c]
    <3>1. run' = [run EXCEPT ![b] = [Idle EXCEPT !.pc = "row", !.op = op]]
      BY <2>2 DEF StepBegin
    <3>2. c # b
      BY <1>1, <3>1 DEF Past, Idle
    <3> QED
      BY <1>1, <3>1, <3>2
  <2> QED
    BY <1>3, <2>1, <2>2 DEF Operator, Create, Validate, Reopen, Abandon
<1>4. ASSUME NEW b \in Batches, Advance(b) \/ Mishap(b) \/ ReconRead(b)
      PROVE  OracleChecks(c) \/ OracleWrites(c) \/ run'[c] = run[c]
  <2>1. CASE c # b
    BY <1>4, <2>1, RunAfter
  <2>2. CASE c = b /\ (OracleChecks(b) \/ OracleWrites(b))
    BY <2>2
  <2>3. CASE c = b /\ ~OracleChecks(b) /\ ~OracleWrites(b)
    <3>1. run'[b].pc \notin {"checked", "written"}
      <4>1. CASE \E res : run' = Answered(b, res)
        BY <4>1, AnsweredFields
      <4>2. CASE run' = [run EXCEPT ![b] = Idle]
        BY <1>1, <4>2, IdleType
      <4>3. CASE StepIssue(b) \/ ReconRead(b)
        <5>1. StepIssue(b) => run'[b].pc = "logged"
          BY <1>1 DEF StepIssue, Run
        <5>2. ReconRead(b) => run'[b].pc = "read"
          BY <1>1 DEF ReconRead
        <5> QED
          BY <4>3, <5>1, <5>2
      <4>4. CASE run' = [run EXCEPT ![b].pc = "logged", ![b].rows = NoRows]
        BY <1>1, <4>4 DEF Run
      <4> QED
        BY <1>4, <2>3, <4>1, <4>2, <4>3, <4>4 DEF Advance, Mishap, StepFindsDone, StepRefused,
           StepVictim, OracleAnswers, OracleAnswersUnlogged, OracleUnknown, OracleBusy, Crash,
           StepCommit, ReconCommit
    <3> QED
      BY <2>3, <3>1 DEF Past
  <2> QED
    BY <2>1, <2>2, <2>3
<1> QED
  BY <1>2, <1>3, <1>4 DEF Next

\* A call that Oracle leaves alone stays as it was checked and written.
LEMMA CheckedSame ==
  ASSUME UNCHANGED <<header, adj>>, NEW c \in Batches, run'[c] = run[c]
  PROVE  /\ Past(c)' <=> Past(c)
         /\ Checked(c)' <=> Checked(c)
         /\ Written(c)' <=> Written(c)
BY DEF Past, Checked, HeaderFits, Posted, Written, Eligible, Selected

\* A COMMIT finds no other call under way.
LEMMA CommitAlone ==
  ASSUME TypeInv, Solo, NEW b \in Batches, Commits(b),
         OracleAnswers(b) \/ OracleAnswersUnlogged(b) \/ OracleUnknown(b) \/ Crash(b)
  PROVE  \A c \in Batches : ~InCall(c)' /\ ~Past(c)' /\ run'[c].pc # "written"
<1> SUFFICES ASSUME NEW c \in Batches PROVE ~InCall(c)' /\ ~Past(c)' /\ run'[c].pc # "written"
  OBVIOUS
<1>1. CASE c = b
  <2>1. run'[b].pc \in {"answered", "idle"} /\ ~InCall(b)'
    BY CommitEnds
  <2> QED
    BY <1>1, <2>1 DEF Past
<1>2. CASE c # b
  <2>1. run[c].pc = "idle"
    BY <1>2 DEF Solo, HoldsRow, Commits
  <2>2. run'[c] = run[c]
    BY <1>2, RunAfter DEF Advance, Mishap
  <2> QED
    BY <2>1, <2>2 DEF Past, InCall
<1> QED
  BY <1>1, <1>2

LEMMA CheckedStep ==
  ASSUME TypeInv, Solo, CheckedInv, [Next]_vars
  PROVE  CheckedInv'
<1>1. Posted => Posted'
  BY PostedStays
<1>2. CASE ErpUser
  <2>1. UNCHANGED <<header, run>>
    BY <1>2 DEF ErpUser, ErpEdits, ErpApproves, ErpPosts
  <2>2. ASSUME NEW b \in Batches, Checked(b) PROVE Checked(b)'
    BY <1>1, <2>1, <2>2 DEF Checked, HeaderFits
  <2>3. ASSUME NEW b \in Batches, run[b].pc = "written", Written(b) PROVE Written(b)'
    <3>1. Selected(b)' = Selected(b) /\ \A h \in Selected(b) : h \in Heads
      BY <2>1 DEF Selected
    <3>2. Eligible' \subseteq Eligible
      BY <1>2, ErpOpen DEF Eligible
    <3>3. \A h \in Heads : adj'[h].stamp = adj[h].stamp
      BY <1>2, ErpStamps
    <3>4. ASSUME run[b].op = "approve", NEW h \in Selected(b) PROVE h \in Eligible'
      <4>1. h \in Heads /\ adj[h].state = "open" /\ HoldsHead(b, h)
        BY <2>3, <3>1, <3>4 DEF Written, Eligible, HoldsHead
      <4> QED
        BY <1>2, <4>1, ErpOpen DEF Eligible
    <3> QED
      BY <2>1, <2>3, <3>1, <3>2, <3>3, <3>4 DEF Written
  <2> QED
    BY <1>1, <2>1, <2>2, <2>3 DEF CheckedInv, Past
<1>3. ASSUME NEW b \in Batches, Commits(b), run[b].op \in Ops,
             OracleAnswers(b) \/ OracleAnswersUnlogged(b) \/ OracleUnknown(b) \/ Crash(b)
      PROVE  CheckedInv'
  <2>1. \A c \in Batches : ~Past(c)' /\ run'[c].pc # "written"
    BY <1>3, CommitAlone
  <2>2. header \in [Batches -> HeaderStatuses]
    BY TypeParts DEF OracleTyped
  <2>3. run[b].op = "lock" => Posted
    BY <1>3 DEF CheckedInv, Past, Checked, Commits
  <2>4. \A c \in Batches : header'[c] = "locked" => header[c] = "locked" \/ run[b].op = "lock"
    BY <1>3, <2>2 DEF Commits, Effect, Ops, InsertBatch, ValuateAdj, ApproveAdj, RestoreAdj
  <2>5. \A c \in Batches : header'[c] = "locked" => Posted'
    BY <1>1, <2>3, <2>4 DEF CheckedInv
  <2> QED
    BY <2>1, <2>5 DEF CheckedInv
<1>4. CASE UNCHANGED <<header, adj>>
  <2>1. ASSUME NEW c \in Batches, Past(c)'
        PROVE  Checked(c)' /\ (run'[c].pc = "written" => Written(c)')
    <3>1. CASE OracleChecks(c)
      BY <3>1, ChecksPast
    <3>2. CASE OracleWrites(c)
      BY <3>2, WritesRows
    <3>3. CASE run'[c] = run[c]
      BY <1>4, <2>1, <3>3, CheckedSame DEF CheckedInv
    <3> QED
      BY <2>1, <3>1, <3>2, <3>3, PastBefore
  <2>2. \A c \in Batches : run'[c].pc = "written" => Past(c)'
    BY DEF Past
  <2> QED
    BY <1>1, <1>4, <2>1, <2>2 DEF CheckedInv
<1>5. ASSUME NEW b \in Batches,
             OracleAnswers(b) \/ OracleAnswersUnlogged(b) \/ OracleUnknown(b) \/ Crash(b)
      PROVE  CheckedInv'
  <2>1. CASE UNCHANGED oracleVars
    BY <1>4, <2>1 DEF oracleVars
  <2> QED
    BY <1>3, <1>5, <2>1, CallEffect
<1> QED
  BY <1>2, <1>4, <1>5, OracleKept

LEMMA CheckedInit == Init => CheckedInv
<1> SUFFICES ASSUME Init PROVE CheckedInv
  OBVIOUS
<1>1. \A b \in Batches : run[b].pc = "idle" /\ header[b] = "none"
  BY DEF Init, Idle
<1> QED
  BY <1>1 DEF CheckedInv, Past

\* The call that was past its check at the posting is the last one to change adjustments.
LateInv ==
  /\ late <= 1
  /\ late = 1 => Posted /\ \A b \in Batches : Past(b) => run[b].op \notin AdjOps

LEMMA LateStep ==
  ASSUME TypeInv, Solo, CheckedInv, LateInv, [Next]_vars
  PROVE  LateInv'
<1>1. Posted => Posted'
  BY PostedStays
<1>2. late \in Nat
  BY TypeParts DEF OracleTyped
<1>3. CASE UNCHANGED late
  <2>1. ASSUME late = 1, NEW c \in Batches, Past(c)' PROVE run'[c].op \notin AdjOps
    <3>1. CASE OracleChecks(c)
      <4>1. run[c].op \notin AdjOps
        BY <2>1, <3>1 DEF OracleChecks, Accepts, LateInv
      <4>2. run'[c].op = run[c].op
        BY <3>1, CallStepRun DEF CallStep
      <4> QED
        BY <4>1, <4>2
    <3>2. CASE OracleWrites(c)
      <4>1. Past(c)
        BY <3>2 DEF OracleWrites, Past
      <4>2. run'[c].op = run[c].op
        BY <3>2, CallStepRun DEF CallStep
      <4> QED
        BY <2>1, <4>1, <4>2 DEF LateInv
    <3>3. CASE run'[c] = run[c]
      BY <2>1, <3>3 DEF LateInv, Past
    <3> QED
      BY <2>1, <3>1, <3>2, <3>3, PastBefore
  <2> QED
    BY <1>1, <1>3, <2>1 DEF LateInv
<1>4. ASSUME NEW b \in Batches, Commits(b),
             OracleAnswers(b) \/ OracleAnswersUnlogged(b) \/ OracleUnknown(b) \/ Crash(b)
      PROVE  LateInv'
  <2>1. \A c \in Batches : ~Past(c)'
    BY <1>4, CommitAlone
  <2>2. CASE Posted /\ run[b].op \in AdjOps
    <3>1. late # 1
      BY <1>4, <2>2 DEF LateInv, Commits, Past
    <3>2. late' = late + 1
      BY <1>4, <2>2 DEF Commits
    <3> QED
      BY <1>1, <1>2, <2>1, <2>2, <3>1, <3>2 DEF LateInv
  <2>3. CASE ~(Posted /\ run[b].op \in AdjOps)
    <3>1. UNCHANGED late
      BY <1>4, <2>3 DEF Commits
    <3> QED
      BY <1>3, <3>1
  <2> QED
    BY <2>2, <2>3
<1>5. ASSUME NEW b \in Batches,
             OracleAnswers(b) \/ OracleAnswersUnlogged(b) \/ OracleUnknown(b) \/ Crash(b)
      PROVE  LateInv'
  <2>1. CASE UNCHANGED oracleVars
    BY <1>3, <2>1 DEF oracleVars
  <2> QED
    BY <1>4, <1>5, <2>1, CallEffect
<1> QED
  BY <1>3, <1>5, LateKept

\* At most one call on the adjustments takes effect after a posting (OneLateCall): the one
\* that had counted no posted head before it.  The count and the COMMIT are separate steps
\* of Oracle, so one is what the package can promise.
THEOREM OneCallLate == Spec => []OneLateCall
<1>1. Init => LateInv
  BY DEF Init, LateInv
<1>2. TypeInv /\ ActiveInv /\ CheckedInv /\ LateInv /\ [Next]_vars => CheckedInv' /\ LateInv'
  BY CheckedStep, LateStep DEF ActiveInv
<1>3. TypeInv /\ ActiveInv /\ [Next]_vars => ActiveInv'
  BY ActiveStep
<1>4. LateInv => OneLateCall
  BY DEF LateInv, OneLateCall
<1> QED
  BY <1>1, <1>2, <1>3, <1>4, TypeInit, TypeStep, ActiveInit, CheckedInit, PTL DEF Spec

-----------------------------------------------------------------------------
(* The LOCKED batch.  Oracle's packages do not compare batches, so what    *)
(* keeps one header live is that an open adjustment carries the stamp of   *)
(* the live batch: an approval or a restore that found such an adjustment  *)
(* has no live rival, and a lock has none since the valuation.             *)

Live == {"valuated", "approved", "locked"}
SoleLive == \A b, c \in Batches : header[b] \in Live /\ header[c] \in Live => b = c
OpenStamp ==
  \A h \in Heads, b, c \in Batches :
    adj[h].state = "open" /\ adj[h].stamp = b /\ header[c] \in Live => b = c
NoRival(b) ==
  /\ \A c \in Batches \ {b} : header[c] \notin Live
  /\ \A h \in Heads : adj[h].state = "open" => adj[h].stamp = b
CallUnrivalled ==
  \A b \in Batches : InCall(b) /\ run[b].op \in {"approve", "restore"} => NoRival(b)
\* A valuation stamps every open head, so the open heads share a stamp and a history.
Uniform ==
  \A h, k \in Heads : adj[h].state = "open" /\ adj[k].state = "open" =>
    /\ adj[h].stamp = adj[k].stamp
    /\ \A b \in Batches : adjLog[b][h].stamp = adjLog[b][k].stamp
StampInv == SoleLive /\ OpenStamp /\ Uniform
OracleInv == StampInv /\ CallUnrivalled

LockedHere(b) ==
  \/ status[b] = "locked"
  \/ run[b].pc = "answered" /\ run[b].op = "lock" /\ run[b].res = "SUCCESS"
LockLanded == \A b \in Batches : LockedHere(b) => header[b] = "locked" /\ Posted

CurrentInv == OracleInv /\ LockLanded

LEMMA OracleInit == Init => OracleInv
<1> SUFFICES ASSUME Init PROVE OracleInv
  OBVIOUS
<1>1. \A b \in Batches : run[b].pc = "idle" /\ header[b] = "none"
  BY DEF Init, Idle
<1>2. StampInv
  BY <1>1 DEF Init, StampInv, SoleLive, OpenStamp, Uniform, Live, NoRows, NotLogged
<1> QED
  BY <1>1, <1>2 DEF OracleInv, CallUnrivalled, InCall

\* Whatever Oracle commits leaves one live header, with the open stamps on its side.
LEMMA EffectLive ==
  ASSUME TypeInv, StampInv, CheckedInv, NEW b \in Batches, Commits(b), run[b].op \in Ops,
         run[b].op \in {"approve", "restore"} => NoRival(b)
  PROVE  StampInv'
<1> DEFINE op == run[b].op
<1>1. /\ header \in [Batches -> HeaderStatuses] /\ adj \in [Heads -> Adjustment]
      /\ adjLog \in [Batches -> [Heads -> OldValue]]
  BY TypeParts DEF OracleTyped
<1>w. HeaderFits(b, op) /\ Effect(b, op) /\ Written(b) /\ op \in Ops
  BY DEF Commits, CheckedInv, Checked, Past
<1>r. op \in {"approve", "restore"} => NoRival(b)
  OBVIOUS
<1> HIDE DEF op
<1>2. CASE op \in {"push", "lock"}
  <2>1. /\ UNCHANGED <<adj, adjLog>>
        /\ \A c \in Batches : header'[c] \in Live => header[c] \in Live
    BY <1>1, <1>w, <1>2 DEF Effect, HeaderFits, InsertBatch, LockHeader, Live
  <2> QED
    BY <2>1 DEF StampInv, SoleLive, OpenStamp, Uniform
<1>3. CASE op = "valuate"
  <2>0. /\ ValuateAdj(b) /\ Eligible \subseteq Selected(b)
        /\ \A h \in Selected(b) : run[b].rows[h].stamp = adj[h].stamp
    BY <1>w, <1>3 DEF Effect, Written, op
  <2>1. \A c \in Batches : header'[c] \in Live => c = b
    BY <1>1, <2>0 DEF ValuateAdj, Live, HeaderStatuses
  <2>2. \A h \in Heads : adj'[h].state = "open" => h \in Eligible /\ adj'[h].stamp = b
    <3> SUFFICES ASSUME NEW h \in Heads, adj'[h].state = "open"
                 PROVE  h \in Eligible /\ adj'[h].stamp = b
      OBVIOUS
    <3>1. adj[h] \in Adjustment
      BY <1>1
    <3>2. adj'[h] = IF h \in Selected(b) THEN [adj[h] EXCEPT !.stamp = b, !.val = b] ELSE adj[h]
      BY <2>0 DEF ValuateAdj
    <3>3. h \in Eligible
      BY <3>1, <3>2 DEF Adjustment, Eligible
    <3> QED
      BY <2>0, <3>1, <3>2, <3>3 DEF Adjustment
  <2>3. \A h \in Eligible, c \in Batches :
          adjLog'[c][h].stamp = IF c = b THEN adj[h].stamp ELSE adjLog[c][h].stamp
    <3>1. \A h \in Eligible : h \in Heads /\ h \in Selected(b)
      BY <2>0 DEF Eligible
    <3>2. adjLog'[b] = [h \in Heads |-> IF h \in Selected(b) THEN run[b].rows[h]
                                                             ELSE adjLog[b][h]]
      BY <1>1, <2>0 DEF ValuateAdj
    <3>3. \A c \in Batches \ {b} : adjLog'[c] = adjLog[c]
      BY <1>1, <2>0 DEF ValuateAdj
    <3> QED
      BY <2>0, <3>1, <3>2, <3>3
  <2>4. Uniform'
    BY <2>2, <2>3 DEF StampInv, Uniform, Eligible
  <2> QED
    BY <2>1, <2>2, <2>4 DEF StampInv, SoleLive, OpenStamp
<1>4. CASE op = "approve"
  <2>0. ApproveAdj(b) /\ NoRival(b)
    BY <1>w, <1>r, <1>4 DEF Effect
  <2>1. \A c \in Batches : header'[c] \in Live => c = b
    BY <1>1, <2>0 DEF ApproveAdj, NoRival
  <2>2. \A h \in Heads : adj'[h].stamp = adj[h].stamp
                         /\ (adj'[h].state = "open" => adj[h].state = "open")
    <3> SUFFICES ASSUME NEW h \in Heads
                 PROVE  /\ adj'[h].stamp = adj[h].stamp
                        /\ adj'[h].state = "open" => adj[h].state = "open"
      OBVIOUS
    <3>1. adj[h] \in Adjustment
      BY <1>1
    <3>2. adj'[h] = IF h \in Selected(b) THEN [adj[h] EXCEPT !.state = "approved"] ELSE adj[h]
      BY <2>0 DEF ApproveAdj
    <3> QED
      BY <3>1, <3>2 DEF Adjustment
  <2>3. \A h \in Heads : adj'[h].state = "open" => adj'[h].stamp = b
    BY <2>0, <2>2 DEF NoRival
  <2>4. UNCHANGED adjLog
    BY <2>0 DEF ApproveAdj
  <2> QED
    BY <2>1, <2>2, <2>3, <2>4 DEF StampInv, SoleLive, OpenStamp, Uniform
<1>5. CASE op = "restore"
  <2>0. RestoreAdj(b) /\ NoRival(b)
    BY <1>w, <1>r, <1>5 DEF Effect
  <2>1. \A c \in Batches : header'[c] \notin Live
    BY <1>1, <2>0 DEF RestoreAdj, NoRival, Live
  <2>2. ASSUME NEW h \in Heads, adj'[h].state = "open"
        PROVE  /\ adj[h].state = "open"
               /\ adj'[h].stamp = IF adjLog[b][h].stamp = NumBatches + 1
                                  THEN b ELSE adjLog[b][h].stamp
    <3>1. adj[h] \in Adjustment /\ adjLog[b][h] \in OldValue /\ NumBatches \in Nat
      BY <1>1, BoundsAssumption
    <3>2. adjLog[b][h] # NotLogged <=> adjLog[b][h].stamp # NumBatches + 1
      BY <3>1 DEF OldValue, NotLogged
    <3> DEFINE back == [adj[h] EXCEPT !.stamp = adjLog[b][h].stamp, !.val = adjLog[b][h].val]
    <3>3. back.state = adj[h].state /\ back.stamp = adjLog[b][h].stamp
      BY <3>1 DEF Adjustment
    <3>4. adj'[h] = IF h \in StampedBy(b) /\ adjLog[b][h] # NotLogged THEN back ELSE adj[h]
      BY <2>0 DEF RestoreAdj
    <3> HIDE DEF back
    <3>5. adj[h].state = "open"
      BY <2>2, <3>3, <3>4
    <3>6. adj[h].stamp = b /\ h \in StampedBy(b)
      BY <2>0, <3>5 DEF NoRival, StampedBy
    <3> QED
      BY <3>2, <3>3, <3>4, <3>5, <3>6
  <2>3. UNCHANGED adjLog
    BY <2>0 DEF RestoreAdj
  <2>4. Uniform'
    BY <2>2, <2>3 DEF StampInv, Uniform
  <2> QED
    BY <2>1, <2>4 DEF StampInv, SoleLive, OpenStamp
<1> QED
  BY <1>w, <1>2, <1>3, <1>4, <1>5 DEF Ops

\* A call is under way because it was issued or goes on, with the operation it was begun
\* with, and has left Oracle as it is.
LEMMA CallBefore ==
  ASSUME TypeInv, NEW b \in Batches, Advance(b) \/ Mishap(b) \/ ReconRead(b), InCall(b)'
  PROVE  /\ run'[b].op = run[b].op
         /\ StepIssue(b) \/ InCall(b)
         /\ UNCHANGED oracleVars
<1>1. run \in [Batches -> Run]
  BY TypeParts DEF RunTyped
<1>2. CASE StepIssue(b)
  BY <1>1, <1>2 DEF StepIssue, Run
<1>3. CASE OracleChecks(b) \/ OracleWrites(b) \/ OracleBusy(b)
  <2>1. UNCHANGED oracleVars /\ CallStep(b)
    BY <1>3 DEF OracleChecks, OracleWrites, OracleBusy, CallStep
  <2> QED
    BY <2>1, CallStepRun
<1>4. CASE OracleAnswers(b) \/ OracleAnswersUnlogged(b) \/ OracleUnknown(b) \/ Crash(b)
  BY <1>4, CommitEnds
<1>5. CASE StepRefused(b) \/ StepVictim(b) \/ StepCommit(b) \/ ReconCommit(b)
  <2>1. run'[b].pc = "idle"
    BY <1>1, <1>5, IdleType DEF StepRefused, StepVictim, StepCommit, ReconCommit
  <2> QED
    BY <2>1 DEF InCall
<1>6. CASE ReconRead(b)
  <2>1. run'[b].pc = "read"
    BY <1>1, <1>6 DEF ReconRead
  <2> QED
    BY <2>1 DEF InCall
<1>7. CASE StepFindsDone(b)
  <2>1. run'[b].pc = "answered"
    BY <1>7, AnsweredFields DEF StepFindsDone
  <2> QED
    BY <2>1 DEF InCall
<1> QED
  BY <1>2, <1>3, <1>4, <1>5, <1>6, <1>7 DEF Advance, Mishap

\* A new step is not under way at once, and the operator starts nothing else.
LEMMA OperatorRun ==
  ASSUME TypeInv, NEW b \in Batches, Operator(b), NEW c \in Batches
  PROVE  run'[c] = run[c] \/ run'[c].pc = "row"
<1>1. run \in [Batches -> Run]
  BY TypeParts DEF RunTyped
<1>2. CASE UNCHANGED run
  BY <1>2
<1>3. ASSUME NEW op \in Ops, StepBegin(b, op)
      PROVE  run'[c] = run[c] \/ run'[c].pc = "row"
  <2>1. run' = [run EXCEPT ![b] = [Idle EXCEPT !.pc = "row", !.op = op]]
    BY <1>3 DEF StepBegin
  <2> QED
    BY <1>1, <2>1 DEF Idle
<1> QED
  BY <1>2, <1>3 DEF Operator, Create, Validate, Reopen, Abandon

LEMMA IssueUnrivalled ==
  ASSUME TypeInv, StampInv, NEW b \in Batches, StepIssue(b),
         run[b].op \in {"approve", "restore"}
  PROVE  NoRival(b)
<1>1. \E h \in Heads : adj[h].stamp = b /\ adj[h].state = "open"
  <2>1. CASE run[b].op = "approve"
    BY <2>1 DEF StepIssue, Reprobe, SelectSet, Eligible, StampedBy
  <2>2. CASE run[b].op = "restore"
    BY <2>2 DEF StepIssue, Reprobe, SelectSet, StampedBy, ApprovedStampedBy
  <2> QED
    BY <2>1, <2>2
<1> QED
  BY <1>1 DEF StampInv, OpenStamp, Uniform, NoRival

LEMMA OracleStep ==
  ASSUME TypeInv, Solo, CheckedInv, OracleInv, [Next]_vars
  PROVE  OracleInv'
<1>1. run \in [Batches -> Run]
  BY TypeParts DEF RunTyped
<1>2. CASE ErpUser
  <2>1. UNCHANGED <<header, adjLog, run>>
    BY <1>2 DEF ErpUser, ErpEdits, ErpApproves, ErpPosts
  <2>2. \A h \in Heads : /\ adj'[h].stamp = adj[h].stamp
                         /\ adj'[h].state = "open" => adj[h].state = "open"
    BY <1>2, ErpStamps, ErpOpen
  <2>3. StampInv'
    BY <2>1, <2>2 DEF OracleInv, StampInv, SoleLive, OpenStamp, Uniform
  <2>4. CallUnrivalled'
    BY <2>1, <2>2 DEF OracleInv, CallUnrivalled, NoRival, InCall
  <2> QED
    BY <2>3, <2>4 DEF OracleInv
<1>3. ASSUME UNCHANGED <<header, adj, adjLog>>,
             \A c \in Batches : InCall(c)' /\ run'[c].op \in {"approve", "restore"} => NoRival(c)
      PROVE  OracleInv'
  <2>1. StampInv'
    BY <1>3 DEF OracleInv, StampInv, SoleLive, OpenStamp, Uniform
  <2>2. CallUnrivalled'
    BY <1>3 DEF CallUnrivalled, NoRival
  <2> QED
    BY <2>1, <2>2 DEF OracleInv
<1>4. CASE LockPeriod \/ Unlock \/ UNCHANGED vars
  <2>1. UNCHANGED <<header, adj, adjLog, run>>
    BY <1>4 DEF LockPeriod, Unlock, UnlockProbe, UnlockTake, UnlockCommit, UnlockVictim, vars,
       oracleVars
  <2> QED
    BY <1>3, <2>1 DEF OracleInv, CallUnrivalled, InCall
<1>5. ASSUME NEW b \in Batches, Operator(b) PROVE OracleInv'
  <2>1. UNCHANGED <<header, adj, adjLog>>
    BY <1>5 DEF Operator, Create, Validate, Reopen, Abandon, StepBegin, oracleVars
  <2>2. \A c \in Batches : InCall(c)' => run'[c] = run[c]
    BY <1>5, OperatorRun DEF InCall
  <2> QED
    BY <1>3, <2>1, <2>2 DEF OracleInv, CallUnrivalled, InCall
<1>6. ASSUME NEW b \in Batches, Advance(b) \/ Mishap(b) \/ ReconRead(b) PROVE OracleInv'
  <2>1. \A c \in Batches \ {b} : run'[c] = run[c]
    BY <1>6, RunAfter
  <2>2. CASE UNCHANGED <<header, adj, adjLog>>
    <3>1. InCall(b)' /\ run'[b].op \in {"approve", "restore"} => NoRival(b)
      BY <1>6, CallBefore, IssueUnrivalled DEF OracleInv, CallUnrivalled
    <3>2. \A c \in Batches \ {b} :
            InCall(c)' /\ run'[c].op \in {"approve", "restore"} => NoRival(c)
      BY <2>1 DEF OracleInv, CallUnrivalled, InCall
    <3> QED
      BY <1>3, <2>2, <3>1, <3>2
  <2>3. CASE OracleAnswers(b) \/ OracleAnswersUnlogged(b) \/ OracleUnknown(b) \/ Crash(b)
    <3>1. CASE UNCHANGED oracleVars
      BY <2>2, <3>1 DEF oracleVars
    <3>2. CASE Commits(b) /\ run[b].op \in Ops
      <4>1. StampInv'
        BY <3>2, EffectLive DEF OracleInv, CallUnrivalled, Commits, InCall
      <4>2. CallUnrivalled'
        BY <2>3, <3>2, CommitAlone DEF CallUnrivalled
      <4> QED
        BY <4>1, <4>2 DEF OracleInv
    <3> QED
      BY <2>3, <3>1, <3>2, CallEffect
  <2>4. CASE ~(OracleAnswers(b) \/ OracleAnswersUnlogged(b) \/ OracleUnknown(b) \/ Crash(b))
    <3>1. UNCHANGED <<header, adj, adjLog>>
      BY <1>6, <2>4 DEF Advance, Mishap, StepIssue, StepFindsDone, StepRefused, StepVictim,
         OracleChecks, OracleWrites, StepCommit, ReconCommit, OracleBusy, ReconRead, oracleVars
    <3> QED
      BY <2>2, <3>1
  <2> QED
    BY <2>3, <2>4
<1> QED
  BY <1>2, <1>4, <1>5, <1>6 DEF Next

\* A COMMIT after the lock of a header changes no stamp, and only inserts another one.
LEMMA CommitLocked ==
  ASSUME TypeInv, CheckedInv, SoleLive, NEW b \in Batches, Commits(b), run[b].op \in Ops,
         NEW d \in Batches, header[d] = "locked"
  PROVE  /\ UNCHANGED adj /\ header[b] = "none"
         /\ header' = [header EXCEPT ![b] = "pushed"]
<1>1. HeaderFits(b, run[b].op) /\ run[b].op \notin AdjOps
  BY DEF CheckedInv, Checked, Past, Commits
<1>2. run[b].op # "lock"
  BY <1>1 DEF HeaderFits, SoleLive, Live
<1>3. run[b].op = "push"
  BY <1>1, <1>2 DEF Ops, AdjOps
<1> QED
  BY <1>1, <1>3 DEF HeaderFits, Commits, Effect, InsertBatch

\* A LOCKED batch is the last word of the period in Oracle (LockedFrozen): a call that is
\* past its check when the header is locked does not exist, one that is checked afterwards
\* finds the posting, and no second header can be locked.
THEOREM LockedStays == Spec => LockedFrozen
<1> DEFINE Frozen == (\E b \in Batches : header[b] = "locked") =>
                       /\ Stamps' = Stamps
                       /\ \A b \in Batches : \/ header'[b] = header[b]
                                             \/ header[b] = "none" /\ header'[b] = "pushed"
<1>1. TypeInv /\ CheckedInv /\ OracleInv /\ [Next]_vars => Frozen
  <2> SUFFICES ASSUME TypeInv, CheckedInv, OracleInv, [Next]_vars,
                      NEW d \in Batches, header[d] = "locked"
               PROVE  /\ Stamps' = Stamps
                      /\ \A b \in Batches : \/ header'[b] = header[b]
                                            \/ header[b] = "none" /\ header'[b] = "pushed"
    OBVIOUS
  <2>1. CASE ErpUser
    <3>1. UNCHANGED header
      BY <2>1 DEF ErpUser, ErpEdits, ErpApproves, ErpPosts
    <3> QED
      BY <2>1, <3>1, ErpStamps DEF Stamps
  <2>2. CASE UNCHANGED <<header, adj>>
    BY <2>2 DEF Stamps
  <2>3. ASSUME NEW b \in Batches,
               OracleAnswers(b) \/ OracleAnswersUnlogged(b) \/ OracleUnknown(b) \/ Crash(b)
        PROVE  /\ Stamps' = Stamps
               /\ \A c \in Batches : \/ header'[c] = header[c]
                                     \/ header[c] = "none" /\ header'[c] = "pushed"
    <3>1. CASE UNCHANGED oracleVars
      BY <2>2, <3>1 DEF oracleVars
    <3>2. CASE Commits(b) /\ run[b].op \in Ops
      <4>1. /\ UNCHANGED adj /\ header[b] = "none"
            /\ header' = [header EXCEPT ![b] = "pushed"]
        BY <3>2, CommitLocked DEF OracleInv, StampInv
      <4>2. header \in [Batches -> HeaderStatuses]
        BY TypeParts DEF OracleTyped
      <4> QED
        BY <4>1, <4>2 DEF Stamps
    <3> QED
      BY <2>3, <3>1, <3>2, CallEffect
  <2> QED
    BY <2>1, <2>2, <2>3, OracleKept
<1>2. TypeInv /\ ActiveInv /\ CheckedInv /\ OracleInv /\ [Next]_vars =>
        ActiveInv' /\ CheckedInv' /\ OracleInv'
  BY ActiveStep, CheckedStep, OracleStep DEF ActiveInv
<1>3. TypeInv /\ CheckedInv /\ OracleInv /\ [Next]_vars => [Frozen]_vars
  BY <1>1
<1>4. LockedFrozen <=> [][Frozen]_vars
  BY DEF LockedFrozen
<1> HIDE DEF Frozen
<1> QED
  BY <1>2, <1>3, <1>4, TypeInit, TypeStep, ActiveInit, CheckedInit, OracleInit, PTL DEF Spec

\* A lock that has succeeded, or that the batch shows, was committed by Oracle after a
\* posting; nothing in Oracle touches a locked header after that.
LEMMA LandedKept ==
  ASSUME TypeInv, CheckedInv, [Next]_vars, NEW b \in Batches, header[b] = "locked"
  PROVE  header'[b] = "locked" /\ Posted'
<1>1. header \in [Batches -> HeaderStatuses]
  BY TypeParts DEF OracleTyped
<1>2. Posted'
  BY PostedStays DEF CheckedInv
<1>3. CASE UNCHANGED header
  BY <1>2, <1>3
<1>4. ASSUME NEW c \in Batches,
             OracleAnswers(c) \/ OracleAnswersUnlogged(c) \/ OracleUnknown(c) \/ Crash(c)
      PROVE  header'[b] = "locked"
  <2>1. CASE UNCHANGED oracleVars
    BY <2>1 DEF oracleVars
  <2>2. CASE Commits(c) /\ run[c].op \in Ops
    <3>1. HeaderFits(c, run[c].op) /\ run[c].op \in {"push", "lock"}
      BY <2>2 DEF CheckedInv, Checked, Past, Commits, Ops, AdjOps
    <3> QED
      BY <1>1, <2>2, <3>1 DEF Commits, Effect, InsertBatch, LockHeader, HeaderFits
  <2> QED
    BY <1>4, <2>1, <2>2, CallEffect
<1> QED
  BY <1>2, <1>3, <1>4, OracleKept

LEMMA LandedStep ==
  ASSUME TypeInv, CheckedInv, LockLanded, [Next]_vars
  PROVE  LockLanded'
<1> SUFFICES ASSUME NEW b \in Batches, LockedHere(b)' PROVE header'[b] = "locked" /\ Posted'
  BY DEF LockLanded
<1>1. /\ run \in [Batches -> Run] /\ status \in [Batches -> Statuses]
      /\ header \in [Batches -> HeaderStatuses]
  BY TypeParts DEF RunTyped, Rest, OracleTyped
<1>2. CASE LockedHere(b)
  BY <1>2, LandedKept DEF LockLanded
<1>3. CASE ~LockedHere(b)
  <2>1. CASE ErpUser \/ LockPeriod \/ Unlock \/ UNCHANGED vars
    <3>1. UNCHANGED <<run, status>>
      BY <2>1 DEF ErpUser, ErpEdits, ErpApproves, ErpPosts, LockPeriod, Unlock, UnlockProbe,
         UnlockTake, UnlockCommit, UnlockVictim, vars, pgVars
    <3> QED
      BY <1>3, <3>1 DEF LockedHere
  <2>2. ASSUME NEW c \in Batches, Operator(c) PROVE FALSE
    <3>1. status'[b] = "locked" => status[b] = "locked"
      BY <2>2, OperatorStatus
    <3>2. run'[b].pc = "answered" => run'[b] = run[b]
      <4>1. CASE UNCHANGED run
        BY <4>1
      <4>2. ASSUME NEW op \in Ops, StepBegin(c, op)
            PROVE  run'[b].pc = "answered" => run'[b] = run[b]
        BY <1>1, <4>2 DEF StepBegin, Idle
      <4> QED
        BY <2>2, <4>1, <4>2 DEF Operator, Create, Validate, Reopen, Abandon
    <3> QED
      BY <1>3, <3>1, <3>2 DEF LockedHere
  <2>3. ASSUME NEW c \in Batches, Advance(c) \/ Mishap(c) \/ ReconRead(c)
        PROVE  header'[b] = "locked" /\ Posted'
    <3>1. c # b => run'[b] = run[b]
      BY <2>3, RunAfter
    <3>2. CASE StepCommit(c)
      <4>1. run'[c].pc = "idle"
        BY <1>1, <3>2, IdleType DEF StepCommit
      <4>2. status'[b] = "locked" => status[b] = "locked" \/ (c = b /\ LockedHere(b))
        BY <1>1, <3>2 DEF StepCommit, FinishPush, FinishValuate, FinishApprove, FinishRestore,
           FinishLock, Hold, LockedHere
      <4> QED
        BY <1>3, <3>1, <4>1, <4>2 DEF LockedHere
    <3>3. CASE ReconCommit(c)
      <4>1. run'[c].pc = "idle"
        BY <1>1, <3>3, IdleType DEF ReconCommit
      <4>2. status'[b] = "locked" => status[b] = "locked"
        BY <3>3, ReconStatus
      <4> QED
        BY <1>3, <3>1, <4>1, <4>2 DEF LockedHere
    <3>4. CASE ~StepCommit(c) /\ ~ReconCommit(c)
      <4>1. UNCHANGED status
        BY <2>3, <3>4, StatusKept
      <4>2. c = b /\ run'[b].pc = "answered" /\ run'[b].op = "lock" /\ run'[b].res = "SUCCESS"
            /\ ~(run[b].pc = "answered" /\ run[b].op = "lock" /\ run[b].res = "SUCCESS")
        BY <1>3, <3>1, <4>1 DEF LockedHere
      <4>3. run[b].op = "lock"
        BY <2>3, <4>2, OpAfter DEF InStep, InCall
      <4>4. OracleAnswers(b) \/ OracleAnswersUnlogged(b)
        <5>1. ~StepFindsDone(b)
          BY <4>3 DEF StepFindsDone
        <5>2. /\ ~StepIssue(b) /\ ~StepRefused(b) /\ ~StepVictim(b) /\ ~Crash(b)
              /\ ~OracleChecks(b) /\ ~OracleWrites(b) /\ ~ReconRead(b)
          <6>1. ~StepIssue(b) /\ ~ReconRead(b) /\ ~OracleChecks(b) /\ ~OracleWrites(b)
            <7>1. StepIssue(b) => run'[b].pc = "logged"
              BY <1>1 DEF StepIssue, Run
            <7>2. ReconRead(b) => run'[b].pc = "read"
              BY <1>1 DEF ReconRead
            <7>3. OracleChecks(b) \/ OracleWrites(b) => run'[b].pc \in {"checked", "written"}
              BY <1>1 DEF OracleChecks, OracleWrites, Run
            <7> QED
              BY <4>2, <7>1, <7>2, <7>3
          <6>2. run' # [run EXCEPT ![b] = Idle]
            BY <1>1, <4>2, IdleType
          <6> QED
            BY <6>1, <6>2 DEF StepRefused, StepVictim, Crash
        <5>3. ~OracleUnknown(b) /\ ~OracleBusy(b)
          <6>1. run' # Answered(b, "UNKNOWN") /\ run' # Answered(b, "FAILED")
            BY <4>2, AnsweredFields
          <6>2. run' # [run EXCEPT ![b].pc = "logged", ![b].rows = NoRows]
            BY <1>1, <4>2 DEF Run
          <6> QED
            BY <6>1, <6>2 DEF OracleUnknown, OracleBusy
        <5> QED
          BY <2>3, <3>4, <4>2, <5>1, <5>2, <5>3 DEF Advance, Mishap
      <4>5. Commits(b)
        <5>1. run' # Answered(b, "FAILED")
          BY <4>2, AnsweredFields
        <5> QED
          BY <4>4, <5>1 DEF OracleAnswers, OracleAnswersUnlogged
      <4>6. Posted
        BY <4>3, <4>5 DEF Commits, CheckedInv, Checked, Past
      <4> QED
        BY <1>1, <4>3, <4>5, <4>6, PostedStays DEF Commits, Effect, LockHeader
    <3> QED
      BY <3>2, <3>3, <3>4
  <2> QED
    BY <2>1, <2>2, <2>3 DEF Next
<1> QED
  BY <1>2, <1>3

\* A batch that is LOCKED here is locked in Oracle, and no other batch of the period is live
\* there (LockedIsCurrent), for any number of batches, adjustments and faults.
THEOREM LockedCurrent == Spec => []LockedIsCurrent
<1>1. Init => CurrentInv
  <2> SUFFICES ASSUME Init PROVE CurrentInv
    OBVIOUS
  <2>1. \A b \in Batches : run[b].pc = "idle" /\ status[b] = "none"
    BY DEF Init, Idle
  <2>2. LockLanded
    BY <2>1 DEF LockLanded, LockedHere
  <2> QED
    BY <2>2, OracleInit DEF CurrentInv
<1>2. TypeInv /\ ActiveInv /\ CheckedInv /\ CurrentInv /\ [Next]_vars =>
        ActiveInv' /\ CheckedInv' /\ CurrentInv'
  <2>1. ASSUME TypeInv, ActiveInv, CheckedInv, CurrentInv, [Next]_vars
        PROVE  ActiveInv' /\ CheckedInv' /\ CurrentInv'
    BY <2>1, ActiveStep, CheckedStep, OracleStep, LandedStep
       DEF CurrentInv, ActiveInv
  <2> QED
    BY <2>1
<1>3. TypeInv /\ CurrentInv => LockedIsCurrent
  <2> SUFFICES ASSUME TypeInv, CurrentInv PROVE LockedIsCurrent
    OBVIOUS
  <2>1. \A c \in Batches : header[c] \in HeaderStatuses
    BY TypeParts DEF OracleTyped
  <2> QED
    BY <2>1 DEF CurrentInv, OracleInv, StampInv, SoleLive, LockLanded, LockedHere,
       LockedIsCurrent, Live, HeaderStatuses
<1> QED
  BY <1>1, <1>2, <1>3, TypeInit, TypeStep, ActiveInit, CheckedInit, PTL DEF Spec

-----------------------------------------------------------------------------
(* The log against Oracle.  What is known of a call that was committed is  *)
(* enough to see that the reconciliation never takes it for a failed one,  *)
(* and to name the call behind every header that was retired or restored.  *)

\* The operations of a log that Oracle committed.
Landed(log) == {log[i].op : i \in {k \in 1..Len(log) : log[k].landed}}

\* The row of a call in progress is the last one, and nothing of it has landed.
LastOpen ==
  \A b \in Batches : InCall(b) =>
    /\ calls[b][Len(calls[b])].op = run[b].op
    /\ ~calls[b][Len(calls[b])].landed
CallsOpen == LastOpen /\ CheckedInv

LEMMA LastAsRows ==
  ASSUME NEW log \in Seq(Call), log # <<>>,
         NEW st \in {"STARTED", "SUCCESS", "FAILED", "UNKNOWN"}, NEW landed \in BOOLEAN
  PROVE  /\ LastAs(log, st, landed) \in Seq(Call)
         /\ LastAs(log, st, landed) # <<>>
         /\ Len(LastAs(log, st, landed)) = Len(log) /\ Len(log) \in 1..Len(log)
         /\ \A i \in 1..Len(log) : i # Len(log) => LastAs(log, st, landed)[i] = log[i]
         /\ LastAs(log, st, landed)[Len(log)] =
              [op |-> log[Len(log)].op, st |-> st, landed |-> landed]
<1>1. Len(log) \in 1..Len(log)
  OBVIOUS
<1>2. \A i \in 1..Len(log) : i # Len(log) => LastAs(log, st, landed)[i] = log[i]
  BY DEF LastAs
<1>3. LastAs(log, st, landed)[Len(log)] =
        [op |-> log[Len(log)].op, st |-> st, landed |-> landed]
  BY <1>1 DEF LastAs
<1> QED
  BY <1>1, <1>2, <1>3, LastAsType

LEMMA LastAsLanded ==
  ASSUME NEW log \in Seq(Call), log # <<>>, ~log[Len(log)].landed,
         NEW st \in {"STARTED", "SUCCESS", "FAILED", "UNKNOWN"}, NEW landed \in BOOLEAN
  PROVE  Landed(LastAs(log, st, landed)) =
           Landed(log) \cup (IF landed THEN {log[Len(log)].op} ELSE {})
<1> DEFINE new == LastAs(log, st, landed)
           n == Len(log)
<1>1. /\ Len(new) = n /\ n \in 1..n
      /\ \A i \in 1..n : i # n => new[i] = log[i]
      /\ new[n].op = log[n].op /\ new[n].landed = landed
  <2>1. /\ Len(new) = n /\ n \in 1..n
        /\ \A i \in 1..n : i # n => new[i] = log[i]
        /\ new[n] = [op |-> log[n].op, st |-> st, landed |-> landed]
    BY LastAsRows
  <2> HIDE DEF new, n
  <2> QED
    BY <2>1
<1> HIDE DEF new, n
<1>2. ASSUME NEW op \in Landed(new)
      PROVE  op \in Landed(log) \cup (IF landed THEN {log[n].op} ELSE {})
  <2>1. PICK i \in 1..n : new[i].landed /\ new[i].op = op
    BY <1>1 DEF Landed
  <2> QED
    BY <1>1, <2>1 DEF Landed, n
<1>3. ASSUME NEW op \in Landed(log) PROVE op \in Landed(new)
  <2>1. PICK i \in 1..n : log[i].landed /\ log[i].op = op
    BY DEF Landed, n
  <2>2. i # n
    BY <2>1 DEF n
  <2> QED
    BY <1>1, <2>1, <2>2 DEF Landed
<1>4. landed => log[n].op \in Landed(new)
  BY <1>1 DEF Landed
<1> QED
  BY <1>2, <1>3, <1>4 DEF new, n

LEMMA LastAsNone ==
  ASSUME NEW log \in Seq(Call), log # <<>>, ~log[Len(log)].landed,
         NEW st \in {"STARTED", "SUCCESS", "FAILED", "UNKNOWN"}
  PROVE  LastAs(log, st, FALSE) \in Seq(Call) /\ Landed(LastAs(log, st, FALSE)) = Landed(log)
<1>1. Landed(LastAs(log, st, FALSE)) =
        Landed(log) \cup (IF FALSE THEN {log[Len(log)].op} ELSE {})
  BY LastAsLanded
<1>2. LastAs(log, st, FALSE) \in Seq(Call)
  BY LastAsType
<1> QED
  BY <1>1, <1>2

LEMMA StartedRows ==
  ASSUME NEW log \in Seq(Call), NEW op \in Ops
  PROVE  /\ Started(log, op) \in Seq(Call) /\ Started(log, op) # <<>>
         /\ Len(Started(log, op)) = Len(log) + 1
         /\ \A i \in 1..Len(log) : Started(log, op)[i] = log[i]
         /\ Started(log, op)[Len(log) + 1] = [op |-> op, st |-> "STARTED", landed |-> FALSE]
         /\ Landed(Started(log, op)) = Landed(log)
<1> DEFINE new == Started(log, op)
           row == [op |-> op, st |-> "STARTED", landed |-> FALSE]
<1>1. row \in Call
  BY DEF Call
<1>2. /\ Len(new) = Len(log) + 1 /\ new[Len(log) + 1] = row
      /\ \A i \in 1..Len(log) : new[i] = log[i]
  <2> HIDE DEF row
  <2> QED
    BY <1>1 DEF Started, row
<1>3. ~row.landed
  OBVIOUS
<1> HIDE DEF new, row
<1>4. {k \in 1..Len(new) : new[k].landed} = {k \in 1..Len(log) : log[k].landed}
  <2>1. Len(log) \in Nat
    OBVIOUS
  <2>2. \A k \in 1..Len(new) : k \in 1..Len(log) \/ k = Len(log) + 1
    BY <1>2, <2>1
  <2>3. \A k \in 1..Len(log) : k \in 1..Len(new)
    BY <1>2, <2>1
  <2> QED
    BY <1>2, <1>3, <2>2, <2>3
<1>5. Landed(new) = Landed(log)
  BY <1>2, <1>4 DEF Landed
<1> QED
  BY <1>2, <1>5, StartedType DEF new, row

\* A call that Oracle commits adds its operation, every other entry adds none.
Committed(b) ==
  /\ Commits(b) /\ run[b].op \in Ops /\ Checked(b) /\ Written(b)
  /\ Landed(calls[b])' = Landed(calls[b]) \cup {run[b].op}
  /\ \A c \in Batches \ {b} : Landed(calls[c])' = Landed(calls[c])
NothingLanded ==
  /\ UNCHANGED oracleVars
  /\ \A c \in Batches : Landed(calls[c])' = Landed(calls[c])

LEMMA SettledRows ==
  ASSUME TypeInv, NEW b \in Batches
  PROVE  /\ Len(Settled(b)) = Len(calls[b])
         /\ \A i \in 1..Len(calls[b]) :
              /\ Settled(b)[i].op = calls[b][i].op
              /\ Settled(b)[i].landed = calls[b][i].landed
              /\ \/ Settled(b)[i].st = calls[b][i].st
                 \/ Settled(b)[i].st = Proof(b, calls[b][i].op)
         /\ Landed(Settled(b)) = Landed(calls[b])
<1>1. calls[b] \in Seq(Call)
  BY TypeParts DEF RunTyped
<1>2. Len(Settled(b)) = Len(calls[b]) /\ DOMAIN Settled(b) = 1..Len(calls[b])
  <2>1. Settled(b) \in Seq(Call)
    BY <1>1, SettledType
  <2>2. DOMAIN Settled(b) = 1..Len(calls[b]) /\ Len(calls[b]) \in Nat
    BY <1>1 DEF Settled
  <2> QED
    BY <2>1, <2>2
<1>3. ASSUME NEW i \in 1..Len(calls[b])
      PROVE  /\ Settled(b)[i].op = calls[b][i].op
             /\ Settled(b)[i].landed = calls[b][i].landed
             /\ \/ Settled(b)[i].st = calls[b][i].st
                \/ Settled(b)[i].st = Proof(b, calls[b][i].op)
  <2> DEFINE c == calls[b][i]
  <2>1. c \in Call
    BY <1>1
  <2>2. Settled(b)[i] = IF c.st \in Unresolved /\ Proof(b, c.op) # ""
                        THEN [c EXCEPT !.st = Proof(b, c.op)] ELSE c
    BY DEF Settled
  <2> HIDE DEF c
  <2>3. Settled(b)[i].op = c.op /\ Settled(b)[i].landed = c.landed
        /\ (Settled(b)[i].st = c.st \/ Settled(b)[i].st = Proof(b, c.op))
    BY <2>1, <2>2 DEF Call
  <2> QED
    BY <2>3 DEF c
<1>4. {k \in 1..Len(Settled(b)) : Settled(b)[k].landed} =
        {k \in 1..Len(calls[b]) : calls[b][k].landed}
  BY <1>2, <1>3
<1>5. Landed(Settled(b)) = Landed(calls[b])
  BY <1>3, <1>4 DEF Landed
<1> QED
  BY <1>2, <1>3, <1>5

LEMMA LandedSame ==
  ASSUME NEW b \in Batches, NEW log, calls' = [calls EXCEPT ![b] = log],
         calls \in [Batches -> Seq(Call)], Landed(log) = Landed(calls[b])
  PROVE  \A c \in Batches : Landed(calls[c])' = Landed(calls[c])
<1>1. ASSUME NEW c \in Batches PROVE Landed(calls'[c]) = Landed(calls[c])
  BY <1>1
<1> QED
  BY <1>1 DEF Landed

LEMMA LandedOther ==
  ASSUME NEW b \in Batches, NEW log, NEW op, calls' = [calls EXCEPT ![b] = log],
         calls \in [Batches -> Seq(Call)], Landed(log) = Landed(calls[b]) \cup {op}
  PROVE  /\ Landed(calls[b])' = Landed(calls[b]) \cup {op}
         /\ \A c \in Batches \ {b} : Landed(calls[c])' = Landed(calls[c])
<1>1. Landed(calls'[b]) = Landed(calls[b]) \cup {op}
  OBVIOUS
<1>2. \A c \in Batches \ {b} : Landed(calls'[c]) = Landed(calls[c])
  OBVIOUS
<1> QED
  BY <1>1, <1>2 DEF Landed

\* What closing the row of the call in progress does to the log.
LEMMA CloseLanded ==
  ASSUME TypeInv, LastOpen, NEW b \in Batches, InCall(b),
         NEW st \in {"STARTED", "SUCCESS", "FAILED", "UNKNOWN"}, NEW landed \in BOOLEAN,
         calls' = Close(b, st, landed)
  PROVE  IF landed
         THEN /\ Landed(calls[b])' = Landed(calls[b]) \cup {run[b].op}
              /\ \A c \in Batches \ {b} : Landed(calls[c])' = Landed(calls[c])
         ELSE \A c \in Batches : Landed(calls[c])' = Landed(calls[c])
<1>1. RunTyped /\ calls[b] \in Seq(Call) /\ calls[b] # <<>> /\ calls \in [Batches -> Seq(Call)]
  BY TypeParts DEF RunTyped, CallLogged
<1>2. calls[b][Len(calls[b])].op = run[b].op /\ ~calls[b][Len(calls[b])].landed
  BY DEF LastOpen
<1> DEFINE log == LastAs(calls[b], st, landed)
<1>3. calls' = [calls EXCEPT ![b] = log]
  BY <1>1, CloseType
<1>4. Landed(log) = Landed(calls[b]) \cup (IF landed THEN {run[b].op} ELSE {})
  BY <1>1, <1>2, LastAsLanded
<1> HIDE DEF log
<1>5. CASE landed
  BY <1>1, <1>3, <1>4, <1>5, LandedOther
<1>6. CASE ~landed
  BY <1>1, <1>3, <1>4, <1>6, LandedSame
<1> QED
  BY <1>5, <1>6

\* Every step of a batch leaves Oracle and what has landed alone, or is one commit.
LEMMA BatchLanded ==
  ASSUME TypeInv, CallsOpen, NEW b \in Batches, Advance(b) \/ Mishap(b) \/ ReconRead(b)
  PROVE  NothingLanded \/ Committed(b)
<1>1. RunTyped /\ calls[b] \in Seq(Call) /\ calls \in [Batches -> Seq(Call)]
  BY TypeParts DEF RunTyped
<1>2. InCall(b) => run[b].op \in Ops
  BY <1>1 DEF RunTyped, StepOp, InStep
<1>3. CASE UNCHANGED <<oracleVars, calls>>
  BY <1>3 DEF NothingLanded, Landed
<1>4. CASE \/ StepFindsDone(b) \/ StepRefused(b) \/ StepVictim(b) \/ OracleChecks(b)
           \/ OracleWrites(b) \/ StepCommit(b) \/ ReconCommit(b)
  BY <1>3, <1>4 DEF StepFindsDone, StepRefused, StepVictim, OracleChecks, OracleWrites,
     StepCommit, ReconCommit
<1>5. CASE StepIssue(b)
  <2>1. calls' = [calls EXCEPT ![b] = Started(calls[b], run[b].op)] /\ UNCHANGED oracleVars
        /\ run[b].op \in Ops
    BY <1>1, <1>5 DEF StepIssue, RunTyped, StepOp, InStep
  <2>2. Landed(Started(calls[b], run[b].op)) = Landed(calls[b])
    BY <1>1, <2>1, StartedRows
  <2> QED
    BY <1>1, <2>1, <2>2, LandedSame DEF NothingLanded
<1>6. ASSUME Commits(b),
             NEW st \in {"STARTED", "SUCCESS", "FAILED", "UNKNOWN"}, calls' = Close(b, st, TRUE)
      PROVE  Committed(b)
  <2>1. InCall(b) /\ Checked(b) /\ Written(b)
    BY <1>6 DEF Commits, InCall, CallsOpen, CheckedInv, Past
  <2> QED
    BY <1>2, <1>6, <2>1, CloseLanded DEF Committed, CallsOpen
<1>7. ASSUME InCall(b), UNCHANGED oracleVars,
             NEW st \in {"STARTED", "SUCCESS", "FAILED", "UNKNOWN"}, calls' = Close(b, st, FALSE)
      PROVE  NothingLanded
  BY <1>7, CloseLanded DEF NothingLanded, CallsOpen
<1>8. CASE OracleAnswers(b)
  BY <1>6, <1>7, <1>8 DEF OracleAnswers, Refuses, InCall
<1>9. CASE OracleAnswersUnlogged(b)
  BY <1>6, <1>7, <1>9 DEF OracleAnswersUnlogged, Refuses, InCall
<1>10. CASE OracleUnknown(b)
  BY <1>6, <1>7, <1>10 DEF OracleUnknown
<1>11. CASE Crash(b)
  BY <1>3, <1>6, <1>11 DEF Crash
<1>12. CASE OracleBusy(b)
  <2>1. InCall(b) /\ UNCHANGED oracleVars
    BY <1>12 DEF OracleBusy
  <2>2. CASE calls' = Close(b, "FAILED", FALSE)
    BY <1>7, <2>1, <2>2
  <2>3. CASE calls' = [calls EXCEPT ![b] = Started(LastAs(@, "FAILED", FALSE), run[b].op)]
    <3> DEFINE log == LastAs(calls[b], "FAILED", FALSE)
    <3>1. calls[b] # <<>> /\ ~calls[b][Len(calls[b])].landed
      BY <1>1, <2>1 DEF RunTyped, CallLogged, CallsOpen, LastOpen
    <3>2. log \in Seq(Call) /\ Landed(log) = Landed(calls[b])
      BY <1>1, <3>1, LastAsNone
    <3>3. calls' = [calls EXCEPT ![b] = Started(log, run[b].op)]
      BY <1>1, <2>3
    <3> HIDE DEF log
    <3>4. Landed(Started(log, run[b].op)) = Landed(calls[b])
      BY <1>2, <2>1, <3>2, StartedRows
    <3> QED
      BY <1>1, <2>1, <3>3, <3>4, LandedSame DEF NothingLanded
  <2> QED
    BY <1>12, <2>2, <2>3 DEF OracleBusy
<1>13. CASE ReconRead(b)
  <2>1. calls' = [calls EXCEPT ![b] = Settled(b)] /\ UNCHANGED oracleVars
    BY <1>13 DEF ReconRead
  <2>2. Landed(Settled(b)) = Landed(calls[b])
    BY SettledRows
  <2> QED
    BY <1>1, <2>1, <2>2, LandedSame DEF NothingLanded
<1> QED
  BY <1>4, <1>5, <1>8, <1>9, <1>10, <1>11, <1>12, <1>13 DEF Advance, Mishap

\* The steps of the others change neither headers, nor stamps, nor the log.
NothingStamped ==
  /\ UNCHANGED <<header, adjLog>>
  /\ \A h \in Heads : adj'[h].stamp = adj[h].stamp
  /\ \A c \in Batches : Landed(calls[c])' = Landed(calls[c])

LEMMA StampsStep ==
  ASSUME TypeInv, CallsOpen, [Next]_vars
  PROVE  NothingStamped \/ \E b \in Batches : Committed(b)
<1>1. CASE ErpUser
  <2>1. UNCHANGED <<header, adjLog, calls>>
    BY <1>1 DEF ErpUser, ErpEdits, ErpApproves, ErpPosts
  <2> QED
    BY <1>1, <2>1, ErpStamps DEF NothingStamped, Landed
<1>2. ASSUME UNCHANGED <<oracleVars, calls>> PROVE NothingStamped
  BY <1>2 DEF NothingStamped, Landed, oracleVars
<1>3. CASE LockPeriod \/ Unlock \/ UNCHANGED vars
  BY <1>2, <1>3 DEF LockPeriod, Unlock, UnlockProbe, UnlockTake, UnlockCommit, UnlockVictim,
     vars, oracleVars
<1>4. ASSUME NEW b \in Batches, Operator(b) PROVE NothingStamped
  <2>1. UNCHANGED <<oracleVars, calls>>
    BY <1>4 DEF Operator, Create, Validate, Reopen, Abandon, StepBegin
  <2> QED
    BY <1>2, <2>1
<1>5. ASSUME NEW b \in Batches, Advance(b) \/ Mishap(b) \/ ReconRead(b)
      PROVE  NothingStamped \/ Committed(b)
  BY <1>5, BatchLanded DEF NothingLanded, NothingStamped, oracleVars
<1> QED
  BY <1>1, <1>3, <1>4, <1>5 DEF Next

\* The rows of the calls in progress stay open.
LEMMA LastOpenStep ==
  ASSUME TypeInv, LastOpen, [Next]_vars
  PROVE  LastOpen'
<1>1. RunTyped /\ run \in [Batches -> Run] /\ calls \in [Batches -> Seq(Call)]
  BY TypeParts DEF RunTyped
<1>2. ASSUME NEW c \in Batches, calls'[c] = calls[c],
             InCall(c)' => InCall(c) /\ run'[c].op = run[c].op
      PROVE  InCall(c)' => /\ calls'[c][Len(calls'[c])].op = run'[c].op
                           /\ ~calls'[c][Len(calls'[c])].landed
  BY <1>2 DEF LastOpen
<1>3. CASE ErpUser \/ LockPeriod \/ Unlock \/ UNCHANGED vars
  <2>1. UNCHANGED <<run, calls>>
    BY <1>3 DEF ErpUser, ErpEdits, ErpApproves, ErpPosts, LockPeriod, Unlock, UnlockProbe,
       UnlockTake, UnlockCommit, UnlockVictim, vars
  <2> QED
    BY <2>1 DEF LastOpen, InCall
<1>4. ASSUME NEW b \in Batches, Operator(b) PROVE LastOpen'
  <2>1. UNCHANGED calls
    BY <1>4 DEF Operator, Create, Validate, Reopen, Abandon, StepBegin
  <2>2. \A c \in Batches : InCall(c)' => run'[c] = run[c]
    BY <1>4, OperatorRun DEF InCall
  <2> QED
    BY <2>1, <2>2 DEF LastOpen, InCall
<1>5. ASSUME NEW b \in Batches, Advance(b) \/ Mishap(b) \/ ReconRead(b)
      PROVE  LastOpen'
  <2>1. \A c \in Batches \ {b} : run'[c] = run[c]
    BY <1>5, RunAfter
  <2>2. \A c \in Batches \ {b} : calls'[c] = calls[c]
    BY <1>1, <1>5 DEF Advance, Mishap, StepIssue, StepFindsDone, StepRefused, StepVictim,
       OracleChecks, OracleWrites, OracleAnswers, StepCommit, ReconCommit,
       OracleAnswersUnlogged, OracleUnknown, OracleBusy, Crash, ReconRead, Close
  <2>3. ASSUME InCall(b)'
        PROVE  /\ calls'[b][Len(calls'[b])].op = run'[b].op
               /\ ~calls'[b][Len(calls'[b])].landed
    <3>1. run'[b].op = run[b].op /\ (StepIssue(b) \/ InCall(b))
      BY <1>5, <2>3, CallBefore
    <3>2. run[b].op \in Ops
      BY <1>1, <3>1 DEF RunTyped, StepOp, InStep, StepIssue
    <3>3. ASSUME NEW log \in Seq(Call), calls'[b] = Started(log, run[b].op)
          PROVE  /\ calls'[b][Len(calls'[b])].op = run[b].op
                 /\ ~calls'[b][Len(calls'[b])].landed
      <4> DEFINE new == Started(log, run[b].op)
                 row == [op |-> run[b].op, st |-> "STARTED", landed |-> FALSE]
      <4>1. new[Len(new)] = row
        BY <3>2, StartedRows
      <4>2. row.op = run[b].op /\ ~row.landed
        OBVIOUS
      <4> HIDE DEF new, row
      <4>3. calls'[b] = new
        BY <3>3 DEF new
      <4> QED
        BY <4>1, <4>2, <4>3
    <3>4. CASE StepIssue(b)
      <4>1. calls'[b] = Started(calls[b], run[b].op)
        BY <1>1, <3>4 DEF StepIssue
      <4> QED
        BY <1>1, <3>1, <3>3, <4>1
    <3>5. CASE OracleBusy(b)
      <4>1. InCall(b)
        BY <3>5 DEF OracleBusy
      <4>2. run' # Answered(b, "FAILED")
        BY <2>3, AnsweredFields DEF InCall
      <4>3. calls'[b] = Started(LastAs(calls[b], "FAILED", FALSE), run[b].op)
        BY <1>1, <3>5, <4>2 DEF OracleBusy
      <4>4. LastAs(calls[b], "FAILED", FALSE) \in Seq(Call)
        BY <1>1, <4>1, CloseType
      <4> QED
        BY <3>1, <3>3, <4>3, <4>4
    <3>6. CASE OracleChecks(b) \/ OracleWrites(b)
      <4>1. calls'[b] = calls[b] /\ InCall(b)
        BY <3>6 DEF OracleChecks, OracleWrites, InCall
      <4> QED
        BY <1>2, <2>3, <3>1, <4>1
    <3>7. CASE OracleAnswers(b) \/ OracleAnswersUnlogged(b) \/ OracleUnknown(b) \/ Crash(b)
      BY <2>3, <3>7, CommitEnds
    <3>8. CASE StepFindsDone(b)
      BY <2>3, <3>8, AnsweredFields DEF StepFindsDone, InCall
    <3>9. CASE StepRefused(b) \/ StepVictim(b) \/ StepCommit(b) \/ ReconCommit(b) \/ ReconRead(b)
      <4>1. run' # [run EXCEPT ![b] = Idle]
        BY <1>1, <2>3, IdleType DEF InCall
      <4>2. ~ReconRead(b)
        <5>1. ReconRead(b) => run'[b].pc = "read"
          BY <1>1 DEF ReconRead
        <5> QED
          BY <2>3, <5>1 DEF InCall
      <4> QED
        BY <3>9, <4>1, <4>2 DEF StepRefused, StepVictim, StepCommit, ReconCommit
    <3> QED
      BY <1>5, <3>4, <3>5, <3>6, <3>7, <3>8, <3>9 DEF Advance, Mishap
  <2> QED
    BY <1>2, <2>1, <2>2, <2>3 DEF LastOpen, InCall
<1> QED
  BY <1>3, <1>4, <1>5 DEF Next

LEMMA CallsOpenStep ==
  ASSUME TypeInv, Solo, CallsOpen, [Next]_vars
  PROVE  CallsOpen'
BY LastOpenStep, CheckedStep DEF CallsOpen

-----------------------------------------------------------------------------
(* The order of the batches.  A batch is created when no other is on its   *)
(* way, so a valuation finds the stamps of older batches only, and a       *)
(* restore finds no younger batch in Oracle.                               *)

BegunFrom(op) ==
  CASE op = "push"    -> {"validated"}
    [] op = "valuate" -> {"pushed"}
    [] op = "restore" -> {"valuated", "reconciled"}
    [] OTHER          -> {"reconciled"}

BegunInv == \A b \in Batches : InStep(b) => status[b] \in BegunFrom(run[b].op)
InflightLatest == \A b \in Batches : status[b] \in Inflight => Latest(b)
InSequence == \A c, d \in Batches : c > d /\ status[d] = "none" => status[c] = "none"
Unborn == \A b \in Batches : status[b] = "none" => header[b] = "none"
RestoreLatest ==
  \A b, c \in Batches : InStep(b) /\ run[b].op = "restore" /\ c > b => header[c] = "none"

BirthInv == BegunInv /\ InSequence /\ InflightLatest /\ Unborn /\ RestoreLatest

\* The status of a batch whose step is in progress changes with the step's end only.
LEMMA BegunStep ==
  ASSUME TypeInv, Solo, BegunInv, [Next]_vars
  PROVE  BegunInv'
<1>1. run \in [Batches -> Run] /\ status \in [Batches -> Statuses]
  BY TypeParts DEF RunTyped, Rest
<1>2. CASE ErpUser \/ LockPeriod \/ Unlock \/ UNCHANGED vars
  <2>1. UNCHANGED <<run, status>>
    BY <1>2 DEF ErpUser, ErpEdits, ErpApproves, ErpPosts, LockPeriod, Unlock, UnlockProbe,
       UnlockTake, UnlockCommit, UnlockVictim, vars, pgVars
  <2> QED
    BY <2>1 DEF BegunInv, InStep, InCall
<1>3. ASSUME NEW b \in Batches, Operator(b) PROVE BegunInv'
  <2>1. CASE Create(b) \/ Validate(b) \/ Reopen(b) \/ Abandon(b)
    <3>1. UNCHANGED run
      BY <2>1 DEF Create, Validate, Reopen, Abandon
    <3>2. \A c \in Batches : InStep(c) => status'[c] = status[c]
      <4>1. CASE Create(b)
        <5>1. status[b] = "none" /\ \A c \in Batches \ {b} : status'[c] = status[c]
          BY <1>1, <4>1 DEF Create
        <5>2. InStep(b) => status[b] # "none"
          BY DEF BegunInv, BegunFrom
        <5> QED
          BY <5>1, <5>2
      <4>2. CASE Validate(b) \/ Reopen(b)
        BY <4>2 DEF Validate, Reopen, NoStep, HoldsRow, InStep, InCall
      <4>3. CASE Abandon(b)
        BY <1>1, <4>3 DEF Abandon, InStep, InCall
      <4> QED
        BY <2>1, <4>1, <4>2, <4>3
    <3> QED
      BY <3>1, <3>2 DEF BegunInv, InStep, InCall
  <2>2. ASSUME NEW op \in Ops, StepBegin(b, op) PROVE BegunInv'
    <3>1. /\ UNCHANGED status /\ run'[b].op = op
          /\ \A c \in Batches \ {b} : run'[c] = run[c] /\ run[c].pc = "idle"
      BY <1>1, <2>2 DEF StepBegin, pgVars, Idle, NoStep, HoldsRow
    <3>2. status[b] \in BegunFrom(op)
      BY <2>2 DEF StepBegin, StepGate, BegunFrom, Ops
    <3> QED
      BY <3>1, <3>2 DEF BegunInv, InStep, InCall
  <2> QED
    BY <1>3, <2>1, <2>2 DEF Operator
<1>4. ASSUME NEW b \in Batches, Advance(b) \/ Mishap(b) \/ ReconRead(b) PROVE BegunInv'
  <2>1. \A c \in Batches \ {b} : run'[c] = run[c]
    BY <1>4, RunAfter
  <2>2. CASE StepCommit(b) \/ ReconCommit(b)
    <3>1. run'[b].pc = "idle" /\ HoldsRow(b)
      BY <1>1, <2>2, IdleType DEF StepCommit, ReconCommit, HoldsRow
    <3>2. \A c \in Batches : run'[c].pc = "idle"
      BY <2>1, <3>1 DEF Solo, HoldsRow
    <3> QED
      BY <3>2 DEF BegunInv, InStep, InCall
  <2>3. CASE ~StepCommit(b) /\ ~ReconCommit(b)
    <3>1. UNCHANGED status
      BY <1>4, <2>3, StatusKept
    <3>2. InStep(b)' => InStep(b) /\ run'[b].op = run[b].op
      BY <1>4, OpAfter DEF InStep
    <3> QED
      BY <2>1, <3>1, <3>2 DEF BegunInv, InStep, InCall
  <2> QED
    BY <2>2, <2>3
<1> QED
  BY <1>2, <1>3, <1>4 DEF Next

\* A batch enters the way to its push, and the period, by its creation alone.
LEMMA StatusMoves ==
  ASSUME TypeInv, BegunInv, [Next]_vars, ~(\E b \in Batches : Create(b)), NEW c \in Batches
  PROVE  /\ status'[c] \in Inflight => status[c] \in Inflight
         /\ status'[c] = "none" <=> status[c] = "none"
<1> DEFINE Kept == /\ status'[c] \in Inflight => status[c] \in Inflight
                   /\ status'[c] = "none" <=> status[c] = "none"
<1>1. run \in [Batches -> Run] /\ status \in [Batches -> Statuses]
  BY TypeParts DEF RunTyped, Rest
<1>2. CASE ErpUser \/ LockPeriod \/ Unlock \/ UNCHANGED vars
  BY <1>2 DEF ErpUser, ErpEdits, ErpApproves, ErpPosts, LockPeriod, Unlock, UnlockProbe,
     UnlockTake, UnlockCommit, UnlockVictim, vars, pgVars
<1>3. ASSUME NEW b \in Batches, Operator(b) PROVE Kept
  <2>1. CASE Validate(b) \/ Reopen(b)
    BY <1>1, <2>1 DEF Validate, Reopen, Inflight
  <2>2. CASE Abandon(b)
    <3>1. status[b] # "none" /\ status' = [status EXCEPT ![b] = "failed"]
      BY <2>2 DEF Abandon, Allowed, CanTransition
    <3> QED
      BY <1>1, <3>1 DEF Inflight
  <2>3. CASE \E op \in Ops : StepBegin(b, op)
    BY <2>3 DEF StepBegin, pgVars
  <2> QED
    BY <1>3, <2>1, <2>2, <2>3 DEF Operator
<1>4. ASSUME NEW b \in Batches, StepCommit(b) PROVE Kept
  <2>1. status[b] \in BegunFrom(run[b].op) /\ run[b].op \in Ops
    BY <1>1, <1>4 DEF StepCommit, BegunInv, InStep, TypeInv, StepOp
  <2>2. status[b] # "none"
    BY <2>1 DEF BegunFrom, Ops
  <2>3. CASE FinishPush(b)
    <3>1. status[b] \in Inflight
      BY <2>1, <2>3 DEF FinishPush, BegunFrom, Inflight
    <3>2. status'[c] = status[c] \/ (c = b /\ status'[b] \in {"pushed", "failed"})
      BY <1>1, <2>3 DEF FinishPush
    <3> QED
      BY <2>2, <3>1, <3>2
  <2>4. CASE FinishValuate(b)
    <3>1. \/ status'[c] = status[c]
          \/ c = b /\ status'[c] = "valuated"
          \/ status[c] \in Active /\ status'[c] = "superseded"
      BY <1>1, <2>4 DEF FinishValuate, Prior
    <3> QED
      BY <2>2, <3>1 DEF Inflight, Active
  <2>5. CASE FinishApprove(b) \/ FinishRestore(b) \/ FinishLock(b) \/ Hold(b)
    <3>1. status'[c] = status[c] \/ (c = b /\ status'[b] \in {"failed", "locked"})
      BY <1>1, <2>5 DEF FinishApprove, FinishRestore, FinishLock, Hold
    <3> QED
      BY <2>2, <3>1 DEF Inflight
  <2> QED
    BY <1>4, <2>3, <2>4, <2>5 DEF StepCommit
<1>5. ASSUME NEW b \in Batches, ReconCommit(b) PROVE Kept
  BY <1>5, ReconStatus DEF Inflight
<1>6. ASSUME NEW b \in Batches, Advance(b) \/ Mishap(b) \/ ReconRead(b),
             ~StepCommit(b), ~ReconCommit(b)
      PROVE  Kept
  BY <1>6, StatusKept
<1> QED
  BY <1>2, <1>3, <1>4, <1>5, <1>6 DEF Next, Advance

LEMMA InflightStep ==
  ASSUME TypeInv, BegunInv, InSequence, InflightLatest, [Next]_vars
  PROVE  InSequence' /\ InflightLatest'
<1>1. status \in [Batches -> Statuses] /\ NumBatches \in Nat
  BY TypeParts, BoundsAssumption DEF Rest
<1>2. CASE ~(\E b \in Batches : Create(b))
  <2>1. \A c \in Batches : /\ status'[c] \in Inflight => status[c] \in Inflight
                           /\ status'[c] = "none" <=> status[c] = "none"
    BY <1>2, StatusMoves
  <2> QED
    BY <2>1 DEF InSequence, InflightLatest, Latest
<1>3. ASSUME NEW b \in Batches, Create(b) PROVE InSequence' /\ InflightLatest'
  <2>1. /\ \A c \in Batches : c < b => status[c] # "none"
        /\ \A c \in Batches : status[c] \notin Inflight
        /\ status[b] = "none" /\ status' = [status EXCEPT ![b] = "new"]
    BY <1>1, <1>3 DEF Create, Batches
  <2>2. \A c \in Batches : c > b => status[c] = "none"
    BY <2>1 DEF InSequence
  <2>3. \A c \in Batches : c = b \/ c > b \/ c < b
    BY <1>1 DEF Batches
  <2>4. status'[b] = "new" /\ \A c \in Batches \ {b} : status'[c] = status[c]
    BY <1>1, <2>1
  <2>5. \A c \in Batches : ~(c > c) /\ ~(c < b /\ c > b) /\ ~(c < c)
    BY <1>1 DEF Batches
  <2>6. InSequence'
    <3> SUFFICES ASSUME NEW c \in Batches, NEW d \in Batches, c > d, status'[d] = "none"
                 PROVE  status'[c] = "none"
      BY DEF InSequence
    <3>1. d > b
      BY <2>1, <2>3, <2>4
    <3>2. c > b
      BY <1>1, <3>1 DEF Batches
    <3> QED
      BY <2>2, <2>4, <2>5, <3>2
  <2>7. InflightLatest'
    <3>1. \A d \in Batches : status'[d] \in Inflight => d = b
      BY <2>1, <2>4
    <3>2. \A c \in Batches : c > b => status'[c] = "none"
      BY <2>2, <2>4, <2>5
    <3> QED
      BY <3>1, <3>2 DEF InflightLatest, Latest
  <2> QED
    BY <2>6, <2>7
<1> QED
  BY <1>2, <1>3

LEMMA UnbornStep ==
  ASSUME TypeInv, BegunInv, CallsOpen, Unborn, [Next]_vars
  PROVE  Unborn'
<1>1. header \in [Batches -> HeaderStatuses] /\ status \in [Batches -> Statuses]
  BY TypeParts DEF OracleTyped, Rest
<1> SUFFICES ASSUME NEW c \in Batches, status'[c] = "none" PROVE header'[c] = "none"
  BY DEF Unborn
<1>2. status[c] = "none" /\ header[c] = "none"
  <2>1. CASE \E b \in Batches : Create(b)
    BY <1>1, <2>1 DEF Create, Unborn
  <2>2. CASE ~(\E b \in Batches : Create(b))
    BY <2>2, StatusMoves DEF Unborn
  <2> QED
    BY <2>1, <2>2
<1>3. ASSUME NEW b \in Batches, Committed(b) PROVE header'[c] = "none"
  <2>1. status[b] \in BegunFrom(run[b].op) /\ run[b].op \in Ops
    BY <1>3 DEF Committed, Commits, BegunInv, InStep, InCall
  <2>2. b # c
    BY <1>2, <2>1 DEF BegunFrom, Ops
  <2> QED
    BY <1>1, <1>2, <1>3, <2>1, <2>2 DEF Committed, Commits, Effect, Ops, InsertBatch,
       ValuateAdj, ApproveAdj, RestoreAdj, LockHeader
<1> QED
  BY <1>2, <1>3, StampsStep DEF NothingStamped

LEMMA RestoreStep ==
  ASSUME TypeInv, Solo, CallsOpen, Unborn, RestoreLatest, [Next]_vars
  PROVE  RestoreLatest'
<1>1. run \in [Batches -> Run] /\ header \in [Batches -> HeaderStatuses]
  BY TypeParts DEF RunTyped, OracleTyped
<1>2. ASSUME \A b \in Batches : InStep(b)' /\ run'[b].op = "restore" =>
                               InStep(b) /\ run[b].op = "restore",
             UNCHANGED header
      PROVE  RestoreLatest'
  BY <1>2 DEF RestoreLatest
<1>3. CASE ErpUser \/ LockPeriod \/ Unlock \/ UNCHANGED vars
  <2>1. UNCHANGED <<run, header>>
    BY <1>3 DEF ErpUser, ErpEdits, ErpApproves, ErpPosts, LockPeriod, Unlock, UnlockProbe,
       UnlockTake, UnlockCommit, UnlockVictim, vars, oracleVars
  <2> QED
    BY <1>2, <2>1 DEF InStep, InCall
<1>4. ASSUME NEW b \in Batches, Operator(b) PROVE RestoreLatest'
  <2>1. UNCHANGED header
    BY <1>4 DEF Operator, Create, Validate, Reopen, Abandon, StepBegin, oracleVars
  <2>2. CASE UNCHANGED run
    BY <1>2, <2>1, <2>2 DEF InStep, InCall
  <2>3. ASSUME NEW op \in Ops, StepBegin(b, op) PROVE RestoreLatest'
    <3>1. /\ run'[b].op = op
          /\ \A c \in Batches \ {b} : run'[c] = run[c] /\ run[c].pc = "idle"
      BY <1>1, <2>3 DEF StepBegin, Idle, NoStep, HoldsRow
    <3>2. op = "restore" => \A c \in Batches : c > b => header[c] = "none"
      BY <2>3 DEF StepBegin, StepGate, Latest, Unborn
    <3> QED
      BY <2>1, <3>1, <3>2 DEF RestoreLatest, InStep, InCall
  <2> QED
    BY <1>4, <2>2, <2>3 DEF Operator, Create, Validate, Reopen, Abandon
<1>5. ASSUME NEW b \in Batches, Advance(b) \/ Mishap(b) \/ ReconRead(b) PROVE RestoreLatest'
  <2>1. \A c \in Batches \ {b} : run'[c] = run[c]
    BY <1>5, RunAfter
  <2>2. InStep(b)' => InStep(b) /\ run'[b].op = run[b].op
    BY <1>5, OpAfter DEF InStep
  <2>3. CASE NothingLanded
    BY <1>2, <2>1, <2>2, <2>3 DEF NothingLanded, oracleVars, InStep, InCall
  <2>4. CASE Committed(b)
    <3>1. \A c \in Batches \ {b} : run[c].pc = "idle"
      BY <2>4 DEF Committed, Commits, Solo, HoldsRow
    <3>2. \A c \in Batches \ {b} : run[b].op = "restore" => header'[c] = header[c]
      BY <1>1, <2>4 DEF Committed, Commits, Effect, RestoreAdj
    <3>3. ~(b > b)
      BY BoundsAssumption DEF Batches
    <3> QED
      BY <2>1, <2>2, <3>1, <3>2, <3>3 DEF RestoreLatest, InStep, InCall
  <2> QED
    BY <1>5, <2>3, <2>4, BatchLanded
<1> QED
  BY <1>3, <1>4, <1>5 DEF Next

LEMMA BirthStep ==
  ASSUME TypeInv, Solo, CallsOpen, BirthInv, [Next]_vars
  PROVE  BirthInv'
  BY BegunStep, InflightStep, UnbornStep, RestoreStep DEF BirthInv

LEMMA BirthInit == Init => CallsOpen /\ BirthInv
<1> SUFFICES ASSUME Init PROVE CallsOpen /\ BirthInv
  OBVIOUS
<1>1. \A b \in Batches : run[b].pc = "idle" /\ status[b] = "none" /\ header[b] = "none"
  BY DEF Init, Idle
<1> QED
  BY <1>1, CheckedInit DEF CallsOpen, LastOpen, BirthInv, BegunInv, InStep, InCall, InSequence,
     InflightLatest, Inflight, Unborn, RestoreLatest

-----------------------------------------------------------------------------
(* The stamps.  A batch that has not been valued is nowhere in the         *)
(* adjustments or in the log of what they were, and what a batch overwrote *)
(* is older than itself.                                                   *)

NotYet(b) == header[b] \in {"none", "pushed"}

\* Of a batch that a stamp names.
Named(c, h) == ~NotYet(c) /\ adjLog[c][h] # NotLogged

StampsNamed == \A h \in Heads, c \in Batches : adj[h].stamp = c => Named(c, h)
LogsOlder ==
  \A h \in Heads, b, c \in Batches : adjLog[b][h].stamp = c => c < b /\ Named(c, h)
LogsLater == \A h \in Heads, c \in Batches : NotYet(c) => adjLog[c][h] = NotLogged
TrailInv == StampsNamed /\ LogsOlder /\ LogsLater

\* A header does not go back.
LEMMA HeaderForward ==
  ASSUME TypeInv, CallsOpen, [Next]_vars, NEW c \in Batches
  PROVE  /\ header[c] # "none" => header'[c] # "none"
         /\ ~NotYet(c) => ~NotYet(c)'
         /\ header[c] \notin {"none", "pushed", "valuated"} =>
              header'[c] \notin {"none", "pushed", "valuated"}
<1>1. header \in [Batches -> HeaderStatuses]
  BY TypeParts DEF OracleTyped
<1>2. ASSUME NEW b \in Batches, Committed(b)
      PROVE  /\ header[c] # "none" => header'[c] # "none"
             /\ header[c] \notin {"none", "pushed"} => header'[c] \notin {"none", "pushed"}
             /\ header[c] \notin {"none", "pushed", "valuated"} =>
                  header'[c] \notin {"none", "pushed", "valuated"}
  BY <1>1, <1>2 DEF Committed, Commits, Checked, HeaderFits, Effect, Ops, InsertBatch,
     ValuateAdj, ApproveAdj, RestoreAdj, LockHeader, HeaderStatuses
<1> QED
  BY <1>2, StampsStep DEF NothingStamped, NotYet

LEMMA NotLoggedStamp ==
  ASSUME TypeInv, NEW b \in Batches, NEW h \in Heads
  PROVE  /\ adjLog[b][h] = NotLogged <=> adjLog[b][h].stamp = NumBatches + 1
         /\ NotLogged.stamp \notin Batches /\ ~(NumBatches + 1 \in 0..NumBatches)
         /\ adj[h].stamp \in 0..NumBatches
<1>1. adjLog[b][h] \in OldValue /\ adj[h] \in Adjustment /\ NumBatches \in Nat
  BY TypeParts, BoundsAssumption DEF OracleTyped
<1> QED
  BY <1>1 DEF OldValue, NotLogged, Batches, Adjustment

\* What a commit does to the stamps and to the log of one head.
LEMMA CommitStamps ==
  ASSUME TypeInv, NEW b \in Batches, Committed(b), NEW h \in Heads
  PROVE  \/ /\ adj'[h].stamp = adj[h].stamp
            /\ \A c \in Batches : adjLog'[c][h] = adjLog[c][h]
         \/ /\ run[b].op = "valuate" /\ adj'[h].stamp = b
            /\ adjLog'[b][h].stamp = adj[h].stamp
            /\ \A c \in Batches \ {b} : adjLog'[c][h] = adjLog[c][h]
         \/ /\ run[b].op = "restore" /\ adj[h].stamp = b /\ adjLog[b][h] # NotLogged
            /\ adj'[h].stamp = adjLog[b][h].stamp
            /\ \A c \in Batches : adjLog'[c][h] = adjLog[c][h]
<1>1. /\ adj[h] \in Adjustment /\ adjLog \in [Batches -> [Heads -> OldValue]]
      /\ adj \in [Heads -> Adjustment]
  BY TypeParts DEF OracleTyped
<1>2. run[b].op \in Ops /\ Effect(b, run[b].op) /\ Written(b)
  BY DEF Committed, Commits
<1>3. CASE run[b].op \in {"push", "lock"}
  BY <1>2, <1>3 DEF Effect, InsertBatch, LockHeader
<1>4. CASE run[b].op = "valuate"
  <2>1. ValuateAdj(b)
    BY <1>2, <1>4 DEF Effect
  <2>2. /\ adj'[h] = IF h \in Selected(b) THEN [adj[h] EXCEPT !.stamp = b, !.val = b]
                                            ELSE adj[h]
        /\ adjLog'[b][h] = IF h \in Selected(b) THEN run[b].rows[h] ELSE adjLog[b][h]
        /\ \A c \in Batches \ {b} : adjLog'[c][h] = adjLog[c][h]
    BY <1>1, <2>1 DEF ValuateAdj
  <2>3. [adj[h] EXCEPT !.stamp = b, !.val = b].stamp = b
    BY <1>1 DEF Adjustment
  <2>4. CASE h \in Selected(b)
    <3>1. run[b].rows[h].stamp = adj[h].stamp
      BY <1>2, <1>4, <2>4 DEF Written
    <3> QED
      BY <1>4, <2>2, <2>3, <2>4, <3>1
  <2>5. CASE h \notin Selected(b)
    BY <2>2, <2>5
  <2> QED
    BY <2>4, <2>5
<1>5. CASE run[b].op = "approve"
  <2>1. ApproveAdj(b)
    BY <1>2, <1>5 DEF Effect
  <2>2. adj'[h] = adj[h] \/ adj'[h] = [adj[h] EXCEPT !.state = "approved"]
    BY <2>1 DEF ApproveAdj
  <2>3. adj'[h].stamp = adj[h].stamp
    BY <1>1, <2>2 DEF Adjustment
  <2> QED
    BY <2>1, <2>3 DEF ApproveAdj
<1>6. CASE run[b].op = "restore"
  <2>1. RestoreAdj(b)
    BY <1>2, <1>6 DEF Effect
  <2> DEFINE back == [adj[h] EXCEPT !.stamp = adjLog[b][h].stamp, !.val = adjLog[b][h].val]
  <2>2. adj'[h] = IF h \in StampedBy(b) /\ adjLog[b][h] # NotLogged THEN back ELSE adj[h]
    BY <2>1 DEF RestoreAdj
  <2>3. back.stamp = adjLog[b][h].stamp
    BY <1>1 DEF Adjustment
  <2>4. UNCHANGED adjLog
    BY <2>1 DEF RestoreAdj
  <2> HIDE DEF back
  <2> QED
    BY <1>6, <2>2, <2>3, <2>4 DEF StampedBy
<1> QED
  BY <1>2, <1>3, <1>4, <1>5, <1>6 DEF Ops

\* Only the log of the batch itself is written, by its valuation.
LEMMA CommitLogs ==
  ASSUME TypeInv, NEW b \in Batches, Committed(b), NEW h \in Heads, NEW c \in Batches,
         c # b \/ run[b].op # "valuate"
  PROVE  adjLog'[c][h] = adjLog[c][h]
<1>1. adjLog \in [Batches -> [Heads -> OldValue]]
  BY TypeParts DEF OracleTyped
<1>2. run[b].op \in Ops /\ Effect(b, run[b].op) /\ Written(b)
  BY DEF Committed, Commits
<1>3. CASE run[b].op = "valuate"
  BY <1>1, <1>2, <1>3 DEF Effect, ValuateAdj
<1>4. CASE run[b].op # "valuate"
  <2>1. UNCHANGED adjLog
    BY <1>2, <1>4 DEF Effect, Ops, InsertBatch, ApproveAdj, RestoreAdj, LockHeader
  <2> QED
    BY <2>1
<1> QED
  BY <1>3, <1>4

LEMMA CommitOld ==
  ASSUME TypeInv, NEW b \in Batches, Committed(b), NEW h \in Heads
  PROVE  adjLog'[b][h] = adjLog[b][h] \/ adjLog'[b][h].stamp = adj[h].stamp
<1>1. CASE run[b].op = "valuate"
  <2>1. /\ ValuateAdj(b) /\ adjLog \in [Batches -> [Heads -> OldValue]]
        /\ \A k \in Selected(b) : run[b].rows[k].stamp = adj[k].stamp
    BY <1>1, TypeParts DEF Committed, Commits, Effect, Written, OracleTyped
  <2>2. adjLog'[b][h] = IF h \in Selected(b) THEN run[b].rows[h] ELSE adjLog[b][h]
    BY <2>1 DEF ValuateAdj
  <2> QED
    BY <2>1, <2>2
<1>2. CASE run[b].op # "valuate"
  BY <1>2, CommitLogs
<1> QED
  BY <1>1, <1>2

\* Any other commit keeps a head's stamp or puts the logged one back.
LEMMA CommitStampOf ==
  ASSUME TypeInv, NEW b \in Batches, Committed(b), NEW h \in Heads, run[b].op # "valuate"
  PROVE  adj'[h].stamp = adj[h].stamp \/ adj'[h].stamp = adjLog[b][h].stamp
<1> DEFINE before == adj[h].stamp
           after == adj'[h].stamp
           old == adjLog[b][h].stamp
           landed == adjLog'[b][h].stamp = adj[h].stamp
           kept == \A c \in Batches : adjLog'[c][h] = adjLog[c][h]
           others == \A c \in Batches \ {b} : adjLog'[c][h] = adjLog[c][h]
           found == adjLog[b][h] # NotLogged
<1>1. \/ after = before /\ kept
      \/ run[b].op = "valuate" /\ after = b /\ landed /\ others
      \/ run[b].op = "restore" /\ before = b /\ found /\ after = old /\ kept
  BY CommitStamps
<1> HIDE DEF before, after, old, landed, kept, others, found
<1>2. after = before \/ after = old
  BY <1>1
<1> QED
  BY <1>2 DEF before, after, old

\* A valuation finds older batches' stamps only.
LEMMA ValuateOlder ==
  ASSUME TypeInv, BirthInv, StampsNamed, NEW b \in Batches, Committed(b), run[b].op = "valuate",
         NEW h \in Heads, NEW c \in Batches, adj[h].stamp = c
  PROVE  c < b
<1>1. header[b] = "pushed" /\ ~NotYet(c)
  BY DEF Committed, Checked, HeaderFits, StampsNamed, Named
<1>2. c # b /\ status[c] # "none"
  BY <1>1 DEF NotYet, BirthInv, Unborn
<1>3. ~(c > b)
  <2>1. status[b] \in Inflight
    BY DEF Committed, Commits, BirthInv, BegunInv, InStep, InCall, BegunFrom, Inflight
  <2> QED
    BY <1>2, <2>1 DEF BirthInv, InflightLatest, Latest
<1> QED
  BY <1>2, <1>3, BoundsAssumption DEF Batches

LEMMA TrailStep ==
  ASSUME TypeInv, CallsOpen, BirthInv, TrailInv, [Next]_vars
  PROVE  TrailInv'
<1>0. TypeInv'
  BY TypeStep
<1>1. CASE NothingStamped
  BY <1>1 DEF NothingStamped, TrailInv, StampsNamed, LogsOlder, LogsLater, Named, NotYet
<1>2. ASSUME NEW b \in Batches, Committed(b) PROVE TrailInv'
  <2>1. ASSUME NEW h \in Heads, NEW c \in Batches, Named(c, h) PROVE Named(c, h)'
    <3>1. ~NotYet(c)'
      BY <2>1, HeaderForward DEF Named
    <3>2. adjLog'[c][h] # NotLogged
      <4>1. adjLog[c][h] # NotLogged
        BY <2>1 DEF Named
      <4>2. adj[h].stamp # NotLogged.stamp
        BY NotLoggedStamp DEF NotLogged
      <4> QED
        BY <1>2, <4>1, <4>2, CommitOld, CommitLogs
    <3> QED
      BY <3>1, <3>2 DEF Named
  <2>2. CASE run[b].op = "valuate"
    <3>1. header[b] = "pushed" /\ header'[b] = "valuated"
      BY <1>2, <2>2, TypeParts DEF Committed, Commits, Checked, HeaderFits, Effect, ValuateAdj
    <3>2. ASSUME NEW h \in Heads, NEW c \in Batches, adj'[h].stamp = c PROVE Named(c, h)'
      <4>1. CASE adj'[h].stamp = adj[h].stamp /\ \A d \in Batches : adjLog'[d][h] = adjLog[d][h]
        BY <2>1, <3>2, <4>1 DEF TrailInv, StampsNamed
      <4>2. CASE adj'[h].stamp = b /\ adjLog'[b][h].stamp = adj[h].stamp
        <5>1. adjLog'[b][h] # NotLogged
          BY <4>2, NotLoggedStamp DEF NotLogged
        <5> QED
          BY <3>1, <3>2, <4>2, <5>1 DEF Named, NotYet
      <4> QED
        BY <1>2, <2>2, <4>1, <4>2, CommitStamps
    <3>3. ASSUME NEW h \in Heads, NEW d \in Batches, NEW c \in Batches, adjLog'[d][h].stamp = c
          PROVE  c < d /\ Named(c, h)'
      <4>1. CASE adjLog'[d][h] = adjLog[d][h]
        BY <2>1, <3>3, <4>1 DEF TrailInv, LogsOlder
      <4>2. CASE d = b /\ adjLog'[b][h].stamp = adj[h].stamp
        <5>1. adj[h].stamp = c
          BY <3>3, <4>2
        <5>2. c < b
          BY <1>2, <2>2, <5>1, ValuateOlder DEF TrailInv
        <5> QED
          BY <2>1, <4>2, <5>1, <5>2 DEF TrailInv, StampsNamed
      <4> QED
        BY <1>2, <2>2, <4>1, <4>2, CommitStamps
    <3>4. ASSUME NEW h \in Heads, NEW c \in Batches, NotYet(c)' PROVE adjLog'[c][h] = NotLogged
      <4>1. NotYet(c) /\ c # b
        BY <3>1, <3>4, HeaderForward DEF NotYet
      <4> QED
        <5>1. adjLog[c][h] = NotLogged
          BY <4>1 DEF TrailInv, LogsLater
        <5>2. adjLog'[c][h] = adjLog[c][h]
          BY <1>2, <4>1, CommitLogs
        <5> QED
          BY <5>1, <5>2
    <3> QED
      BY <3>2, <3>3, <3>4 DEF TrailInv, StampsNamed, LogsOlder, LogsLater
  <2>3. CASE run[b].op # "valuate"
    <3>1. \A h \in Heads : /\ \A c \in Batches : adjLog'[c][h] = adjLog[c][h]
                           /\ \/ adj'[h].stamp = adj[h].stamp
                              \/ adj'[h].stamp = adjLog[b][h].stamp
      BY <1>2, <2>3, CommitLogs, CommitStampOf
    <3>2. StampsNamed'
      BY <2>1, <3>1 DEF TrailInv, StampsNamed, LogsOlder
    <3>3. LogsOlder'
      BY <2>1, <3>1 DEF TrailInv, LogsOlder
    <3>4. LogsLater'
      BY <3>1, HeaderForward DEF TrailInv, LogsLater
    <3> QED
      BY <3>2, <3>3, <3>4 DEF TrailInv
  <2> QED
    BY <2>2, <2>3
<1> QED
  BY <1>1, <1>2, StampsStep

LEMMA TrailInit == Init => TrailInv
<1> SUFFICES ASSUME Init PROVE TrailInv
  OBVIOUS
<1>1. \A h \in Heads, b \in Batches : adj[h].stamp = None /\ adjLog[b][h] = NotLogged
  BY DEF Init, NoRows
<1>2. None \notin Batches /\ NotLogged.stamp \notin Batches
  BY BoundsAssumption DEF None, Batches, NotLogged
<1> QED
  BY <1>1, <1>2 DEF TrailInv, StampsNamed, LogsOlder, LogsLater

-----------------------------------------------------------------------------
(* What a landed call leaves behind for good.                              *)

Gone(b) == \A h \in Heads : adj[h].stamp # b /\ \A c \in Batches : adjLog[c][h].stamp # b
TraceOf(b) ==
  /\ "push" \in Landed(calls[b]) => header[b] # "none"
  /\ "valuate" \in Landed(calls[b]) => ~NotYet(b)
  /\ "approve" \in Landed(calls[b]) => header[b] \notin {"none", "pushed", "valuated"}
  /\ "restore" \in Landed(calls[b]) => ~NotYet(b) /\ Gone(b)
  /\ "lock" \in Landed(calls[b]) => Posted /\ header[b] = "locked"
TraceInv == \A b \in Batches : TraceOf(b)

\* A restored batch does not come back: nobody holds its stamp.
LEMMA GoneStays ==
  ASSUME TypeInv, CallsOpen, [Next]_vars, NEW c \in Batches, ~NotYet(c), Gone(c)
  PROVE  Gone(c)'
<1>1. CASE NothingStamped
  BY <1>1 DEF NothingStamped, Gone
<1>2. ASSUME NEW b \in Batches, Committed(b) PROVE Gone(c)'
  <2>1. run[b].op = "valuate" => b # c
    BY <1>2 DEF Committed, Checked, HeaderFits, NotYet
  <2>2. ASSUME NEW h \in Heads
        PROVE  adj'[h].stamp # c /\ \A d \in Batches : adjLog'[d][h].stamp # c
    <3>1. adj[h].stamp # c /\ \A d \in Batches : adjLog[d][h].stamp # c
      BY DEF Gone
    <3>3. CASE run[b].op = "valuate"
      <4>1. adj'[h].stamp = adj[h].stamp \/ adj'[h].stamp = b
        BY <1>2, <3>3, CommitStamps
      <4>2. adjLog'[b][h] = adjLog[b][h] \/ adjLog'[b][h].stamp = adj[h].stamp
        BY <1>2, CommitOld
      <4>3. \A d \in Batches \ {b} : adjLog'[d][h] = adjLog[d][h]
        BY <1>2, CommitLogs
      <4> QED
        BY <2>1, <3>1, <3>3, <4>1, <4>2, <4>3
    <3>4. CASE run[b].op # "valuate"
      <4>1. adj'[h].stamp = adj[h].stamp \/ adj'[h].stamp = adjLog[b][h].stamp
        BY <1>2, <3>4, CommitStampOf
      <4>2. \A d \in Batches : adjLog'[d][h] = adjLog[d][h]
        BY <1>2, <3>4, CommitLogs
      <4> QED
        BY <3>1, <4>1, <4>2
    <3> QED
      BY <3>3, <3>4
  <2> QED
    BY <2>2 DEF Gone
<1> QED
  BY <1>1, <1>2, StampsStep

\* No younger batch has overwritten anything, no older one can have overwritten its stamp.
LEMMA RestoreGone ==
  ASSUME TypeInv, BirthInv, TrailInv, NEW b \in Batches, Committed(b), run[b].op = "restore"
  PROVE  Gone(b)'
<1> SUFFICES ASSUME NEW h \in Heads
             PROVE  adj'[h].stamp # b /\ \A d \in Batches : adjLog'[d][h].stamp # b
  BY DEF Gone
<1>1. \A d \in Batches : adjLog'[d][h] = adjLog[d][h]
  BY CommitStamps
<1>2. ASSUME NEW d \in Batches PROVE adjLog[d][h].stamp # b
  <2>1. CASE d > b
    <3>1. header[d] = "none"
      BY <2>1 DEF Committed, Commits, BirthInv, RestoreLatest, InStep, InCall
    <3>2. adjLog[d][h] = NotLogged
      BY <3>1 DEF TrailInv, LogsLater, NotYet
    <3> QED
      BY <3>2, NotLoggedStamp
  <2>2. CASE ~(d > b)
    <3>1. adjLog[d][h].stamp = b => b < d
      BY DEF TrailInv, LogsOlder
    <3> QED
      BY <2>2, <3>1, BoundsAssumption DEF Batches
  <2> QED
    BY <2>1, <2>2
<1>3. adj'[h].stamp # b
  <2>1. CASE adj[h].stamp = b
    <3>1. adjLog[b][h] # NotLogged
      BY <2>1 DEF TrailInv, StampsNamed, Named
    <3>2. RestoreAdj(b) /\ adj[h] \in Adjustment
      BY TypeParts DEF Committed, Commits, Effect, OracleTyped
    <3> DEFINE back == [adj[h] EXCEPT !.stamp = adjLog[b][h].stamp, !.val = adjLog[b][h].val]
    <3>3. adj'[h] = back
      BY <2>1, <3>1, <3>2 DEF RestoreAdj, StampedBy
    <3>4. back.stamp = adjLog[b][h].stamp
      BY <3>2 DEF Adjustment
    <3> HIDE DEF back
    <3> QED
      BY <1>2, <3>3, <3>4
  <2>2. CASE adj[h].stamp # b
    BY <2>2, CommitStamps
  <2> QED
    BY <2>1, <2>2
<1> QED
  BY <1>1, <1>2, <1>3

LEMMA TraceStep ==
  ASSUME TypeInv, CallsOpen, BirthInv, TrailInv, TraceInv, [Next]_vars
  PROVE  TraceInv'
<1>1. header \in [Batches -> HeaderStatuses]
  BY TypeParts DEF OracleTyped
\* What has landed before keeps its trace.
<1>2. ASSUME NEW c \in Batches
      PROVE  /\ "push" \in Landed(calls[c]) => header'[c] # "none"
             /\ "valuate" \in Landed(calls[c]) => ~NotYet(c)'
             /\ "approve" \in Landed(calls[c]) => header'[c] \notin {"none", "pushed", "valuated"}
             /\ "restore" \in Landed(calls[c]) => ~NotYet(c)' /\ Gone(c)'
             /\ "lock" \in Landed(calls[c]) => Posted' /\ header'[c] = "locked"
  BY HeaderForward, GoneStays, LandedKept DEF TraceInv, TraceOf, CallsOpen
<1>3. CASE \A c \in Batches : Landed(calls[c])' = Landed(calls[c])
  BY <1>2, <1>3 DEF TraceInv, TraceOf
<1>4. ASSUME NEW b \in Batches, Committed(b) PROVE TraceInv'
  <2>1. \A c \in Batches \ {b} : TraceOf(c)'
    BY <1>2, <1>4 DEF Committed, TraceOf
  <2>2. /\ Landed(calls[b])' = Landed(calls[b]) \cup {run[b].op}
        /\ run[b].op \in Ops /\ Checked(b) /\ Effect(b, run[b].op)
    BY <1>4 DEF Committed, Commits
  <2>3. run[b].op = "push" => header'[b] # "none"
    BY <1>1, <2>2 DEF Effect, InsertBatch
  <2>4. run[b].op = "valuate" => ~NotYet(b)'
    BY <1>1, <2>2 DEF Effect, ValuateAdj, NotYet
  <2>5. run[b].op = "approve" => header'[b] \notin {"none", "pushed", "valuated"}
    BY <1>1, <2>2 DEF Effect, ApproveAdj
  <2>6. run[b].op = "restore" => ~NotYet(b)' /\ Gone(b)'
    BY <1>1, <1>4, <2>2, RestoreGone DEF Effect, RestoreAdj, NotYet
  <2>7. run[b].op = "lock" => Posted' /\ header'[b] = "locked"
    BY <1>1, <2>2, PostedStays DEF CallsOpen, Checked, Effect, LockHeader
  <2>8. TraceOf(b)'
    BY <1>2, <2>2, <2>3, <2>4, <2>5, <2>6, <2>7 DEF TraceOf
  <2> QED
    BY <2>1, <2>8 DEF TraceInv
<1> QED
  BY <1>3, <1>4, StampsStep DEF NothingStamped

\* So the headers and stamps never prove of a landed call that it failed.
LEMMA ProofFailed ==
  ASSUME TypeInv, TraceInv, NEW b \in Batches, NEW op \in Landed(calls[b]), op \in Ops
  PROVE  Proof(b, op) # "FAILED"
  BY DEF TraceInv, TraceOf, Proof, NotYet, Gone, StampedBy, Ops

FailedIn(log) == \A i \in 1..Len(log) : log[i].st = "FAILED" => ~log[i].landed
FailedInv == \A b \in Batches : FailedIn(calls[b])

LEMMA LastAsFailed ==
  ASSUME NEW log \in Seq(Call), log # <<>>, FailedIn(log),
         NEW st \in {"STARTED", "SUCCESS", "FAILED", "UNKNOWN"}, NEW landed \in BOOLEAN,
         st = "FAILED" => ~landed
  PROVE  FailedIn(LastAs(log, st, landed))
<1> DEFINE new == LastAs(log, st, landed)
           n == Len(log)
<1>1. /\ Len(new) = n /\ n \in 1..n
      /\ \A i \in 1..n : i # n => new[i] = log[i]
      /\ new[n] = [op |-> log[n].op, st |-> st, landed |-> landed]
  BY LastAsRows
<1>2. new[n].st = st /\ new[n].landed = landed
  <2> HIDE DEF new
  <2> QED
    BY <1>1
<1> HIDE DEF new
<1> QED
  BY <1>1, <1>2 DEF FailedIn, new

LEMMA StartedFailed ==
  ASSUME NEW log \in Seq(Call), NEW op \in Ops, FailedIn(log)
  PROVE  FailedIn(Started(log, op))
<1> DEFINE new == Started(log, op)
           row == [op |-> op, st |-> "STARTED", landed |-> FALSE]
<1>1. /\ Len(new) = Len(log) + 1 /\ Len(log) \in Nat
      /\ \A i \in 1..Len(log) : new[i] = log[i]
      /\ new[Len(log) + 1] = row
  BY StartedRows
<1>2. ~row.landed
  OBVIOUS
<1> HIDE DEF new, row
<1>3. \A i \in 1..Len(new) : i \in 1..Len(log) \/ i = Len(log) + 1
  BY <1>1
<1> QED
  BY <1>1, <1>2, <1>3 DEF FailedIn, new

LEMMA SettledFailed ==
  ASSUME TypeInv, TraceInv, NEW b \in Batches, FailedIn(calls[b])
  PROVE  FailedIn(Settled(b))
<1> SUFFICES ASSUME NEW i \in 1..Len(calls[b]), Settled(b)[i].st = "FAILED"
             PROVE  ~calls[b][i].landed
  BY SettledRows DEF FailedIn
<1>1. calls[b][i].op \in Ops
  <2>1. calls[b] \in Seq(Call)
    BY TypeParts DEF RunTyped
  <2>2. calls[b][i] \in Call
    BY <2>1
  <2> QED
    BY <2>2 DEF Call
<1>2. calls[b][i].landed => calls[b][i].op \in Landed(calls[b])
  BY DEF Landed
<1>3. \/ calls[b][i].st = "FAILED"
      \/ Proof(b, calls[b][i].op) = "FAILED"
  BY SettledRows
<1> QED
  BY <1>1, <1>2, <1>3, ProofFailed DEF FailedIn

LEMMA FailedStep ==
  ASSUME TypeInv, TraceInv, FailedInv, [Next]_vars
  PROVE  FailedInv'
<1>1. RunTyped /\ calls \in [Batches -> Seq(Call)]
  BY TypeParts DEF RunTyped
<1>2. ASSUME NEW b \in Batches, NEW log, calls' = [calls EXCEPT ![b] = log], FailedIn(log)
      PROVE  FailedInv'
  BY <1>1, <1>2 DEF FailedInv, FailedIn
<1>3. CASE UNCHANGED calls
  BY <1>3 DEF FailedInv, FailedIn
<1>4. ASSUME NEW b \in Batches, Advance(b) \/ Mishap(b) \/ ReconRead(b), calls' # calls
      PROVE  FailedInv'
  <2>1. calls[b] \in Seq(Call) /\ FailedIn(calls[b])
        /\ (InStep(b) => run[b].op \in Ops)
    BY <1>1 DEF FailedInv, RunTyped, StepOp, InStep
  <2>2. ASSUME InCall(b),
               NEW st \in {"STARTED", "SUCCESS", "FAILED", "UNKNOWN"}, NEW landed \in BOOLEAN,
               st = "FAILED" => ~landed
        PROVE  /\ Close(b, st, landed) = [calls EXCEPT ![b] = LastAs(calls[b], st, landed)]
               /\ FailedIn(LastAs(calls[b], st, landed))
               /\ LastAs(calls[b], st, landed) \in Seq(Call)
    BY <1>1, <2>1, <2>2, CloseType, LastAsFailed DEF RunTyped, CallLogged
  <2>3. CASE StepIssue(b)
    <3>1. calls' = [calls EXCEPT ![b] = Started(calls[b], run[b].op)] /\ run[b].op \in Ops
      BY <1>1, <2>1, <2>3 DEF StepIssue, InStep
    <3> QED
      BY <1>2, <2>1, <3>1, StartedFailed
  <2>4. CASE OracleBusy(b)
    <3>1. InCall(b) /\ run[b].op \in Ops
      BY <2>1, <2>4 DEF OracleBusy, InStep
    <3>2. CASE calls' = Close(b, "FAILED", FALSE)
      BY <1>2, <2>2, <3>1, <3>2
    <3>3. CASE calls' = [calls EXCEPT ![b] = Started(LastAs(@, "FAILED", FALSE), run[b].op)]
      <4> DEFINE log == LastAs(calls[b], "FAILED", FALSE)
      <4>1. log \in Seq(Call) /\ FailedIn(log)
        BY <2>2, <3>1
      <4>2. calls' = [calls EXCEPT ![b] = Started(log, run[b].op)]
        BY <1>1, <3>3
      <4> HIDE DEF log
      <4> QED
        BY <1>2, <3>1, <4>1, <4>2, StartedFailed
    <3> QED
      BY <2>4, <3>2, <3>3 DEF OracleBusy
  <2>5. CASE OracleAnswers(b) \/ OracleAnswersUnlogged(b) \/ OracleUnknown(b) \/ Crash(b)
    <3>1. /\ InCall(b)
          /\ \E st \in {"STARTED", "SUCCESS", "FAILED", "UNKNOWN"}, landed \in BOOLEAN :
               (st = "FAILED" => ~landed) /\ calls' = Close(b, st, landed)
      BY <1>4, <2>5 DEF OracleAnswers, OracleAnswersUnlogged, OracleUnknown, Crash, Commits,
         Refuses, InCall
    <3> QED
      BY <1>2, <2>2, <3>1
  <2>6. CASE ReconRead(b)
    BY <1>2, <2>1, <2>6, SettledFailed DEF ReconRead
  <2>7. CASE \/ StepFindsDone(b) \/ StepRefused(b) \/ StepVictim(b) \/ OracleChecks(b)
             \/ OracleWrites(b) \/ StepCommit(b) \/ ReconCommit(b)
    BY <1>4, <2>7 DEF StepFindsDone, StepRefused, StepVictim, OracleChecks, OracleWrites,
       StepCommit, ReconCommit
  <2> QED
    BY <1>4, <2>3, <2>4, <2>5, <2>6, <2>7 DEF Advance, Mishap
<1>5. CASE ErpUser \/ LockPeriod \/ Unlock \/ UNCHANGED vars
  BY <1>3, <1>5 DEF ErpUser, ErpEdits, ErpApproves, ErpPosts, LockPeriod, Unlock, UnlockProbe,
     UnlockTake, UnlockCommit, UnlockVictim, vars
<1>6. ASSUME NEW b \in Batches, Operator(b) PROVE UNCHANGED calls
  BY <1>6 DEF Operator, Create, Validate, Reopen, Abandon, StepBegin
<1> QED
  BY <1>3, <1>4, <1>5, <1>6 DEF Next

\* The log's invariant as a whole.
LogInv == CallsOpen /\ BirthInv /\ TrailInv /\ TraceInv /\ FailedInv

LEMMA LogStep ==
  TypeInv /\ ActiveInv /\ LogInv /\ [Next]_vars => LogInv'
<1> SUFFICES ASSUME TypeInv, ActiveInv, LogInv, [Next]_vars PROVE LogInv'
  OBVIOUS
<1> QED
  BY CallsOpenStep, BirthStep, TrailStep, TraceStep, FailedStep DEF LogInv, ActiveInv

LEMMA LogInit == Init => LogInv
<1> SUFFICES ASSUME Init PROVE LogInv
  OBVIOUS
<1>1. \A b \in Batches : calls[b] = <<>>
  BY DEF Init
<1>2. Landed(<<>>) = {} /\ FailedIn(<<>>)
  BY DEF Landed, FailedIn
<1>3. TraceInv /\ FailedInv
  BY <1>1, <1>2 DEF TraceInv, TraceOf, FailedInv
<1> QED
  BY <1>3, BirthInit, TrailInit DEF LogInv

\* A call the log gives as FAILED was never committed by Oracle (FailedNeverLanded): what
\* Oracle shows of a committed call never passes for a failed one, however late the
\* reconciliation looks and whatever ran in between.
THEOREM FailedNeverCommitted == Spec => []FailedNeverLanded
<1>1. LogInv => FailedNeverLanded
  BY DEF LogInv, FailedInv, FailedIn, FailedNeverLanded
<1>2. TypeInv /\ ActiveInv /\ [Next]_vars => ActiveInv'
  BY ActiveStep
<1> QED
  BY <1>1, <1>2, TypeInit, TypeStep, ActiveInit, LogInit, LogStep, PTL DEF Spec

-----------------------------------------------------------------------------
(* Drift.  A header leaves the live ones through a call of the log.        *)

RetiredInv ==
  \A b \in Batches :
    /\ header[b] = "failed" => "restore" \in Landed(calls[b])
    /\ header[b] = "superseded" => \E c \in Batches \ {b} : "valuate" \in Landed(calls[c])

\* What is active here was valued in Oracle, as Oracle said or as its stamps showed.
ValuedRun(b) == run[b].pc = "answered" /\ run[b].op = "valuate" /\ run[b].res = "SUCCESS"
ValuedInv == \A b \in Batches : status[b] \in Active \/ ValuedRun(b) => ~NotYet(b)

LEMMA RetiredStep ==
  ASSUME TypeInv, CallsOpen, RetiredInv, [Next]_vars
  PROVE  RetiredInv'
<1>1. header \in [Batches -> HeaderStatuses]
  BY TypeParts DEF OracleTyped
<1>2. CASE NothingStamped
  BY <1>2 DEF NothingStamped, RetiredInv
<1>3. ASSUME NEW b \in Batches, Committed(b) PROVE RetiredInv'
  <2>1. /\ Landed(calls[b])' = Landed(calls[b]) \cup {run[b].op}
        /\ \A c \in Batches : \A op \in Landed(calls[c]) : op \in Landed(calls[c])'
    BY <1>3 DEF Committed
  <2>2. ASSUME NEW c \in Batches
        PROVE  \/ header'[c] = header[c]
               \/ c = b /\ header'[c] \notin {"failed", "superseded"}
               \/ c = b /\ header'[c] = "failed" /\ run[b].op = "restore"
               \/ c # b /\ header'[c] = "superseded" /\ run[b].op = "valuate"
    BY <1>1, <1>3 DEF Committed, Commits, Effect, Ops, InsertBatch, ValuateAdj, ApproveAdj,
       RestoreAdj, LockHeader
  <2>3. ASSUME NEW c \in Batches, header'[c] = "failed" PROVE "restore" \in Landed(calls[c])'
    BY <2>1, <2>2, <2>3 DEF RetiredInv
  <2>4. ASSUME NEW c \in Batches, header'[c] = "superseded"
        PROVE  \E d \in Batches \ {c} : "valuate" \in Landed(calls[d])'
    BY <2>1, <2>2, <2>4 DEF RetiredInv
  <2> QED
    BY <2>3, <2>4 DEF RetiredInv
<1> QED
  BY <1>2, <1>3, StampsStep

LEMMA CommitValued ==
  ASSUME TypeInv, ActiveInv, TrailInv, ValuedInv, NEW b \in Batches, StepCommit(b),
         NEW c \in Batches, status'[c] \in Active
  PROVE  ~NotYet(c)
<1>1. status \in [Batches -> Statuses] /\ run[b] \in Run /\ run[b].pc = "answered"
  BY TypeParts DEF Rest, RunTyped, StepCommit
<1>2. CASE status[c] \in Active
  BY <1>2 DEF ValuedInv
<1>3. CASE status[c] \notin Active
  <2>1. CASE FinishValuate(b)
    <3>1. c = b
      BY <1>1, <1>3, <2>1 DEF FinishValuate, Active, Prior
    <3>2. CASE run[b].res = "SUCCESS"
      BY <1>1, <2>1, <3>1, <3>2 DEF FinishValuate, ValuedInv, ValuedRun
    <3>3. CASE run[b].res # "SUCCESS"
      <4>1. PICK h \in run[b].set : Shows(b, "valuate", h)
        BY <2>1, <3>3 DEF FinishValuate, Succeeded
      <4>2. h \in Heads /\ adj[h].stamp = b
        BY <1>1, <4>1 DEF Run, Shows
      <4> QED
        BY <3>1, <4>2 DEF TrailInv, StampsNamed, Named
    <3> QED
      BY <3>2, <3>3
  <2>2. CASE FinishLock(b)
    <3>1. status[b] = "reconciled"
      BY <1>1, <2>2 DEF FinishLock, ActiveInv, LockFrom, InStep
    <3> QED
      BY <1>1, <1>3, <2>2, <3>1 DEF FinishLock, Active
  <2>3. CASE FinishPush(b) \/ FinishApprove(b) \/ FinishRestore(b) \/ Hold(b)
    BY <1>1, <1>3, <2>3 DEF FinishPush, FinishApprove, FinishRestore, Hold, Active
  <2> QED
    BY <2>1, <2>2, <2>3 DEF StepCommit
<1> QED
  BY <1>2, <1>3

LEMMA AnswerValued ==
  ASSUME TypeInv, CallsOpen, TrailInv, ValuedInv, NEW b \in Batches,
         Advance(b) \/ Mishap(b) \/ ReconRead(b), [Next]_vars, ValuedRun(b)'
  PROVE  ~NotYet(b)'
<1>1. run \in [Batches -> Run] /\ header \in [Batches -> HeaderStatuses]
  BY TypeParts DEF RunTyped, OracleTyped
<1>2. run'[b].pc = "answered" /\ run'[b].res = "SUCCESS" /\ run[b].op = "valuate"
  BY OpAfter DEF ValuedRun, InStep, InCall
<1>3. CASE StepFindsDone(b)
  <2>1. AlreadyDone(b, "valuate")
    BY <1>2, <1>3 DEF StepFindsDone
  <2>2. PICK h \in Heads : adj[h].stamp = b
    BY <2>1 DEF AlreadyDone, StampedBy, Eligible
  <2> QED
    BY <2>2, HeaderForward DEF TrailInv, StampsNamed, Named
<1>4. CASE OracleAnswers(b) \/ OracleAnswersUnlogged(b)
  <2>1. run' # Answered(b, "FAILED")
    BY <1>2, AnsweredFields
  <2>2. ValuateAdj(b)
    BY <1>2, <1>4, <2>1 DEF OracleAnswers, OracleAnswersUnlogged, Commits, Effect
  <2> QED
    BY <1>1, <2>2 DEF ValuateAdj, NotYet
<1>5. CASE OracleUnknown(b) \/ OracleBusy(b)
  <2>1. run' # Answered(b, "FAILED") /\ run' # Answered(b, "UNKNOWN")
    BY <1>2, AnsweredFields
  <2>2. run' # [run EXCEPT ![b].pc = "logged", ![b].rows = NoRows]
    BY <1>1, <1>2 DEF Run
  <2> QED
    BY <1>5, <2>1, <2>2 DEF OracleUnknown, OracleBusy
<1>6. CASE StepRefused(b) \/ StepVictim(b) \/ StepCommit(b) \/ ReconCommit(b) \/ Crash(b)
  <2>1. run' # [run EXCEPT ![b] = Idle]
    BY <1>1, <1>2, IdleType
  <2> QED
    BY <1>6, <2>1 DEF StepRefused, StepVictim, StepCommit, ReconCommit, Crash
<1>7. CASE StepIssue(b) \/ OracleChecks(b) \/ OracleWrites(b)
  BY <1>1, <1>2, <1>7 DEF StepIssue, OracleChecks, OracleWrites, Run
<1>8. CASE ReconRead(b)
  BY <1>1, <1>2, <1>8 DEF ReconRead
<1> QED
  BY <1>3, <1>4, <1>5, <1>6, <1>7, <1>8 DEF Advance, Mishap

LEMMA ValuedStep ==
  ASSUME TypeInv, ActiveInv, CallsOpen, TrailInv, ValuedInv, [Next]_vars
  PROVE  ValuedInv'
<1>1. run \in [Batches -> Run] /\ status \in [Batches -> Statuses]
  BY TypeParts DEF RunTyped, Rest
<1> SUFFICES ASSUME NEW c \in Batches, (status[c] \in Active \/ ValuedRun(c))'
             PROVE  ~NotYet(c)'
  BY DEF ValuedInv
<1>2. ASSUME status[c] \in Active \/ ValuedRun(c) PROVE ~NotYet(c)'
  BY <1>2, HeaderForward DEF ValuedInv
<1>3. CASE ErpUser \/ LockPeriod \/ Unlock \/ UNCHANGED vars
  <2>1. UNCHANGED <<run, status>>
    BY <1>3 DEF ErpUser, ErpEdits, ErpApproves, ErpPosts, LockPeriod, Unlock, UnlockProbe,
       UnlockTake, UnlockCommit, UnlockVictim, vars, pgVars
  <2> QED
    BY <1>2, <2>1 DEF ValuedRun
<1>4. ASSUME NEW b \in Batches, Operator(b) PROVE ~NotYet(c)'
  <2>1. status'[c] \in Active => status[c] \in Active
    BY <1>4, OperatorStatus DEF Active
  <2>2. ValuedRun(c)' => ValuedRun(c)
    <3>1. CASE UNCHANGED run
      BY <3>1 DEF ValuedRun
    <3>2. ASSUME NEW op \in Ops, StepBegin(b, op) PROVE run'[c].pc = "answered" => run'[c] = run[c]
      BY <1>1, <3>2 DEF StepBegin, Idle
    <3> QED
      BY <1>4, <3>1, <3>2 DEF Operator, Create, Validate, Reopen, Abandon, ValuedRun
  <2> QED
    BY <1>2, <2>1, <2>2
<1>5. ASSUME NEW b \in Batches, Advance(b) \/ Mishap(b) \/ ReconRead(b) PROVE ~NotYet(c)'
  <2>1. CASE ValuedRun(c)'
    <3>1. CASE c = b
      BY <1>5, <2>1, <3>1, AnswerValued
    <3>2. CASE c # b
      <4>1. run'[c] = run[c]
        BY <1>5, <3>2, RunAfter
      <4> QED
        BY <1>2, <2>1, <4>1 DEF ValuedRun
    <3> QED
      BY <3>1, <3>2
  <2>2. CASE status'[c] \in Active
    <3>1. CASE StepCommit(b)
      BY <2>2, <3>1, CommitValued, HeaderForward
    <3>2. CASE ReconCommit(b)
      <4>1. status[c] \in Active
        BY <2>2, <3>2, ReconStatus DEF Active
      <4> QED
        BY <1>2, <4>1
    <3>3. CASE ~StepCommit(b) /\ ~ReconCommit(b)
      <4>1. UNCHANGED status
        BY <1>5, <3>3, StatusKept
      <4> QED
        BY <1>2, <2>2, <4>1
    <3> QED
      BY <3>1, <3>2, <3>3
  <2> QED
    BY <2>1, <2>2
<1> QED
  BY <1>3, <1>4, <1>5 DEF Next

LEMMA DriftInit == Init => RetiredInv /\ ValuedInv
<1> SUFFICES ASSUME Init PROVE RetiredInv /\ ValuedInv
  OBVIOUS
<1>1. \A b \in Batches : run[b].pc = "idle" /\ status[b] = "none" /\ header[b] = "none"
  BY DEF Init, Idle
<1> QED
  BY <1>1 DEF RetiredInv, ValuedInv, ValuedRun, Active

\* A batch that is active here and not live in Oracle is explained by the log: Oracle has
\* committed another batch's valuation, or this one's restore, and the log holds the call as
\* open or successful (DriftIsLogged).
THEOREM DriftAlwaysLogged == Spec => []DriftIsLogged
<1>1. TypeInv /\ LogInv /\ RetiredInv /\ ValuedInv => DriftIsLogged
  <2> SUFFICES ASSUME TypeInv, LogInv, RetiredInv, ValuedInv, NEW b \in Batches,
                      status[b] \in Active, header[b] \notin {"valuated", "approved", "locked"}
               PROVE  Explained(b)
    BY DEF DriftIsLogged
  <2>1. ASSUME NEW c \in Batches, NEW op \in {"valuate", "restore"}, op \in Landed(calls[c]),
               c = b => op = "restore"
        PROVE  Explained(b)
    <3>1. PICK i \in 1..Len(calls[c]) : calls[c][i].landed /\ calls[c][i].op = op
      BY <2>1 DEF Landed
    <3>2. calls[c][i].st # "FAILED"
      BY <3>1 DEF LogInv, FailedInv, FailedIn
    <3> QED
      BY <2>1, <3>1, <3>2 DEF Explained
  <2>2. header[b] \in {"failed", "superseded"}
    BY TypeParts DEF OracleTyped, HeaderStatuses, ValuedInv, NotYet
  <2>3. CASE header[b] = "failed"
    BY <2>1, <2>3 DEF RetiredInv
  <2>4. CASE header[b] = "superseded"
    BY <2>1, <2>4 DEF RetiredInv
  <2> QED
    BY <2>2, <2>3, <2>4
<1>2. TypeInv /\ ActiveInv /\ [Next]_vars => ActiveInv'
  BY ActiveStep
<1>3. TypeInv /\ ActiveInv /\ LogInv /\ RetiredInv /\ ValuedInv /\ [Next]_vars =>
        RetiredInv' /\ ValuedInv'
  BY RetiredStep, ValuedStep DEF LogInv
<1> QED
  BY <1>1, <1>2, <1>3, TypeInit, TypeStep, ActiveInit, LogInit, LogStep, DriftInit, PTL DEF Spec
==============================================================================

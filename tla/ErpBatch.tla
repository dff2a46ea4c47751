------------------------------- MODULE ErpBatch -------------------------------
(***************************************************************************)
(* The LIVE batches of one period that carry standard costs to the ERP:    *)
(* push, valuation, approval, restore, lock and reconciliation.            *)
(*                                                                         *)
(* A step runs in one Postgres transaction under the batch's advisory lock *)
(* and row lock, and calls the Oracle package from inside it.  Oracle      *)
(* commits on its own, so a crash, a lost answer or a refusal after the    *)
(* call can leave the two sides apart; the call log, written outside the   *)
(* transaction, is what tells them apart later.  The accountants of the    *)
(* ERP change the adjustment heads meanwhile, between the check a call     *)
(* makes and the COMMIT that ends it too, and the period lock may be       *)
(* released.                                                               *)
(***************************************************************************)
EXTENDS Naturals, Sequences, FiniteSets

CONSTANTS
  NumBatches,   \* batches the period ever has; the id is also the sequence
  Heads,        \* adjustment heads of the period, of one item each
  MaxCalls,     \* calls logged for one batch
  MaxFaults,    \* crashes, lost or failed answers
  MaxUnlocks,   \* times the period is unlocked
  MaxEdits      \* changes of an adjustment by the ERP's own users

ASSUME BoundsAssumption ==
  /\ NumBatches \in Nat \ {0} /\ MaxCalls \in Nat /\ MaxFaults \in Nat
  /\ MaxUnlocks \in Nat /\ MaxEdits \in Nat
  /\ IsFiniteSet(Heads)

Batches == 1..NumBatches
None == 0

Ops == {"push", "valuate", "approve", "restore", "lock"}
\* "new" stands for DRAFT to DERIVED: those steps touch Postgres only.
Statuses == {"none", "new", "validated", "pushed", "valuated", "reconciled",
             "locked", "failed", "superseded"}
Inflight == {"new", "validated", "pushed"}
Active == {"valuated", "reconciled", "locked"}
Flaggable == {"pushed", "valuated", "reconciled"}
HeaderStatuses == {"none", "pushed", "valuated", "approved", "locked",
                   "failed", "superseded"}

VARIABLES
  status,       \* ceib_status of each batch
  needsRepush,  \* ceib_needs_repush
  adjApproved,  \* ceib_adj_approved_at is set
  calls,        \* call log of each batch: [op, st, landed]
  run,          \* step in progress on each batch, holder of its locks
  locked,       \* the period lock is in force
  unlocker,     \* progress of the unlock request
  header,       \* GSB_STATUS of each batch, "none" before the push
  adj,          \* the adjustment heads in the ERP
  adjLog,       \* CST_GOAPPS_ADJ_LOG: what each batch overwrote
  late,         \* history: calls on the adjustments committed after a posting
  faults, unlocks, edits   \* bounds

pgVars == <<status, needsRepush, adjApproved>>
oracleVars == <<header, adj, adjLog, late>>
bounds == <<faults, unlocks, edits>>
vars == <<status, needsRepush, adjApproved, calls, run, locked, unlocker,
          header, adj, adjLog, late, faults, unlocks, edits>>

NotLogged == [stamp |-> NumBatches + 1, val |-> None]
NoRows == [h \in Heads |-> NotLogged]
Idle == [pc |-> "idle", op |-> "push", res |-> "none", set |-> {}, rows |-> NoRows]

Call == [op: Ops, landed: BOOLEAN, st: {"STARTED", "SUCCESS", "FAILED", "UNKNOWN"}]
Adjustment == [stamp: 0..NumBatches, val: 0..NumBatches, state: {"open", "approved", "posted"}]
OldValue == [stamp: 0..NumBatches, val: 0..NumBatches] \cup {NotLogged}
\* rows: the heads the call's open Oracle transaction has selected, as they were then.
Run == [pc: {"idle", "row", "logged", "checked", "written", "answered", "read"},
        op: Ops \cup {"recon"}, set: SUBSET Heads, rows: [Heads -> OldValue],
        res: {"none", "SUCCESS", "FAILED", "UNKNOWN", "clean", "diff"}]

TypeOK ==
  /\ status \in [Batches -> Statuses]
  /\ needsRepush \in [Batches -> BOOLEAN]
  /\ adjApproved \in [Batches -> BOOLEAN]
  /\ calls \in [Batches -> Seq(Call)]
  /\ run \in [Batches -> Run]
  /\ locked \in BOOLEAN
  /\ unlocker \in {"idle", "probed", "taken"}
  /\ header \in [Batches -> HeaderStatuses]
  /\ adj \in [Heads -> Adjustment]
  /\ adjLog \in [Batches -> [Heads -> OldValue]]
  /\ late \in Nat
  /\ faults \in 0..MaxFaults /\ unlocks \in 0..MaxUnlocks /\ edits \in 0..MaxEdits

Init ==
  /\ status = [b \in Batches |-> "none"]
  /\ needsRepush = [b \in Batches |-> FALSE]
  /\ adjApproved = [b \in Batches |-> FALSE]
  /\ calls = [b \in Batches |-> <<>>]
  /\ run = [b \in Batches |-> Idle]
  /\ locked = FALSE /\ unlocker = "idle"
  /\ header = [b \in Batches |-> "none"]
  /\ adj = [h \in Heads |-> [stamp |-> None, val |-> None, state |-> "open"]]
  /\ adjLog = [b \in Batches |-> NoRows] /\ late = 0
  /\ faults = 0 /\ unlocks = 0 /\ edits = 0

(***************************************************************************)
(* The adjustments as the steps see them                                   *)
(***************************************************************************)
Posted == \E h \in Heads : adj[h].state = "posted"
Eligible == {h \in Heads : adj[h].state = "open"}
StampedBy(b) == {h \in Heads : adj[h].stamp = b}
ApprovedStampedBy(b) == {h \in StampedBy(b) : adj[h].state # "open"}

\* The heads an operation changes: projected for VALUATE, stamped otherwise.
SelectSet(b, op) ==
  CASE op = "valuate" -> Eligible
    [] op = "approve" -> Eligible \cap StampedBy(b)
    [] op = "restore" -> StampedBy(b)
    [] OTHER -> {}

\* The observable effect of the call on one head (adjOpSpec.done).
Shows(b, op, h) ==
  CASE op = "valuate" -> adj[h].stamp = b
    [] op = "approve" -> adj[h].stamp = b /\ adj[h].state # "open"
    [] op = "restore" -> adj[h].stamp # b
    [] OTHER -> FALSE

\* The effect is already visible on the period (adjOpSpec.alreadyDone).
AlreadyDone(b, op) ==
  CASE op = "valuate" -> Eligible # {} /\ Eligible \subseteq StampedBy(b)
    [] op = "approve" -> Eligible \cap StampedBy(b) = {} /\ ApprovedStampedBy(b) # {}
    [] op = "restore" -> StampedBy(b) = {}
    [] OTHER -> FALSE

(***************************************************************************)
(* PKG_GOAPPS_ADJ and the insert of a batch.  A call counts the posted     *)
(* heads with a plain SELECT, then selects and changes rows, and GoApps    *)
(* commits when it has returned: nothing locks a head in between but the   *)
(* approval that has changed it.                                           *)
(***************************************************************************)
AdjOps == {"valuate", "approve", "restore"}

\* What the batch's own header must be.  It cannot change during the call.
HeaderFits(b, op) ==
  CASE op = "push"    -> header[b] = "none"
    [] op = "valuate" -> header[b] = "pushed"
    [] op \in {"approve", "restore"} -> header[b] # "none"
    [] op = "lock"    -> header[b] \in {"valuated", "approved"}

Accepts(b, op) ==
  /\ HeaderFits(b, op)
  /\ op \in AdjOps => ~Posted
  /\ op = "lock" => Posted

InCall(b) == run[b].pc \in {"logged", "checked", "written"}

\* The check at the head of the call, and its refusal.
OracleChecks(b) ==
  /\ run[b].pc = "logged" /\ Accepts(b, run[b].op)
  /\ run' = [run EXCEPT ![b].pc = "checked"]
  /\ UNCHANGED <<pgVars, calls, locked, unlocker, oracleVars, bounds>>
Refuses(b) ==
  /\ run[b].pc = "logged" /\ ~Accepts(b, run[b].op)
  /\ UNCHANGED oracleVars

OldRows(hs) ==
  [h \in Heads |-> IF h \in hs THEN [stamp |-> adj[h].stamp, val |-> adj[h].val]
                   ELSE NotLogged]
Selected(b) == {h \in Heads : run[b].rows[h] # NotLogged}

\* The statement that selects: the INSERT into the log of a valuation, the UPDATE of an
\* approval.  A valuation then updates by its log, and a restore by the stamps.
OracleWrites(b) ==
  /\ run[b].pc = "checked"
  /\ run' = [run EXCEPT ![b].pc = "written",
       ![b].rows = CASE run[b].op = "valuate" -> OldRows(Eligible)
                     [] run[b].op = "approve" -> OldRows(Eligible \cap StampedBy(b))
                     [] OTHER -> NoRows]
  /\ UNCHANGED <<pgVars, calls, locked, unlocker, oracleVars, bounds>>

InsertBatch(b) ==
  /\ header' = [header EXCEPT ![b] = "pushed"]
  /\ UNCHANGED <<adj, adjLog>>

\* The logged heads are stamped, whatever became of them meanwhile; every other live
\* header is retired.
ValuateAdj(b) ==
  /\ adjLog' = [adjLog EXCEPT ![b] =
       [h \in Heads |-> IF h \in Selected(b) THEN run[b].rows[h] ELSE adjLog[b][h]]]
  /\ adj' = [h \in Heads |-> IF h \in Selected(b)
                             THEN [adj[h] EXCEPT !.stamp = b, !.val = b]
                             ELSE adj[h]]
  /\ header' = [c \in Batches |->
       IF c = b THEN "valuated"
       ELSE IF header[c] \in {"none", "failed", "superseded"} THEN header[c]
       ELSE "superseded"]

ApproveAdj(b) ==
  /\ adj' = [h \in Heads |-> IF h \in Selected(b)
                             THEN [adj[h] EXCEPT !.state = "approved"]
                             ELSE adj[h]]
  /\ header' = [header EXCEPT ![b] = "approved"]
  /\ UNCHANGED adjLog

\* Only the heads that still carry this batch get their old values back.
RestoreAdj(b) ==
  /\ adj' = [h \in Heads |->
       IF h \in StampedBy(b) /\ adjLog[b][h] # NotLogged
       THEN [adj[h] EXCEPT !.stamp = adjLog[b][h].stamp, !.val = adjLog[b][h].val]
       ELSE adj[h]]
  /\ header' = [header EXCEPT ![b] = "failed"]
  /\ UNCHANGED adjLog

LockHeader(b) ==
  /\ header' = [header EXCEPT ![b] = "locked"]
  /\ UNCHANGED <<adj, adjLog>>

Effect(b, op) ==
  CASE op = "push"    -> InsertBatch(b)
    [] op = "valuate" -> ValuateAdj(b)
    [] op = "approve" -> ApproveAdj(b)
    [] op = "restore" -> RestoreAdj(b)
    [] op = "lock"    -> LockHeader(b)

\* The COMMIT.  Nothing looks at the posting again.
Commits(b) ==
  /\ run[b].pc = "written" /\ Effect(b, run[b].op)
  /\ late' = IF Posted /\ run[b].op \in AdjOps THEN late + 1 ELSE late

(***************************************************************************)
(* The ERP's own users: they change an open adjustment, approve it unless  *)
(* an approval of a batch holds the head, post it.  Nothing undoes a       *)
(* posting.                                                                *)
(***************************************************************************)
ErpEdits(h) ==
  /\ adj[h].state = "open" /\ edits < MaxEdits
  /\ adj' = [adj EXCEPT ![h].val = None]
  /\ edits' = edits + 1
  /\ UNCHANGED <<pgVars, calls, run, locked, unlocker, header, adjLog, late, faults, unlocks>>

HoldsHead(b, h) == run[b].pc = "written" /\ run[b].op = "approve" /\ h \in Selected(b)

ErpApproves(h) ==
  /\ adj[h].state = "open" /\ \A b \in Batches : ~HoldsHead(b, h)
  /\ adj' = [adj EXCEPT ![h].state = "approved"]
  /\ UNCHANGED <<pgVars, calls, run, locked, unlocker, header, adjLog, late, bounds>>

ErpPosts(h) ==
  /\ adj[h].state = "approved"
  /\ adj' = [adj EXCEPT ![h].state = "posted"]
  /\ UNCHANGED <<pgVars, calls, run, locked, unlocker, header, adjLog, late, bounds>>

(***************************************************************************)
(* The period lock.  An unlock reads whether a batch is LOCKED or a head   *)
(* posted first (an override forgives the posting), and changes the row    *)
(* in a later transaction, which waits for every step that shares it.      *)
(***************************************************************************)
\* Mutant: the period is read without FOR SHARE.
SharesNothing(b) == FALSE
SharesPeriod(b) == InCall(b) \/ run[b].pc = "answered"
HoldsRow(b) == run[b].pc # "idle"

\* One ERP job of a period is active at a time, and one consumer runs them in turn.
NoStep == \A b \in Batches : ~HoldsRow(b)

LockPeriod ==
  /\ ~locked /\ unlocker # "taken"
  /\ locked' = TRUE
  /\ UNCHANGED <<pgVars, calls, run, unlocker, oracleVars, bounds>>

UnlockProbe ==
  /\ unlocker = "idle" /\ locked /\ unlocks < MaxUnlocks
  /\ \A b \in Batches : status[b] # "locked"
  /\ unlocker' = "probed" /\ unlocks' = unlocks + 1
  /\ UNCHANGED <<pgVars, calls, run, locked, oracleVars, faults, edits>>

UnlockTake ==
  /\ unlocker = "probed" /\ locked
  /\ \A b \in Batches : ~SharesPeriod(b)
  /\ unlocker' = "taken"
  /\ UNCHANGED <<pgVars, calls, run, locked, oracleVars, bounds>>

ToFlag == {b \in Batches : status[b] \in Flaggable /\ ~needsRepush[b]}

\* Mutant: the unlock waits in the application for the jobs of the period.
UnlockWaitsForJobs ==
  /\ unlocker = "taken" /\ NoStep
  /\ needsRepush' = [b \in Batches |-> needsRepush[b] \/ b \in ToFlag]
  /\ locked' = FALSE /\ unlocker' = "idle"
  /\ UNCHANGED <<status, adjApproved, calls, run, oracleVars, bounds>>
\* Flags the batches that were pushed under the lock, and commits.
UnlockCommit ==
  /\ unlocker = "taken"
  /\ \A b \in ToFlag : ~HoldsRow(b)
  /\ needsRepush' = [b \in Batches |-> needsRepush[b] \/ b \in ToFlag]
  /\ locked' = FALSE /\ unlocker' = "idle"
  /\ UNCHANGED <<status, adjApproved, calls, run, oracleVars, bounds>>

\* A step holds the row the unlock wants and waits for the period row the
\* unlock holds: Postgres cancels one of the two.
Deadlocked(b) == unlocker = "taken" /\ b \in ToFlag /\ run[b].pc = "row"

UnlockVictim ==
  /\ \E b \in Batches : Deadlocked(b)
  /\ unlocker' = "idle"
  /\ UNCHANGED <<pgVars, calls, run, locked, oracleVars, bounds>>

(***************************************************************************)
(* The batch before its push                                               *)
(***************************************************************************)
Create(b) ==
  /\ status[b] = "none" /\ \A c \in 1..(b - 1) : status[c] # "none"
  /\ locked /\ ~Posted
  /\ \A c \in Batches : status[c] \notin Inflight
  /\ status' = [status EXCEPT ![b] = "new"]
  /\ UNCHANGED <<needsRepush, adjApproved, calls, run, locked, unlocker, oracleVars, bounds>>

\* Load, coverage, derive and validate; the derivation needs the period lock.
Validate(b) ==
  /\ NoStep /\ status[b] = "new" /\ locked /\ unlocker # "taken"
  /\ status' = [status EXCEPT ![b] = "validated"]
  /\ UNCHANGED <<needsRepush, adjApproved, calls, run, locked, unlocker, oracleVars, bounds>>

\* A reload or a re-derivation of a validated batch.
Reopen(b) ==
  /\ NoStep /\ status[b] = "validated"
  /\ status' = [status EXCEPT ![b] = "new"]
  /\ UNCHANGED <<needsRepush, adjApproved, calls, run, locked, unlocker, oracleVars, bounds>>

CanTransition(from, to) ==
  CASE from \in {"new", "validated"} -> to \in {"new", "validated", "pushed", "failed"}
    [] from = "pushed"     -> to \in {"pushed", "valuated", "failed"}
    [] from = "valuated"   -> to \in {"valuated", "reconciled", "superseded", "failed"}
    [] from = "reconciled" -> to \in {"valuated", "superseded", "failed", "locked"}
    [] OTHER -> FALSE

\* checkTransition: the table, and a flagged batch may only go down.
Allowed(b, to) ==
  CanTransition(status[b], to) /\ (needsRepush[b] => to \notin Active)

Abandon(b) ==
  /\ run[b].pc = "idle" /\ Allowed(b, "failed")
  /\ status' = [status EXCEPT ![b] = "failed"]
  /\ UNCHANGED <<needsRepush, adjApproved, calls, run, locked, unlocker, oracleVars, bounds>>

(***************************************************************************)
(* A step that calls Oracle: it takes the row, shares the period lock,     *)
(* re-reads the ERP, logs the call, issues it, and saves the outcome.      *)
(***************************************************************************)
Latest(b) == \A c \in Batches : c > b => status[c] = "none"

\* Mutant: the flag is not read.
StepGateUnflagged(b, op) ==
  CASE op = "push"    -> status[b] = "validated"
       [] op = "valuate" -> status[b] = "pushed"
       [] op = "approve" -> status[b] = "reconciled" /\ ~adjApproved[b]
       [] op = "restore" -> /\ status[b] \in {"valuated", "reconciled"}
                            /\ ~adjApproved[b] /\ Latest(b)
       [] op = "lock"    -> status[b] = "reconciled"
\* What the batch itself must be (checkPushBatch, checkAdjBatch, checkLockBatch).
StepGate(b, op) ==
  /\ ~needsRepush[b]
  /\ CASE op = "push"    -> status[b] = "validated"
       [] op = "valuate" -> status[b] = "pushed"
       [] op = "approve" -> status[b] = "reconciled" /\ ~adjApproved[b]
       [] op = "restore" -> /\ status[b] \in {"valuated", "reconciled"}
                            /\ ~adjApproved[b] /\ Latest(b)
       [] op = "lock"    -> status[b] = "reconciled"

\* Mutant: a second worker runs the jobs of another batch.
StepBeginAlongside(b, op) ==
  /\ run[b].pc = "idle" /\ StepGate(b, op) /\ Len(calls[b]) < MaxCalls
  /\ run' = [run EXCEPT ![b] = [Idle EXCEPT !.pc = "row", !.op = op]]
  /\ UNCHANGED <<pgVars, calls, locked, unlocker, oracleVars, bounds>>
StepBegin(b, op) ==
  /\ NoStep /\ StepGate(b, op) /\ Len(calls[b]) < MaxCalls
  /\ run' = [run EXCEPT ![b] = [Idle EXCEPT !.pc = "row", !.op = op]]
  /\ UNCHANGED <<pgVars, calls, locked, unlocker, oracleVars, bounds>>

\* Mutant: a call that did not succeed may be repeated.
HasSuccess(b, op) ==
  \E i \in 1..Len(calls[b]) : calls[b][i].op = op /\ calls[b][i].st = "SUCCESS"
\* The push reaches Oracle once in the life of a batch, whatever came of it.
HasAttempt(b, op) == \E i \in 1..Len(calls[b]) : calls[b][i].op = op

\* What the re-read of the ERP must show before the call.
Reprobe(b, op) ==
  CASE op = "push" -> ~HasAttempt(b, "push")
    [] op \in {"valuate", "approve"} -> ~Posted /\ SelectSet(b, op) # {}
    [] op = "restore" -> /\ ~Posted /\ SelectSet(b, op) # {}
                         /\ ApprovedStampedBy(b) = {}
    [] op = "lock" -> Posted

Started(log, op) == Append(log, [op |-> op, st |-> "STARTED", landed |-> FALSE])

\* The period row answers only when no unlock holds it.
StepIssue(b) ==
  LET op == run[b].op IN
  /\ run[b].pc = "row" /\ unlocker # "taken"
  /\ locked /\ Reprobe(b, op)
  /\ calls' = [calls EXCEPT ![b] = Started(@, op)]
  /\ run' = [run EXCEPT ![b].pc = "logged", ![b].set = SelectSet(b, op)]
  /\ UNCHANGED <<pgVars, locked, unlocker, oracleVars, bounds>>

Answered(b, res) == [run EXCEPT ![b].pc = "answered", ![b].res = res, ![b].rows = NoRows]

\* A preview older than an effect that is already there: no call is made.
StepFindsDone(b) ==
  LET op == run[b].op IN
  /\ run[b].pc = "row" /\ unlocker # "taken"
  /\ locked /\ ~Posted
  /\ op \in {"valuate", "approve", "restore"} /\ AlreadyDone(b, op)
  /\ op = "restore" => ApprovedStampedBy(b) = {}
  /\ run' = Answered(b, "SUCCESS")
  /\ UNCHANGED <<pgVars, calls, locked, unlocker, oracleVars, bounds>>

\* The period is not locked, the ERP has moved on, a check of the data fails.
StepRefused(b) ==
  /\ run[b].pc = "row" /\ unlocker # "taken"
  /\ run' = [run EXCEPT ![b] = Idle]
  /\ UNCHANGED <<pgVars, calls, locked, unlocker, oracleVars, bounds>>

StepVictim(b) ==
  /\ Deadlocked(b)
  /\ run' = [run EXCEPT ![b] = Idle]
  /\ UNCHANGED <<pgVars, calls, locked, unlocker, oracleVars, bounds>>

\* The call's own row in the log, the last one.
LastAs(log, st, landed) ==
  [log EXCEPT ![Len(log)] = [op |-> log[Len(log)].op, st |-> st, landed |-> landed]]
Close(b, st, landed) == [calls EXCEPT ![b] = LastAs(@, st, landed)]

\* The call is committed or refused, and the answer arrives.
OracleAnswers(b) ==
  /\ \/ /\ Commits(b)
        /\ run' = Answered(b, "SUCCESS")
        /\ calls' = Close(b, "SUCCESS", TRUE)
     \/ /\ Refuses(b)
        /\ run' = Answered(b, "FAILED")
        /\ calls' = Close(b, "FAILED", FALSE)
  /\ UNCHANGED <<pgVars, locked, unlocker, bounds>>

\* The answer arrives, but the call's log row cannot be finished.
OracleAnswersUnlogged(b) ==
  /\ faults < MaxFaults
  /\ \/ /\ Commits(b)
        /\ run' = Answered(b, "SUCCESS")
        /\ calls' = Close(b, "STARTED", TRUE)
     \/ /\ Refuses(b)
        /\ run' = Answered(b, "FAILED")
        /\ calls' = Close(b, "STARTED", FALSE)
  /\ faults' = faults + 1
  /\ UNCHANGED <<pgVars, locked, unlocker, unlocks, edits>>

\* Mutant: a lost answer is logged as a failure.
OracleLostIsFailed(b) ==
  /\ faults < MaxFaults /\ Commits(b)
  /\ calls' = Close(b, "FAILED", TRUE)
  /\ run' = Answered(b, "UNKNOWN")
  /\ faults' = faults + 1
  /\ UNCHANGED <<pgVars, locked, unlocker, unlocks, edits>>
\* The answer is lost: the COMMIT took effect, or the call was cut off before it.
OracleUnknown(b) ==
  /\ InCall(b) /\ faults < MaxFaults
  /\ \/ /\ Commits(b)
        /\ calls' = Close(b, "UNKNOWN", TRUE)
     \/ /\ UNCHANGED oracleVars
        /\ calls' = Close(b, "UNKNOWN", FALSE)
  /\ run' = Answered(b, "UNKNOWN")
  /\ faults' = faults + 1
  /\ UNCHANGED <<pgVars, locked, unlocker, unlocks, edits>>

\* Oracle is busy: a package call is tried again under a new log row, or given up.
OracleBusy(b) ==
  LET op == run[b].op IN
  /\ InCall(b) /\ faults < MaxFaults
  /\ \/ /\ calls' = Close(b, "FAILED", FALSE)
        /\ run' = Answered(b, "FAILED")
     \/ /\ op # "push" /\ Len(calls[b]) < MaxCalls
        /\ calls' = [calls EXCEPT ![b] = Started(LastAs(@, "FAILED", FALSE), op)]
        /\ run' = [run EXCEPT ![b].pc = "logged", ![b].rows = NoRows]
  /\ faults' = faults + 1
  /\ UNCHANGED <<pgVars, locked, unlocker, oracleVars, unlocks, edits>>

\* The worker dies, its transaction rolls back; Oracle keeps what it committed.
Crash(b) ==
  /\ InCall(b) \/ run[b].pc \in {"answered", "read"}
  /\ faults < MaxFaults
  /\ \/ UNCHANGED <<oracleVars, calls>>
     \/ /\ Commits(b)
        /\ calls' = Close(b, "STARTED", TRUE)
  /\ run' = [run EXCEPT ![b] = Idle]
  /\ faults' = faults + 1
  /\ UNCHANGED <<pgVars, locked, unlocker, unlocks, edits>>

\* Mutant: a lost answer counts as success.
NotFailed(b) == run[b].res # "FAILED"
\* The answer, or for a lost one what a second look at the ERP shows: all of
\* the heads have the effect, or the call counts as failed.
Succeeded(b) ==
  \/ run[b].res = "SUCCESS"
  \/ /\ run[b].res = "UNKNOWN" /\ run[b].set # {}
     /\ \A h \in run[b].set : Shows(b, run[b].op, h)

\* The other batch of the period that is active.
Prior(b) == {c \in Batches \ {b} : status[c] \in Active}

FinishPush(b) ==
  /\ run[b].op = "push"
  /\ status' = [status EXCEPT ![b] = IF run[b].res = "SUCCESS" THEN "pushed" ELSE "failed"]
  /\ UNCHANGED adjApproved

\* Mutant: the prior batch is left as it is.
FinishValuateAlone(b) ==
  /\ run[b].op = "valuate" /\ Succeeded(b)
  /\ status' = [status EXCEPT ![b] = "valuated"]
  /\ UNCHANGED adjApproved
\* The prior active batch is superseded in the same transaction; a LOCKED one
\* refuses: the transaction is lost.
FinishValuate(b) ==
  /\ run[b].op = "valuate" /\ Succeeded(b)
  /\ status' = IF \A c \in Prior(b) : CanTransition(status[c], "superseded")
               THEN [c \in Batches |-> IF c = b THEN "valuated"
                                       ELSE IF c \in Prior(b) THEN "superseded"
                                       ELSE status[c]]
               ELSE status
  /\ UNCHANGED adjApproved

\* Mutant: the header's status is copied to the batch.
FinishApproveStatus(b) ==
  /\ run[b].op = "approve" /\ Succeeded(b)
  /\ status' = [status EXCEPT ![b] = header[b]]
  /\ adjApproved' = [adjApproved EXCEPT ![b] = TRUE]
FinishApprove(b) ==
  /\ run[b].op = "approve" /\ Succeeded(b)
  /\ adjApproved' = [adjApproved EXCEPT ![b] = TRUE]
  /\ UNCHANGED status

FinishRestore(b) ==
  /\ run[b].op = "restore" /\ Succeeded(b)
  /\ status' = [status EXCEPT ![b] = "failed"]
  /\ UNCHANGED adjApproved

\* Mutant: a lost answer counts as a lock.
FinishLockUnknown(b) ==
  /\ run[b].op = "lock" /\ run[b].res # "FAILED"
  /\ status' = [status EXCEPT ![b] = "locked"]
  /\ UNCHANGED adjApproved
\* A lost answer is not looked up for a lock: the next run is to settle it.
FinishLock(b) ==
  /\ run[b].op = "lock" /\ run[b].res = "SUCCESS"
  /\ status' = [status EXCEPT ![b] = "locked"]
  /\ UNCHANGED adjApproved

\* The batch keeps its status, the error is recorded: the call failed, or it was lost
\* and the second look shows no effect, a part of it, or fails itself.
Hold(b) ==
  /\ run[b].op # "push" /\ run[b].res # "SUCCESS"
  /\ UNCHANGED <<status, adjApproved>>

StepCommit(b) ==
  /\ run[b].pc = "answered"
  /\ \/ FinishPush(b) \/ FinishValuate(b) \/ FinishApprove(b)
     \/ FinishRestore(b) \/ FinishLock(b) \/ Hold(b)
  /\ run' = [run EXCEPT ![b] = Idle]
  /\ UNCHANGED <<needsRepush, calls, locked, unlocker, oracleVars, bounds>>

(***************************************************************************)
(* Reconciliation: read Oracle back, settle the calls left open, compare   *)
(***************************************************************************)
\* What the headers and stamps prove of an unresolved call; "" when nothing.
Proof(b, op) ==
  LET stamped == StampedBy(b) # {}
      has(yes) == header[b] \in yes
  IN CASE op = "push" -> IF has({"none"}) THEN "FAILED" ELSE "SUCCESS"
       [] op = "valuate" /\ has({"valuated", "approved", "locked"}) /\ stamped -> "SUCCESS"
       [] op = "valuate" /\ has({"pushed"}) /\ ~stamped -> "FAILED"
       [] op = "approve" /\ has({"approved", "locked"}) -> "SUCCESS"
       [] op = "approve" /\ has({"valuated"}) -> "FAILED"
       [] op = "restore" /\ has({"failed"}) /\ ~stamped -> "SUCCESS"
       [] op = "restore" /\ has({"valuated", "approved"}) /\ stamped -> "FAILED"
       [] op = "lock" /\ has({"locked"}) -> "SUCCESS"
       [] op = "lock" /\ has({"approved", "valuated"}) -> "FAILED"
       [] OTHER -> ""

Unresolved == {"STARTED", "UNKNOWN"}
Settled(b) ==
  [i \in 1..Len(calls[b]) |->
    LET c == calls[b][i] IN
    IF c.st \in Unresolved /\ Proof(b, c.op) # ""
    THEN [c EXCEPT !.st = Proof(b, c.op)] ELSE c]

\* Header, stamps and values agree with the batch and every call is settled.
Clean(b) ==
  /\ header[b] # "none"
  /\ \A h \in Heads : adj[h].stamp = b /\ adj[h].val = b
  /\ \A i \in 1..Len(calls[b]) : Settled(b)[i].st \notin Unresolved

ReconRead(b) ==
  /\ NoStep /\ status[b] \in {"pushed", "valuated", "reconciled", "failed"}
  /\ calls' = [calls EXCEPT ![b] = Settled(b)]
  /\ run' = [run EXCEPT ![b] = [Idle EXCEPT !.pc = "read", !.op = "recon",
                                !.res = IF Clean(b) THEN "clean" ELSE "diff"]]
  /\ UNCHANGED <<pgVars, locked, unlocker, oracleVars, bounds>>

\* Where the comparison moves the batch; a refused move loses the transaction.
ReconTo(b) ==
  CASE status[b] = "valuated" /\ run[b].res = "clean" -> "reconciled"
    [] status[b] = "reconciled" /\ run[b].res = "diff" -> "valuated"
    [] OTHER -> status[b]

ReconCommit(b) ==
  /\ run[b].pc = "read"
  /\ status' = IF ReconTo(b) # status[b] /\ Allowed(b, ReconTo(b))
               THEN [status EXCEPT ![b] = ReconTo(b)] ELSE status
  /\ run' = [run EXCEPT ![b] = Idle]
  /\ UNCHANGED <<needsRepush, adjApproved, calls, locked, unlocker, oracleVars, bounds>>

(***************************************************************************)
(* Specification                                                           *)
(***************************************************************************)
ErpUser == \E h \in Heads : ErpEdits(h) \/ ErpApproves(h) \/ ErpPosts(h)
Unlock == UnlockProbe \/ UnlockTake \/ UnlockCommit \/ UnlockVictim
Operator(b) ==
  \/ Create(b) \/ Validate(b) \/ Reopen(b) \/ Abandon(b)
  \/ \E op \in Ops : StepBegin(b, op)
Advance(b) ==
  \/ StepIssue(b) \/ StepFindsDone(b) \/ StepRefused(b) \/ StepVictim(b)
  \/ OracleChecks(b) \/ OracleWrites(b) \/ OracleAnswers(b)
  \/ StepCommit(b) \/ ReconCommit(b)
Mishap(b) ==
  OracleAnswersUnlogged(b) \/ OracleUnknown(b) \/ OracleBusy(b) \/ Crash(b)

Next ==
  \/ ErpUser \/ LockPeriod \/ Unlock
  \/ \E b \in Batches : Operator(b) \/ ReconRead(b) \/ Advance(b) \/ Mishap(b)

Spec == Init /\ [][Next]_vars

\* The consumer goes on with its step.  Postgres queues the waiters of a row, so a step
\* that waits for the period row gets it although unlocks take it in turn; an unlock that
\* holds it commits or is cancelled.
FairSpec ==
  /\ Spec
  /\ SF_vars(\E b \in Batches : Advance(b))
  /\ WF_vars(UnlockCommit) /\ WF_vars(UnlockVictim)

(***************************************************************************)
(* Properties                                                              *)
(***************************************************************************)
\* A batch reaches Oracle as an insert at most once in its life, whatever crashes and
\* lost answers came in between.
PushedOnce ==
  \A b \in Batches : \A i, j \in 1..Len(calls[b]) :
    calls[b][i].op = "push" /\ calls[b][j].op = "push" => i = j

\* A call the log gives as FAILED was never committed by Oracle, neither by the
\* classification of its answer nor by the reconciliation that settles a lost one.
FailedNeverLanded ==
  \A b \in Batches : \A i \in 1..Len(calls[b]) :
    calls[b][i].st = "FAILED" => ~calls[b][i].landed

\* No batch that was pushed under a lock stays usable once the lock is gone: the unlock
\* has flagged it for a new push, a step in progress at the time included.
UnlockedMeansRepush ==
  ~locked => \A b \in Batches : status[b] \in Flaggable => needsRepush[b]

\* A LOCKED batch is LOCKED in Oracle too, and is the only live one there.
LockedIsCurrent ==
  \A b \in Batches : status[b] = "locked" =>
    /\ header[b] = "locked"
    /\ \A c \in Batches \ {b} : header[c] \in {"none", "pushed", "failed", "superseded"}

\* At most one batch of the period is active.
OneActive ==
  \A b, c \in Batches : status[b] \in Active /\ status[c] \in Active => b = c

\* A batch that Oracle retired or never valued, and that is active here, has an open or
\* successful call of another batch in the log that explains it.
Explained(b) ==
  \E c \in Batches : \E i \in 1..Len(calls[c]) :
    /\ calls[c][i].op \in {"valuate", "restore"} /\ calls[c][i].landed
    /\ calls[c][i].st # "FAILED" /\ (c = b => calls[c][i].op = "restore")
DriftIsLogged ==
  \A b \in Batches : status[b] \in Active =>
    header[b] \in {"valuated", "approved", "locked"} \/ Explained(b)

\* A batch flagged for a new push never moves up, here or in Oracle: no approval or lock
\* of costs that were open to change comes out of a call that was under way.
RepushNeverAdvances ==
  [][\A b \in Batches : needsRepush[b] =>
       /\ status'[b] \in {status[b], "failed", "superseded"}
       /\ header'[b] \in {header[b], "superseded"}]_vars

\* After a posting at most one call still changes the adjustments: the one that had
\* counted no posted head before.  Neither a retry, a redelivery nor another batch adds one.
OneLateCall == late <= 1

\* A LOCKED batch is the last word of the period in Oracle: no call that was under way
\* stamps another value over it, supersedes it, or moves another header.
Stamps == [h \in Heads |-> adj[h].stamp]
LockedFrozen ==
  [][(\E b \in Batches : header[b] = "locked") =>
       /\ Stamps' = Stamps
       /\ \A b \in Batches : \/ header'[b] = header[b]
                             \/ header[b] = "none" /\ header'[b] = "pushed"]_vars

\* Every step that has begun ends and its locks are released, a step and an unlock that
\* wait for each other's rows included.
StepsEnd == ~NoStep ~> NoStep

(***************************************************************************)
(* Two claims of the code's comments that its steps do not keep            *)
(***************************************************************************)
\* "It is refused when a batch for the period is LOCKED": no unlock commits then.
UnlockRefusedWhenLocked ==
  [][locked /\ ~locked' => \A b \in Batches : status[b] # "locked"]_vars

\* An UNKNOWN of LOCK_BATCH is held "and a re-run (idempotent, ALREADY_DONE) resolves
\* it": a run on a header that is locked already does not end as failed.
LockRerunResolves ==
  \A b \in Batches :
    run[b].pc = "answered" /\ run[b].op = "lock" /\ header[b] = "locked" =>
      run[b].res # "FAILED"
==============================================================================

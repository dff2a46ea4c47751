------------------------------ MODULE CostResult ------------------------------
(***************************************************************************)
(* The versioned cost rows of one period (cst_product_cost), their period  *)
(* lock (cst_period_lock) and the pushed head costs (cst_mb_cost), under   *)
(* concurrent transactions: the chunk computation upserts one row, MB      *)
(* Batch upserts three per MB product, MB Push-to-Head approves three,     *)
(* users verify and approve single rows, and the period is locked and      *)
(* unlocked.                                                               *)
(*                                                                         *)
(* A transaction runs at READ COMMITTED: a step is a statement, it sees    *)
(* the committed rows and its own, it waits for the row locks of others,   *)
(* and a wait ends in a second look at the row that was waited for.  Rows  *)
(* of one product and type are told apart by their version.                *)
(***************************************************************************)
EXTENDS Naturals, Sequences, FiniteSets

CONSTANTS
  Clients,      \* concurrent requests
  Yarns,        \* products the chunk computation writes
  BatchOrder,   \* products only MB Batch writes, in dependency order (BuildDAG)
  MaxAttempts,  \* upsertMaxRetries
  MaxOps        \* bound: requests started

MBs == {BatchOrder[i] : i \in DOMAIN BatchOrder}

ASSUME ClientsFinite == IsFiniteSet(Clients)
ASSUME ProductsApart ==
  /\ BatchOrder \in Seq(MBs)
  /\ \A i, j \in DOMAIN BatchOrder : BatchOrder[i] = BatchOrder[j] => i = j
  /\ Yarns \cap MBs = {}
ASSUME BoundsNat == MaxAttempts \in Nat \ {0} /\ MaxOps \in Nat

VARIABLES
  cost,      \* committed rows of cst_product_cost
  headCost,  \* committed rows of cst_mb_cost, by the version they came from
  lock,      \* the row of cst_period_lock for (period, ACTUAL)
  shares,    \* clients that hold the lock row, or its table, FOR SHARE
  pc, job,   \* each client's next statement and its request
  work,      \* what its open transaction has written
  saved,     \* work and share at its last savepoint
  started    \* number of requests so far

vars == <<cost, headCost, lock, shares, pc, job, work, saved, started>>

Products == Yarns \cup MBs
CalcTypes == <<"ACTUAL", "SELLING", "FORECAST">>
Types == {"ACTUAL", "SELLING", "FORECAST"}
Statuses == {"CALCULATED", "VERIFIED", "APPROVED", "SUPERSEDED"}
Row == [prod : Products, type : Types, version : Nat, status : Statuses]
Key == [prod : Products, type : Types, version : Nat]
Mark == [key : Key, to : Statuses]
Work == [marks : SUBSET Mark, rows : SUBSET Row, heads : SUBSET Key]
Ops == {"none", "upsert", "verify", "approve", "batch", "push"}
Points == {"idle", "advisory", "next", "check", "supersede", "wait", "insert", "read",
           "mark", "commit", "gaveUp"}
Job == [op : Ops, todo : Seq(Products), t : 1..3, seen : Nat, attempt : 1..MaxAttempts,
        base : Nat]

NoWork == [marks |-> {}, rows |-> {}, heads |-> {}]
NoJob == [op |-> "none", todo |-> <<>>, t |-> 1, seen |-> 0, attempt |-> 1, base |-> 0]

KeyOf(r) == [prod |-> r.prod, type |-> r.type, version |-> r.version]
History(p, t) == {r \in cost : r.prod = p /\ r.type = t}
Active(p, t) == {r \in History(p, t) : r.status # "SUPERSEDED"}
LastVersion(p, t) == IF Active(p, t) = {} THEN 0 ELSE (CHOOSE r \in Active(p, t) : TRUE).version

TypeOf(c) == CalcTypes[job[c].t]
ProdOf(c) == Head(job[c].todo)
KeyAt(c) == [prod |-> ProdOf(c), type |-> TypeOf(c), version |-> job[c].seen]

\* The clients other than c whose open transaction has updated the row: they hold its lock.
Holders(c, k) == {d \in Clients \ {c} : \E m \in work[d].marks : m.key = k}

\* The clients c must wait for before the unique index can decide about its insert.
Inserters(c) ==
  {d \in Clients \ {c} :
     \/ \E r \in work[d].rows : r.prod = ProdOf(c) /\ r.type = TypeOf(c)
     \/ \E r \in Active(ProdOf(c), TypeOf(c)), m \in work[d].marks : m.key = KeyOf(r)}

Init ==
  /\ cost = {}
  /\ headCost = {}
  /\ lock = "none"
  /\ shares = {}
  /\ pc = [c \in Clients |-> "idle"]
  /\ job = [c \in Clients |-> NoJob]
  /\ work = [c \in Clients |-> NoWork]
  /\ saved = [c \in Clients |-> [work |-> NoWork, share |-> FALSE]]
  /\ started = 0

----------------------------------------------------------------------------
(* The ends of a transaction. *)

Goto(c, p) == pc' = [pc EXCEPT ![c] = p]

Written(r, w) == \E m \in w.marks : m.key = KeyOf(r)
MarkedAs(r, w) == (CHOOSE m \in w.marks : m.key = KeyOf(r)).to

\* The tables after the commit of w: marked rows change status, new rows appear, the
\* pushed values replace those of their head and type.
CostAfter(w) ==
  {r \in cost : ~Written(r, w)} \cup
  {[r EXCEPT !.status = MarkedAs(r, w)] : r \in {x \in cost : Written(x, w)}} \cup
  w.rows
\* Mutant: ON CONFLICT DO NOTHING.
HeadFirst(w) ==
  headCost \cup {n \in w.heads : \A h \in headCost : n.prod # h.prod \/ n.type # h.type}
HeadAfter(w) ==
  {h \in headCost : \A n \in w.heads : n.prod # h.prod \/ n.type # h.type} \cup w.heads

EndTx(c) ==
  /\ work' = [work EXCEPT ![c] = NoWork]
  /\ saved' = [saved EXCEPT ![c] = [work |-> NoWork, share |-> FALSE]]
  /\ shares' = shares \ {c}

Rollback(c) ==
  /\ EndTx(c)
  /\ Goto(c, "idle")
  /\ job' = [job EXCEPT ![c] = NoJob]
  /\ UNCHANGED <<cost, headCost, lock, started>>

NextProductOf(j) == [j EXCEPT !.todo = Tail(@), !.t = 1]

\* Mutant: the failed MB is taken again.
RollbackAgain(c) ==
  /\ work' = [work EXCEPT ![c] = saved[c].work]
  /\ shares' = IF saved[c].share THEN shares ELSE shares \ {c}
  /\ job' = [job EXCEPT ![c].t = 1]
  /\ Goto(c, "next")
  /\ UNCHANGED <<cost, headCost, lock, saved, started>>
\* ROLLBACK TO SAVEPOINT: the MB is recorded as failed and the next one is taken.
RollbackProduct(c) ==
  /\ work' = [work EXCEPT ![c] = saved[c].work]
  /\ shares' = IF saved[c].share THEN shares ELSE shares \ {c}
  /\ job' = [job EXCEPT ![c] = NextProductOf(@)]
  /\ Goto(c, "next")
  /\ UNCHANGED <<cost, headCost, lock, saved, started>>

Grouped(c) == job[c].op \in {"batch", "push"}
Fail(c) == IF Grouped(c) THEN RollbackProduct(c) ELSE Rollback(c)

Commit(c) ==
  /\ pc[c] = "commit"
  /\ cost' = CostAfter(work[c])
  /\ headCost' = HeadAfter(work[c])
  /\ EndTx(c)
  /\ Goto(c, "idle")
  /\ job' = [job EXCEPT ![c] = NoJob]
  /\ UNCHANGED <<lock, started>>

\* The request is cancelled, the process dies or the connection breaks.
Abort(c) == pc[c] # "idle" /\ Rollback(c)

----------------------------------------------------------------------------
(* Requests. *)

StartWith(c, j, p) ==
  /\ pc[c] = "idle"
  /\ started < MaxOps
  /\ started' = started + 1
  /\ job' = [job EXCEPT ![c] = j]
  /\ Goto(c, p)
  /\ UNCHANGED <<cost, headCost, lock, shares, work, saved>>

\* Only an ACTUAL row is behind the period lock.
FirstPoint(t, otherwise) == IF CalcTypes[t] = "ACTUAL" THEN "check" ELSE otherwise

\* persistResult of one computed product; the job's own look at the period lock was long ago.
StartUpsert(c, p, t) ==
  StartWith(c, [NoJob EXCEPT !.op = "upsert", !.todo = <<p>>, !.t = t,
                             !.base = LastVersion(p, CalcTypes[t])],
            FirstPoint(t, "supersede"))

\* A user verifies or approves a row; rows of MB products are refused.
StartMark(c, r, t, op) ==
  /\ r.prod \in Yarns /\ r.type = CalcTypes[t]
  /\ r.type = "ACTUAL" => lock # "locked"
  /\ StartWith(c, [NoJob EXCEPT !.op = op, !.todo = <<r.prod>>, !.t = t, !.seen = r.version],
               FirstPoint(t, "mark"))

\* MB Batch over every MB product, push over the products asked for.
PushOrders == {s \in UNION {[1..n -> MBs] : n \in 1..Len(BatchOrder)} :
                 \A i, j \in DOMAIN s : s[i] = s[j] => i = j}

StartGroup(c, op, s) ==
  /\ lock # "locked"
  /\ StartWith(c, [NoJob EXCEPT !.op = op, !.todo = s], "advisory")

----------------------------------------------------------------------------
(* Statements. *)

\* pg_advisory_xact_lock, one key for batches and one for pushes.
Advisory(c) ==
  /\ pc[c] = "advisory"
  /\ \A d \in Clients : job[d].op = job[c].op => pc[d] \in {"idle", "advisory"}
  /\ Goto(c, IF job[c].op = "push" THEN "check" ELSE "next")
  /\ UNCHANGED <<cost, headCost, lock, shares, job, work, saved, started>>

\* SAVEPOINT before each MB product, or the end of the list.
NextProduct(c) ==
  /\ pc[c] = "next"
  /\ IF job[c].todo = <<>>
     THEN Goto(c, "commit") /\ UNCHANGED saved
     ELSE /\ Goto(c, IF job[c].op = "push" THEN "read" ELSE "check")
          /\ saved' = [saved EXCEPT ![c] = [work |-> work[c], share |-> c \in shares]]
  /\ UNCHANGED <<cost, headCost, lock, shares, job, work, started>>

AfterCheck(op) == CASE op = "push" -> "next"
                    [] op \in {"upsert", "batch"} -> "supersede"
                    [] OTHER -> "mark"

\* SELECT ... FOR SHARE on the lock row finds the period open.
Check(c) ==
  /\ pc[c] = "check"
  /\ lock # "locked"
  /\ shares' = shares \cup {c}
  /\ Goto(c, AfterCheck(job[c].op))
  /\ UNCHANGED <<cost, headCost, lock, job, work, saved, started>>

\* It finds the period locked: ErrPeriodLocked, for a push before its first savepoint.
CheckRefused(c) ==
  /\ pc[c] = "check"
  /\ lock = "locked"
  /\ IF job[c].op = "push" THEN Rollback(c) ELSE Fail(c)

MarkRow(c, k, to) ==
  work' = [work EXCEPT ![c].marks = @ \cup {[key |-> k, to |-> to]}]

\* UPDATE ... SET status = 'SUPERSEDED' WHERE status != 'SUPERSEDED' RETURNING version.
SupersedeNone(c) ==
  /\ pc[c] = "supersede"
  /\ Active(ProdOf(c), TypeOf(c)) = {}
  /\ job' = [job EXCEPT ![c].seen = 0]
  /\ Goto(c, "insert")
  /\ UNCHANGED <<cost, headCost, lock, shares, work, saved, started>>

Supersede(c) ==
  /\ pc[c] = "supersede"
  /\ \E r \in Active(ProdOf(c), TypeOf(c)) :
       /\ job' = [job EXCEPT ![c].seen = r.version]
       /\ IF Holders(c, KeyOf(r)) = {}
          THEN MarkRow(c, KeyOf(r), "SUPERSEDED") /\ Goto(c, "insert")
          ELSE Goto(c, "wait") /\ UNCHANGED work
  /\ UNCHANGED <<cost, headCost, lock, shares, saved, started>>

\* The row the update waited for is free: it is superseded if it is still active; a row
\* that replaced it meanwhile is not in the statement's snapshot.
Resume(c) ==
  /\ pc[c] = "wait"
  /\ Holders(c, KeyAt(c)) = {}
  /\ IF \E r \in Active(ProdOf(c), TypeOf(c)) : KeyOf(r) = KeyAt(c)
     THEN MarkRow(c, KeyAt(c), "SUPERSEDED") /\ UNCHANGED job
     ELSE job' = [job EXCEPT ![c].seen = 0] /\ UNCHANGED work
  /\ Goto(c, "insert")
  /\ UNCHANGED <<cost, headCost, lock, shares, saved, started>>

\* Mutant: the unique index covers CALCULATED rows only.
RivalsCalculated(c) ==
  {r \in Active(ProdOf(c), TypeOf(c)) : ~Written(r, work[c]) /\ r.status = "CALCULATED"}
\* Active rows the transaction has not superseded itself (uk_cpc_active).
Rivals(c) == {r \in Active(ProdOf(c), TypeOf(c)) : ~Written(r, work[c])}

NewRow(c) == [prod |-> ProdOf(c), type |-> TypeOf(c), version |-> job[c].seen + 1,
              status |-> "CALCULATED"]

\* Mutant: each type commits on its own.
AdvanceAlone(c, p) == Goto(c, "commit") /\ UNCHANGED job
\* The next type of the same MB product, or the next product.
Advance(c, p) ==
  IF job[c].t < 3
  THEN job' = [job EXCEPT ![c].t = @ + 1] /\ Goto(c, p)
  ELSE job' = [job EXCEPT ![c] = NextProductOf(@)] /\ Goto(c, "next")

Insert(c) ==
  /\ pc[c] = "insert"
  /\ Inserters(c) = {}
  /\ Rivals(c) = {}
  /\ work' = [work EXCEPT ![c].rows = @ \cup {NewRow(c)}]
  /\ IF job[c].op = "batch" THEN Advance(c, "supersede")
                            ELSE Goto(c, "commit") /\ UNCHANGED job
  /\ UNCHANGED <<cost, headCost, lock, shares, saved, started>>

Violation(c) ==
  /\ pc[c] = "insert"
  /\ Inserters(c) = {}
  /\ Rivals(c) # {}

\* A unique violation rolls the transaction back and starts it again.
Retry(c) ==
  /\ Violation(c)
  /\ job[c].op = "upsert"
  /\ job[c].attempt < MaxAttempts
  /\ EndTx(c)
  /\ job' = [job EXCEPT ![c].attempt = @ + 1]
  /\ Goto(c, FirstPoint(job[c].t, "supersede"))
  /\ UNCHANGED <<cost, headCost, lock, started>>

\* Mutant: one attempt too few.
GiveUpEarly(c) ==
  /\ Violation(c)
  /\ job[c].op = "upsert" => job[c].attempt >= MaxAttempts - 1
  /\ IF Grouped(c)
     THEN RollbackProduct(c)
     ELSE /\ EndTx(c)
          /\ Goto(c, "gaveUp")
          /\ UNCHANGED <<cost, headCost, lock, job, started>>
\* The last attempt's error is returned to the chunk computation.  MB Batch has no retry
\* of its own: it would give the product up.
GiveUp(c) ==
  /\ Violation(c)
  /\ job[c].op = "upsert" => job[c].attempt = MaxAttempts
  /\ IF Grouped(c)
     THEN RollbackProduct(c)
     ELSE /\ EndTx(c)
          /\ Goto(c, "gaveUp")
          /\ UNCHANGED <<cost, headCost, lock, job, started>>

Report(c) == pc[c] = "gaveUp" /\ Rollback(c)

Calculated(c) == {r \in Active(ProdOf(c), TypeOf(c)) : r.status = "CALCULATED"}

\* Push: read the active CALCULATED row and upsert its value as the head's cost.
Read(c) ==
  /\ pc[c] = "read"
  /\ \E r \in Calculated(c) :
       /\ work' = [work EXCEPT ![c].heads = @ \cup {KeyOf(r)}]
       /\ job' = [job EXCEPT ![c].seen = r.version]
  /\ Goto(c, "mark")
  /\ UNCHANGED <<cost, headCost, lock, shares, saved, started>>

ReadNone(c) == pc[c] = "read" /\ Calculated(c) = {} /\ Fail(c)

FromStatus(op) == IF op = "approve" THEN "VERIFIED" ELSE "CALCULATED"
\* Mutant: a status the check constraint does not admit.
ToReviewed(op) == IF op = "verify" THEN "REVIEWED" ELSE "APPROVED"
ToStatus(op) == IF op = "verify" THEN "VERIFIED" ELSE "APPROVED"

\* The row a guarded status update finds, and the one it does not find.
Markable(c) ==
  \E r \in Active(ProdOf(c), TypeOf(c)) :
    KeyOf(r) = KeyAt(c) /\ r.status = FromStatus(job[c].op)

MarkStatus(c) ==
  /\ pc[c] = "mark"
  /\ Markable(c)
  /\ Holders(c, KeyAt(c)) = {}
  /\ MarkRow(c, KeyAt(c), ToStatus(job[c].op))
  /\ IF job[c].op = "push" THEN Advance(c, "read") ELSE Goto(c, "commit") /\ UNCHANGED job
  /\ UNCHANGED <<cost, headCost, lock, shares, saved, started>>

MarkRefused(c) == pc[c] = "mark" /\ ~Markable(c) /\ Fail(c)

----------------------------------------------------------------------------
(* Deadlocks, found by the database: one of the two statements fails. *)

WaitsFor(c) ==
  CASE pc[c] = "wait" -> Holders(c, KeyAt(c))
    [] pc[c] = "mark" /\ Markable(c) -> Holders(c, KeyAt(c))
    [] pc[c] = "insert" -> Inserters(c)
    [] OTHER -> {}

Victim(c) == (\E d \in WaitsFor(c) : c \in WaitsFor(d)) /\ Fail(c)

----------------------------------------------------------------------------
(* The period lock. *)

\* Mutant: the row lock alone, which the first lock of a period cannot wait for.
LockRowOnly ==
  /\ lock # "locked"
  /\ lock = "none" \/ shares = {}
  /\ lock' = "locked"
  /\ UNCHANGED <<cost, headCost, shares, pc, job, work, saved, started>>
\* LOCK TABLE ... EXCLUSIVE waits for every FOR SHARE reader, row or no row.
LockPeriod ==
  /\ lock # "locked"
  /\ shares = {}
  /\ lock' = "locked"
  /\ UNCHANGED <<cost, headCost, shares, pc, job, work, saved, started>>

\* The guarded update of the lock row waits for the readers that hold it.
UnlockPeriod ==
  /\ lock = "locked"
  /\ shares = {}
  /\ lock' = "unlocked"
  /\ UNCHANGED <<cost, headCost, shares, pc, job, work, saved, started>>

----------------------------------------------------------------------------
Statement(c) ==
  \/ Advisory(c) \/ NextProduct(c) \/ Check(c) \/ CheckRefused(c)
  \/ SupersedeNone(c) \/ Supersede(c) \/ Resume(c)
  \/ Insert(c) \/ Retry(c) \/ GiveUp(c) \/ Report(c)
  \/ Read(c) \/ ReadNone(c) \/ MarkStatus(c) \/ MarkRefused(c)
  \/ Victim(c) \/ Commit(c)

Request(c) ==
  \/ \E p \in Yarns, t \in 1..3 : StartUpsert(c, p, t)
  \/ \E r \in cost, t \in 1..3, op \in {"verify", "approve"} : StartMark(c, r, t, op)
  \/ StartGroup(c, "batch", BatchOrder)
  \/ \E s \in PushOrders : StartGroup(c, "push", s)

Next ==
  \/ \E c \in Clients : Request(c) \/ Statement(c) \/ Abort(c)
  \/ LockPeriod
  \/ UnlockPeriod

Spec == Init /\ [][Next]_vars
FairSpec == Spec /\ \A c \in Clients : WF_vars(Statement(c))
----------------------------------------------------------------------------
(* Properties. *)

TypeOK ==
  /\ cost \subseteq Row
  /\ headCost \subseteq Key
  /\ lock \in {"none", "locked", "unlocked"}
  /\ shares \subseteq Clients
  /\ pc \in [Clients -> Points]
  /\ job \in [Clients -> Job]
  /\ work \in [Clients -> Work]
  /\ saved \in [Clients -> [work : Work, share : BOOLEAN]]
  /\ started \in Nat

\* While the period is locked no ACTUAL cost row is written and no pushed ACTUAL value
\* changes, whatever was in flight when the lock was taken, the first lock of the period
\* (no row to share) included.
ActualRows == {r \in cost : r.type = "ACTUAL"}
ActualHeads == {h \in headCost : h.type = "ACTUAL"}
FrozenWhileLocked ==
  [][lock = "locked" => UNCHANGED <<ActualRows, ActualHeads>>]_vars

\* Recomputations of one product and type leave one line of versions from 1: none is
\* skipped or given twice, and the last one is active.
VersionLine ==
  \A p \in Products, t \in Types :
    /\ \A r, s \in History(p, t) : r.version = s.version => r = s
    /\ \A r \in History(p, t) :
         r.version = 1 \/ \E s \in History(p, t) : s.version + 1 = r.version
    /\ \A r \in Active(p, t), s \in History(p, t) : s.version <= r.version
    /\ History(p, t) # {} => Active(p, t) # {}

\* The cost types of an MB product stay in step: they are computed together and approved
\* together, although other clients see each statement's effect only at the commit.
Line(p, t) == {[version |-> r.version, status |-> r.status] : r \in History(p, t)}
TypesInStep == \A m \in MBs, t, u \in Types : Line(m, t) = Line(m, u)

\* A head's pushed cost of a type is the last version that was approved, and the active
\* approved version is the one the head shows.
HeadShowsApproved ==
  \A m \in MBs, t \in Types :
    /\ \A h \in headCost : h.prod = m /\ h.type = t =>
         \E r \in History(m, t) :
            KeyOf(r) = h /\ r.status \in {"APPROVED", "SUPERSEDED"}
    /\ \A r \in History(m, t) : r.status = "APPROVED" => KeyOf(r) \in headCost
    /\ Cardinality({h \in headCost : h.prod = m /\ h.type = t}) <= 1

\* An upsert that gives up has lost each of its attempts to the commit of another version.
GaveUpToOthers ==
  \A c \in Clients : pc[c] = "gaveUp" =>
    LastVersion(ProdOf(c), TypeOf(c)) >= job[c].base + MaxAttempts

\* Every request ends: no statement waits for ever, deadlocks of batches and pushes over
\* several MB products included.
RequestsEnd == \A c \in Clients : pc[c] # "idle" ~> pc[c] = "idle"
=============================================================================

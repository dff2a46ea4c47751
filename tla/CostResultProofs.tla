-------------------------- MODULE CostResultProofs --------------------------
(***************************************************************************)
(* Proofs about CostResult, for any clients, products and requests: type   *)
(* correctness, that a locked period's ACTUAL costs do not change, and     *)
(* that the versions of each product and type form one line.               *)
(***************************************************************************)
EXTENDS CostResult, SequenceTheorems, TLAPS

-----------------------------------------------------------------------------
(* What a client's next statement says about its request.                  *)

InProduct == {"supersede", "wait", "insert", "read", "mark", "gaveUp"}

AtWork(c) ==
  /\ pc[c] \in {"supersede", "wait", "insert"} => job[c].op \in {"upsert", "batch"}
  /\ pc[c] = "read" => job[c].op = "push"
  /\ pc[c] = "mark" => job[c].op \in {"verify", "approve", "push"}
  /\ pc[c] = "gaveUp" => job[c].op = "upsert"
  /\ pc[c] \in {"next", "advisory"} => job[c].op \in {"batch", "push"} /\ job[c].t = 1
  /\ pc[c] = "check" => job[c].op # "none" /\ (job[c].op = "push" => job[c].t = 1)
  /\ pc[c] \in InProduct \/ (pc[c] = "check" /\ job[c].op # "push") => job[c].todo # <<>>
  /\ pc[c] \in {"idle", "advisory"} =>
       work[c] = NoWork /\ saved[c] = [work |-> NoWork, share |-> FALSE]

TypeInv == TypeOK /\ \A c \in Clients : AtWork(c)

-----------------------------------------------------------------------------
(* The period lock: whoever has written, or is about to write, an ACTUAL   *)
(* row holds the lock row FOR SHARE, and nobody does while it is locked.   *)

HasActual(w) ==
  \/ \E m \in w.marks : m.key.type = "ACTUAL"
  \/ \E r \in w.rows : r.type = "ACTUAL"
  \/ \E h \in w.heads : h.type = "ACTUAL"

GuardedBy(c) ==
  /\ HasActual(work[c]) => c \in shares
  /\ HasActual(saved[c].work) => saved[c].share
  /\ saved[c].share => c \in shares
  /\ pc[c] \in {"supersede", "wait", "insert", "mark"} /\ TypeOf(c) = "ACTUAL" => c \in shares
  /\ job[c].op = "push" /\ pc[c] \in {"next", "read", "mark", "commit"} => c \in shares
  /\ job[c].op = "push" /\ pc[c] \in {"read", "mark"} => saved[c].share

GuardInv ==
  /\ shares # {} => lock # "locked"
  /\ \A c \in Clients : GuardedBy(c)

-----------------------------------------------------------------------------
(* Versions: what an open transaction has written still fits the committed *)
(* rows when it commits.                                                   *)

MarkTo(op) == CASE op \in {"upsert", "batch"} -> "SUPERSEDED"
                [] op = "verify" -> "VERIFIED"
                [] OTHER -> "APPROVED"

SameTuple(r, s) == r.prod = s.prod /\ r.type = s.type

\* The rows c has updated are active and nobody else's.
MarksHeld(c) ==
  \A m \in work[c].marks :
    /\ m.to = MarkTo(job[c].op)
    /\ \E r \in cost : KeyOf(r) = m.key /\ r.status # "SUPERSEDED"
    /\ \A d \in Clients \ {c} : \A n \in work[d].marks : n.key # m.key

\* The row c has inserted follows the active row, which c has updated.
RowsFit(c) ==
  \A r \in work[c].rows :
    /\ r.status = "CALCULATED"
    /\ \A a \in Active(r.prod, r.type) : Written(a, work[c])
    /\ IF History(r.prod, r.type) = {}
       THEN r.version = 1
       ELSE \E a \in Active(r.prod, r.type) : r.version = a.version + 1
    /\ \A d \in Clients \ {c} : \A s \in work[d].rows : ~SameTuple(r, s)

\* A superseded row has a successor, up to the insert that is about to come.
Paired(w) ==
  \A m \in w.marks : m.to = "SUPERSEDED" => \E r \in w.rows : SameTuple(m.key, r)
PairedAt(c) ==
  \A m \in work[c].marks : m.to = "SUPERSEDED" =>
    \/ \E r \in work[c].rows : SameTuple(m.key, r)
    \/ pc[c] = "insert" /\ m.key = KeyAt(c)

\* What is still to do has not been touched.
DistinctTodo(c) == \A i, j \in DOMAIN job[c].todo : job[c].todo[i] = job[c].todo[j] => i = j
Untouched(c) ==
  \A m \in work[c].marks, i \in DOMAIN job[c].todo :
    job[c].todo[i] = m.key.prod =>
      /\ i = 1
      /\ \/ \E j \in 1..job[c].t : j < job[c].t /\ m.key.type = CalcTypes[j]
         \/ pc[c] \in {"insert", "commit"} /\ m.key = KeyAt(c)
SavedUntouched(c) ==
  \A m \in saved[c].work.marks, i \in DOMAIN job[c].todo : job[c].todo[i] # m.key.prod

\* What c's transaction says about itself, and what it says about the tables and the others.
OwnLine(c) ==
  /\ work[c].rows # {} => job[c].op \in {"upsert", "batch"}
  /\ PairedAt(c)
  /\ pc[c] = "insert" /\ job[c].seen # 0 => Written(KeyAt(c), work[c])
  /\ DistinctTodo(c)
  /\ pc[c] \notin {"idle", "gaveUp"} => Untouched(c)
  /\ saved[c].work.marks \subseteq work[c].marks
  /\ saved[c].work.rows \subseteq work[c].rows
  /\ Paired(saved[c].work)
  /\ SavedUntouched(c)

SavedFit(c) ==
  \A r \in saved[c].work.rows : \A a \in Active(r.prod, r.type) : Written(a, saved[c].work)

LineOf(c) == OwnLine(c) /\ MarksHeld(c) /\ RowsFit(c) /\ SavedFit(c)

LineInv ==
  /\ VersionLine
  /\ \A c \in Clients : LineOf(c)

-----------------------------------------------------------------------------
(* Every step of a client changes its own entries only.                    *)

NoSave == [work |-> NoWork, share |-> FALSE]

OwnOnly(c) ==
  \A d \in Clients \ {c} :
    /\ pc'[d] = pc[d] /\ job'[d] = job[d] /\ work'[d] = work[d] /\ saved'[d] = saved[d]
    /\ d \in shares' <=> d \in shares

LEMMA RollbackOwn ==
  ASSUME TypeOK, NEW c \in Clients, Rollback(c)
  PROVE  /\ OwnOnly(c)
         /\ pc'[c] = "idle" /\ job'[c] = NoJob /\ work'[c] = NoWork /\ saved'[c] = NoSave
         /\ c \notin shares'
         /\ UNCHANGED <<cost, headCost, lock, started>>
  BY DEF TypeOK, Rollback, EndTx, Goto, OwnOnly, NoSave

LEMMA RollbackProductOwn ==
  ASSUME TypeOK, NEW c \in Clients, RollbackProduct(c)
  PROVE  /\ OwnOnly(c)
         /\ pc'[c] = "next" /\ work'[c] = saved[c].work /\ saved'[c] = saved[c]
         /\ job'[c] = NextProductOf(job[c])
         /\ c \in shares' <=> c \in shares /\ saved[c].share
         /\ UNCHANGED <<cost, headCost, lock, started>>
  BY DEF TypeOK, RollbackProduct, Goto, OwnOnly

LEMMA StartOwn ==
  ASSUME TypeOK, NEW c \in Clients, NEW j, NEW p, StartWith(c, j, p)
  PROVE  /\ OwnOnly(c)
         /\ pc[c] = "idle"
         /\ pc'[c] = p /\ job'[c] = j /\ work'[c] = work[c] /\ saved'[c] = saved[c]
         /\ UNCHANGED <<cost, headCost, lock, shares>> /\ started' = started + 1
  BY DEF TypeOK, StartWith, Goto, OwnOnly

LEMMA RequestOwn ==
  ASSUME TypeOK, NEW c \in Clients, Request(c)
  PROVE  OwnOnly(c)
  BY StartOwn DEF Request, StartUpsert, StartMark, StartGroup

LEMMA StatementOwn ==
  ASSUME TypeOK, NEW c \in Clients, Statement(c)
  PROVE  OwnOnly(c)
<1>1. \A d \in Clients : pc[d] \in Points /\ work[d] \in Work /\ job[d] \in Job
  BY DEF TypeOK
<1> USE DEF TypeOK
<1>a. ASSUME Advisory(c) PROVE OwnOnly(c)
  BY <1>a DEF Advisory, Goto, OwnOnly
<1>b. ASSUME NextProduct(c) PROVE OwnOnly(c)
  BY <1>b DEF NextProduct, Goto, OwnOnly
<1>c. ASSUME Check(c) PROVE OwnOnly(c)
  BY <1>c DEF Check, Goto, OwnOnly
<1>d. ASSUME Fail(c) PROVE OwnOnly(c)
  BY <1>d, RollbackOwn, RollbackProductOwn DEF Fail
<1>e. ASSUME CheckRefused(c) PROVE OwnOnly(c)
  BY <1>e, <1>d, RollbackOwn DEF CheckRefused
<1>f. ASSUME SupersedeNone(c) PROVE OwnOnly(c)
  BY <1>f DEF SupersedeNone, Goto, OwnOnly
<1>g. ASSUME Supersede(c) PROVE OwnOnly(c)
  BY <1>g DEF Supersede, MarkRow, Goto, OwnOnly
<1>h. ASSUME Resume(c) PROVE OwnOnly(c)
  BY <1>h DEF Resume, MarkRow, Goto, OwnOnly
<1>i. ASSUME Insert(c) PROVE OwnOnly(c)
  BY <1>i DEF Insert, Advance, Goto, OwnOnly
<1>j. ASSUME Retry(c) PROVE OwnOnly(c)
  BY <1>j DEF Retry, EndTx, Goto, OwnOnly
<1>k. ASSUME GiveUp(c) PROVE OwnOnly(c)
  BY <1>k, RollbackProductOwn DEF GiveUp, EndTx, Goto, OwnOnly
<1>l. ASSUME Read(c) PROVE OwnOnly(c)
  BY <1>l DEF Read, Goto, OwnOnly
<1>m. ASSUME MarkStatus(c) PROVE OwnOnly(c)
  BY <1>m DEF MarkStatus, MarkRow, Advance, Goto, OwnOnly
<1>n. ASSUME Commit(c) PROVE OwnOnly(c)
  BY <1>n DEF Commit, EndTx, Goto, OwnOnly
<1> QED
  BY <1>a, <1>b, <1>c, <1>d, <1>e, <1>f, <1>g, <1>h, <1>i, <1>j, <1>k, <1>l, <1>m, <1>n,
     RollbackOwn DEF Statement, Report, ReadNone, MarkRefused, Victim

LEMMA AtWorkOthers ==
  ASSUME TypeInv, NEW c \in Clients, NEW d \in Clients \ {c}, OwnOnly(c)
  PROVE  AtWork(d)'
<1>1. AtWork(d)
  BY DEF TypeInv
<1>2. /\ pc'[d] = pc[d] /\ job'[d] = job[d] /\ work'[d] = work[d] /\ saved'[d] = saved[d]
  BY DEF OwnOnly
<1> QED
  BY <1>1, <1>2 DEF AtWork

-----------------------------------------------------------------------------
(* Type correctness.                                                       *)

LEMMA KeyAtType ==
  ASSUME TypeOK, NEW c \in Clients, job[c].todo # <<>>
  PROVE  /\ ProdOf(c) \in Products /\ TypeOf(c) \in Types /\ KeyAt(c) \in Key
         /\ Tail(job[c].todo) \in Seq(Products)
<1>1. job[c].todo \in Seq(Products) /\ job[c].t \in 1..3 /\ job[c].seen \in Nat
  BY DEF TypeOK, Job
<1>2. Head(job[c].todo) \in Products /\ Tail(job[c].todo) \in Seq(Products)
  BY <1>1
<1> QED
  BY <1>1, <1>2 DEF ProdOf, TypeOf, KeyAt, CalcTypes, Types, Key

LEMMA KeyOfType == \A r \in Row : KeyOf(r) \in Key
  BY DEF Row, Key, KeyOf

LEMMA NoWorkType == NoWork \in Work /\ NoSave \in [work : Work, share : BOOLEAN]
  BY DEF NoWork, NoSave, Work

LEMMA NoJobType == NoJob \in Job
<1>1. 1 \in 1..MaxAttempts
  BY BoundsNat
<1> QED
  BY <1>1 DEF NoJob, Job, Ops

LEMMA MarkRowType ==
  ASSUME TypeOK, NEW c \in Clients, NEW k \in Key, NEW to \in Statuses, MarkRow(c, k, to)
  PROVE  /\ work' \in [Clients -> Work]
         /\ work'[c] = [work[c] EXCEPT !.marks = @ \cup {[key |-> k, to |-> to]}]
<1>1. work[c] \in Work /\ [key |-> k, to |-> to] \in Mark
  BY DEF TypeOK, Mark
<1>2. [work[c] EXCEPT !.marks = @ \cup {[key |-> k, to |-> to]}] \in Work
  BY <1>1 DEF Work
<1> QED
  BY <1>2 DEF TypeOK, MarkRow

LEMMA EndTxType ==
  ASSUME TypeOK, NEW c \in Clients, EndTx(c)
  PROVE  /\ work' \in [Clients -> Work] /\ saved' \in [Clients -> [work : Work, share : BOOLEAN]]
         /\ shares' \subseteq Clients
  BY NoWorkType DEF TypeOK, EndTx, NoSave

LEMMA TypeInit == Init => TypeInv
<1> SUFFICES ASSUME Init PROVE TypeInv
  OBVIOUS
<1>1. TypeOK
  BY NoWorkType, NoJobType DEF Init, TypeOK, NoSave, Points
<1>2. \A c \in Clients : AtWork(c)
  BY DEF Init, AtWork, InProduct
<1> QED
  BY <1>1, <1>2 DEF TypeInv

LEMMA RollbackType ==
  ASSUME TypeInv, NEW c \in Clients, Rollback(c)
  PROVE  TypeOK' /\ AtWork(c)'
<1>1. TypeOK'
  BY EndTxType, NoJobType DEF TypeInv, TypeOK, Rollback, Goto, Points
<1>2. AtWork(c)'
  BY RollbackOwn DEF TypeInv, AtWork, InProduct, NoSave
<1> QED
  BY <1>1, <1>2

LEMMA NextProductOfType ==
  ASSUME NEW j \in Job, Tail(j.todo) \in Seq(Products)
  PROVE  /\ NextProductOf(j) \in Job /\ NextProductOf(j).op = j.op /\ NextProductOf(j).t = 1
         /\ NextProductOf(j).todo = Tail(j.todo)
<1> DEFINE k == [j EXCEPT !.todo = Tail(j.todo)]
<1>0. k \in Job /\ k.op = j.op /\ k.todo = Tail(j.todo)
  BY DEF Job
<1>1. NextProductOf(j) = [k EXCEPT !.t = 1]
  BY DEF NextProductOf
<1> HIDE DEF k
<1>2. [k EXCEPT !.t = 1] \in Job /\ [k EXCEPT !.t = 1].op = k.op
      /\ [k EXCEPT !.t = 1].t = 1 /\ [k EXCEPT !.t = 1].todo = k.todo
  BY <1>0 DEF Job
<1> QED
  BY <1>0, <1>1, <1>2

LEMMA RollbackProductType ==
  ASSUME TypeInv, NEW c \in Clients, RollbackProduct(c), Grouped(c), job[c].todo # <<>>
  PROVE  TypeOK' /\ AtWork(c)'
<1>1. /\ job[c] \in Job /\ saved[c] \in [work : Work, share : BOOLEAN]
      /\ Tail(job[c].todo) \in Seq(Products)
  BY KeyAtType DEF TypeInv, TypeOK
<1>2. NextProductOf(job[c]) \in Job /\ NextProductOf(job[c]).op = job[c].op
      /\ NextProductOf(job[c]).t = 1
  BY <1>1, NextProductOfType
<1>3. /\ job' = [job EXCEPT ![c] = NextProductOf(job[c])]
      /\ work' = [work EXCEPT ![c] = saved[c].work]
      /\ UNCHANGED <<cost, headCost, lock, saved, started>>
  BY DEF TypeInv, TypeOK, RollbackProduct
<1>4. pc' \in [Clients -> Points] /\ shares' \subseteq Clients
  BY DEF TypeInv, TypeOK, RollbackProduct, Goto, Points
<1>5. TypeOK'
  BY <1>1, <1>2, <1>3, <1>4 DEF TypeInv, TypeOK
<1>6. AtWork(c)'
  BY <1>1, <1>2, RollbackProductOwn DEF TypeInv, AtWork, InProduct, Grouped
<1> QED
  BY <1>5, <1>6

LEMMA FailType ==
  ASSUME TypeInv, NEW c \in Clients, Fail(c), job[c].todo # <<>>
  PROVE  TypeOK' /\ AtWork(c)'
  BY RollbackType, RollbackProductType DEF Fail

\* A request's first statement and its job.
LEMMA StartType ==
  ASSUME TypeInv, NEW c \in Clients, NEW j \in Job, NEW p \in Points, StartWith(c, j, p)
  PROVE  TypeOK'
  BY DEF TypeInv, TypeOK, StartWith, Goto

LEMMA FirstPointType ==
  ASSUME NEW t \in 1..3, NEW o \in Points
  PROVE  FirstPoint(t, o) \in {"check", o} /\ FirstPoint(t, o) \in Points
  BY DEF FirstPoint, Points

LEMMA RequestType ==
  ASSUME TypeInv, NEW c \in Clients, Request(c)
  PROVE  TypeOK' /\ AtWork(c)'
<1>0. TypeOK /\ AtWork(c)
  BY DEF TypeInv
<1>a. ASSUME NEW p \in Yarns, NEW t \in 1..3, StartUpsert(c, p, t)
      PROVE  TypeOK' /\ AtWork(c)'
  <2> DEFINE j == [NoJob EXCEPT !.op = "upsert", !.todo = <<p>>, !.t = t,
                                !.base = LastVersion(p, CalcTypes[t])]
  <2>1. StartWith(c, j, FirstPoint(t, "supersede"))
    BY <1>a DEF StartUpsert
  <2>2. <<p>> \in Seq(Products) /\ <<p>> # <<>>
    BY DEF Products
  <2>3. LastVersion(p, CalcTypes[t]) \in Nat
    BY <1>0 DEF TypeOK, LastVersion, Active, History, Row
  <2>4. j \in Job /\ j.op = "upsert" /\ j.todo = <<p>>
    BY <2>2, <2>3, NoJobType DEF Job, Ops, NoJob
  <2>5. FirstPoint(t, "supersede") \in Points
        /\ FirstPoint(t, "supersede") \in {"check", "supersede"}
    BY FirstPointType DEF Points
  <2> HIDE DEF j
  <2>6. TypeOK'
    BY <2>1, <2>4, <2>5, StartType
  <2>7. job'[c].op = "upsert" /\ job'[c].todo = <<p>> /\ pc'[c] \in {"check", "supersede"}
    BY <1>0, <2>1, <2>4, <2>5, StartOwn
  <2>8. AtWork(c)'
    BY <2>2, <2>7 DEF AtWork, InProduct
  <2> QED
    BY <2>6, <2>8
<1>b. ASSUME NEW r \in cost, NEW t \in 1..3, NEW op \in {"verify", "approve"},
             StartMark(c, r, t, op)
      PROVE  TypeOK' /\ AtWork(c)'
  <2> DEFINE j == [NoJob EXCEPT !.op = op, !.todo = <<r.prod>>, !.t = t, !.seen = r.version]
  <2>1. StartWith(c, j, FirstPoint(t, "mark"))
    BY <1>b DEF StartMark
  <2>2. r.prod \in Products /\ r.version \in Nat
    BY <1>0 DEF TypeOK, Row
  <2>3. <<r.prod>> \in Seq(Products) /\ <<r.prod>> # <<>>
    BY <2>2
  <2>4. j \in Job /\ j.op = op /\ j.todo = <<r.prod>>
    BY <2>2, <2>3, NoJobType DEF Job, Ops, NoJob
  <2>5. FirstPoint(t, "mark") \in Points /\ FirstPoint(t, "mark") \in {"check", "mark"}
    BY FirstPointType DEF Points
  <2> HIDE DEF j
  <2>6. TypeOK'
    BY <2>1, <2>4, <2>5, StartType
  <2>7. job'[c].op = op /\ job'[c].todo = <<r.prod>> /\ pc'[c] \in {"check", "mark"}
    BY <1>0, <2>1, <2>4, <2>5, StartOwn
  <2>8. AtWork(c)'
    BY <2>3, <2>7 DEF AtWork, InProduct
  <2> QED
    BY <2>6, <2>8
<1>c. ASSUME NEW op \in {"batch", "push"}, NEW s \in Seq(Products), StartGroup(c, op, s)
      PROVE  TypeOK' /\ AtWork(c)'
  <2> DEFINE j == [NoJob EXCEPT !.op = op, !.todo = s]
  <2>1. StartWith(c, j, "advisory")
    BY <1>c DEF StartGroup
  <2>2. j \in Job /\ j.op = op /\ j.t = 1
    BY NoJobType DEF Job, Ops, NoJob
  <2> HIDE DEF j
  <2>3. TypeOK'
    BY <2>1, <2>2, StartType DEF Points
  <2>4. /\ pc[c] = "idle" /\ pc'[c] = "advisory" /\ job'[c].op = op /\ job'[c].t = 1
        /\ work'[c] = work[c] /\ saved'[c] = saved[c]
    BY <1>0, <2>1, <2>2, StartOwn
  <2>5. AtWork(c)'
    BY <1>0, <2>4 DEF AtWork, InProduct
  <2> QED
    BY <2>3, <2>5
<1>1. BatchOrder \in Seq(Products)
  <2>1. BatchOrder \in Seq(MBs)
    BY ProductsApart
  <2> QED
    BY <2>1 DEF Products
<1>2. \A s \in PushOrders : s \in Seq(Products)
  <2> SUFFICES ASSUME NEW s \in PushOrders PROVE s \in Seq(Products)
    OBVIOUS
  <2>1. PICK n \in 1..Len(BatchOrder) : s \in [1..n -> MBs]
    BY Zenon DEF PushOrders
  <2>2. n \in Nat
    BY <2>1, <1>1
  <2> QED
    BY <2>1, <2>2 DEF Products
<1> QED
  BY <1>a, <1>b, <1>c, <1>1, <1>2 DEF Request

LEMMA JobFieldTypes ==
  ASSUME NEW j \in Job
  PROVE  /\ \A n \in Nat : [j EXCEPT !.seen = n] \in Job
         /\ \A n \in 1..3 : [j EXCEPT !.t = n] \in Job
         /\ \A n \in 1..MaxAttempts : [j EXCEPT !.attempt = n] \in Job
  BY DEF Job

\* A step that leaves the tables alone and writes job, pc and work with typed values.
LEMMA OwnType ==
  ASSUME TypeOK, NEW c \in Clients, UNCHANGED <<cost, headCost, lock, started>>,
         pc' \in [Clients -> Points], job' \in [Clients -> Job], work' \in [Clients -> Work],
         saved' \in [Clients -> [work : Work, share : BOOLEAN]], shares' \subseteq Clients
  PROVE  TypeOK'
  BY DEF TypeOK

LEMMA GotoType ==
  ASSUME TypeOK, NEW c \in Clients, NEW p \in Points, Goto(c, p)
  PROVE  pc' \in [Clients -> Points] /\ pc'[c] = p
  BY DEF TypeOK, Goto

LEMMA AdvanceType ==
  ASSUME TypeOK, NEW c \in Clients, job[c].todo # <<>>, NEW p \in {"supersede", "read"},
         Advance(c, p)
  PROVE  /\ job' \in [Clients -> Job] /\ pc' \in [Clients -> Points]
         /\ job'[c].op = job[c].op
         /\ \/ pc'[c] = p /\ job'[c] = [job[c] EXCEPT !.t = @ + 1] /\ job[c].t < 3
               /\ job'[c].todo = job[c].todo
            \/ pc'[c] = "next" /\ job'[c] = NextProductOf(job[c]) /\ job'[c].t = 1
<1>1. job[c] \in Job /\ job \in [Clients -> Job] /\ job[c].t \in 1..3
  BY DEF TypeOK, Job
<1>2. CASE job[c].t < 3
  <2>1. job[c].t + 1 \in 1..3
    BY <1>1, <1>2
  <2>2. job' = [job EXCEPT ![c] = [job[c] EXCEPT !.t = job[c].t + 1]] /\ Goto(c, p)
    BY <1>1, <1>2 DEF Advance
  <2>3. [job[c] EXCEPT !.t = job[c].t + 1] \in Job
    BY <1>1, <2>1, JobFieldTypes
  <2>4. /\ [job[c] EXCEPT !.t = job[c].t + 1].op = job[c].op
        /\ [job[c] EXCEPT !.t = job[c].t + 1].todo = job[c].todo
    BY <1>1 DEF Job
  <2> QED
    BY <1>1, <1>2, <2>2, <2>3, <2>4, GotoType DEF Points
<1>3. CASE ~(job[c].t < 3)
  <2>1. Tail(job[c].todo) \in Seq(Products)
    BY KeyAtType
  <2>2. job' = [job EXCEPT ![c] = NextProductOf(job[c])] /\ Goto(c, "next")
    BY <1>3 DEF Advance
  <2>3. /\ NextProductOf(job[c]) \in Job /\ NextProductOf(job[c]).op = job[c].op
        /\ NextProductOf(job[c]).t = 1
    BY <1>1, <2>1, NextProductOfType
  <2> QED
    BY <1>1, <2>2, <2>3, GotoType DEF Points
<1> QED
  BY <1>2, <1>3

LEMMA StatementType ==
  ASSUME TypeInv, NEW c \in Clients, Statement(c)
  PROVE  TypeOK' /\ AtWork(c)'
<1>0. /\ TypeOK /\ AtWork(c)
      /\ job[c] \in Job /\ job \in [Clients -> Job] /\ work \in [Clients -> Work]
      /\ saved \in [Clients -> [work : Work, share : BOOLEAN]] /\ shares \subseteq Clients
      /\ work[c] \in Work /\ job[c].op \in Ops /\ pc \in [Clients -> Points]
  BY DEF TypeInv, TypeOK, Job
<1>t. pc[c] \in InProduct => job[c].todo # <<>>
  BY <1>0 DEF AtWork
<1>a. ASSUME Advisory(c) PROVE TypeOK' /\ AtWork(c)'
  <2>1. pc'[c] = (IF job[c].op = "push" THEN "check" ELSE "next") /\ pc' \in [Clients -> Points]
    BY <1>0, <1>a DEF Advisory, Goto, Points
  <2> QED
    BY <1>0, <1>a, <2>1, OwnType DEF Advisory, AtWork, InProduct
<1>b. ASSUME NextProduct(c) PROVE TypeOK' /\ AtWork(c)'
  <2>1. /\ pc' \in [Clients -> Points]
        /\ pc'[c] \in {"commit", "read", "check"}
        /\ pc'[c] # "commit" => job[c].todo # <<>>
        /\ pc'[c] = "read" => job[c].op = "push"
    BY <1>0, <1>b DEF NextProduct, Goto, Points
  <2>2. saved' \in [Clients -> [work : Work, share : BOOLEAN]]
    <3>1. [work |-> work[c], share |-> c \in shares] \in [work : Work, share : BOOLEAN]
      <4>1. \A b \in BOOLEAN, w \in Work :
              [work |-> w, share |-> b] \in [work : Work, share : BOOLEAN]
        OBVIOUS
      <4>2. (c \in shares) \in BOOLEAN
        OBVIOUS
      <4> QED
        BY <1>0, <4>1, <4>2, Zenon
    <3> QED
      BY <1>0, <1>b, <3>1 DEF NextProduct
  <2>3. TypeOK'
    <3>1. UNCHANGED <<cost, headCost, lock, shares, job, work, started>>
      BY <1>b DEF NextProduct
    <3> QED
      BY <1>0, <2>1, <2>2, <3>1, OwnType
  <2>4. job' = job /\ work' = work /\ job[c].op \in {"batch", "push"} /\ job[c].t = 1
    BY <1>0, <1>b DEF NextProduct, AtWork
  <2> QED
    BY <2>1, <2>3, <2>4 DEF AtWork, InProduct
<1>c. ASSUME Check(c) PROVE TypeOK' /\ AtWork(c)'
  <2>1. /\ AfterCheck(job[c].op) \in {"next", "supersede", "mark"}
        /\ AfterCheck(job[c].op) = "next" => job[c].op = "push"
        /\ AfterCheck(job[c].op) = "supersede" => job[c].op \in {"upsert", "batch"}
        /\ AfterCheck(job[c].op) = "mark" => job[c].op \in {"verify", "approve"}
    BY <1>0, <1>c DEF AfterCheck, Ops, Check, AtWork
  <2>2. pc' \in [Clients -> Points] /\ pc'[c] = AfterCheck(job[c].op)
    BY <1>0, <1>c, <2>1, GotoType DEF Check, Points
  <2>3. /\ job[c].op = "push" => job[c].t = 1
        /\ job[c].op # "push" => job[c].todo # <<>>
        /\ job' = job /\ work' = work
    BY <1>0, <1>c DEF Check, AtWork
  <2>4. TypeOK'
    BY <1>0, <1>c, <2>2, OwnType DEF Check
  <2> QED
    BY <2>1, <2>2, <2>3, <2>4 DEF AtWork, InProduct
<1>d. ASSUME Fail(c), pc[c] \in InProduct \/ (pc[c] = "check" /\ job[c].op # "push")
      PROVE  TypeOK' /\ AtWork(c)'
  BY <1>d, <1>0, FailType DEF AtWork
<1>e. ASSUME CheckRefused(c) PROVE TypeOK' /\ AtWork(c)'
  BY <1>e, <1>d, RollbackType DEF CheckRefused
<1>f. ASSUME SupersedeNone(c) PROVE TypeOK' /\ AtWork(c)'
  <2>1. [job[c] EXCEPT !.seen = 0] \in Job /\ [job[c] EXCEPT !.seen = 0].op = job[c].op
        /\ [job[c] EXCEPT !.seen = 0].todo = job[c].todo
    BY <1>0, JobFieldTypes DEF Job
  <2>2. job' = [job EXCEPT ![c] = [job[c] EXCEPT !.seen = 0]]
    BY <1>f DEF SupersedeNone
  <2>3. pc' \in [Clients -> Points] /\ pc'[c] = "insert"
    BY <1>0, <1>f DEF SupersedeNone, Goto, Points
  <2> QED
    BY <1>0, <1>t, <1>f, <2>1, <2>2, <2>3, OwnType DEF SupersedeNone, AtWork, InProduct
<1>g. ASSUME Supersede(c) PROVE TypeOK' /\ AtWork(c)'
  <2>1. PICK r \in Active(ProdOf(c), TypeOf(c)) :
          /\ job' = [job EXCEPT ![c].seen = r.version]
          /\ IF Holders(c, KeyOf(r)) = {}
             THEN MarkRow(c, KeyOf(r), "SUPERSEDED") /\ Goto(c, "insert")
             ELSE Goto(c, "wait") /\ UNCHANGED work
    BY <1>g DEF Supersede
  <2>2. r \in Row /\ r.version \in Nat /\ KeyOf(r) \in Key
    BY <1>0, KeyOfType DEF Active, History, TypeOK, Row
  <2>3. /\ [job[c] EXCEPT !.seen = r.version] \in Job
        /\ [job[c] EXCEPT !.seen = r.version].op = job[c].op
        /\ [job[c] EXCEPT !.seen = r.version].todo = job[c].todo
    BY <1>0, <2>2, JobFieldTypes DEF Job
  <2>4. work' \in [Clients -> Work]
    BY <1>0, <2>1, <2>2, MarkRowType DEF Statuses
  <2>5. pc' \in [Clients -> Points] /\ pc'[c] \in {"insert", "wait"}
    BY <1>0, <2>1, GotoType DEF Points
  <2>6. job'[c].op = job[c].op /\ job'[c].todo = job[c].todo /\ job' \in [Clients -> Job]
    BY <1>0, <2>1, <2>3
  <2> QED
    BY <1>0, <1>t, <1>g, <2>4, <2>5, <2>6, OwnType DEF Supersede, AtWork, InProduct
<1>h. ASSUME Resume(c) PROVE TypeOK' /\ AtWork(c)'
  <2>1. KeyAt(c) \in Key
    BY <1>0, <1>t, <1>h, KeyAtType DEF Resume, InProduct
  <2>2. [job[c] EXCEPT !.seen = 0] \in Job /\ [job[c] EXCEPT !.seen = 0].op = job[c].op
        /\ [job[c] EXCEPT !.seen = 0].todo = job[c].todo
    BY <1>0, JobFieldTypes DEF Job
  <2>3. work' \in [Clients -> Work]
    BY <1>0, <1>h, <2>1, MarkRowType DEF Resume, Statuses
  <2>4. job' \in [Clients -> Job] /\ job'[c].op = job[c].op /\ job'[c].todo = job[c].todo
    BY <1>0, <1>h, <2>2 DEF Resume
  <2>5. pc' \in [Clients -> Points] /\ pc'[c] = "insert"
    BY <1>0, <1>h, GotoType DEF Resume, Points
  <2> QED
    BY <1>0, <1>t, <1>h, <2>3, <2>4, <2>5, OwnType DEF Resume, AtWork, InProduct
<1>i. ASSUME Insert(c) PROVE TypeOK' /\ AtWork(c)'
  <2>1. job[c].todo # <<>>
    BY <1>i, <1>t DEF Insert, InProduct
  <2>2. NewRow(c) \in Row
    BY <1>0, <2>1, KeyAtType DEF NewRow, Row, Job, Statuses
  <2>3. [work[c] EXCEPT !.rows = @ \cup {NewRow(c)}] \in Work
    BY <1>0, <2>2 DEF Work
  <2>4. work' \in [Clients -> Work]
    BY <1>0, <1>i, <2>3 DEF Insert
  <2>5. CASE job[c].op = "batch"
    <3>1. Advance(c, "supersede")
      BY <1>i, <2>5 DEF Insert
    <3>2. /\ job' \in [Clients -> Job] /\ pc' \in [Clients -> Points] /\ job'[c].op = "batch"
          /\ \/ pc'[c] = "supersede" /\ job'[c].todo = job[c].todo
             \/ pc'[c] = "next" /\ job'[c].t = 1
      BY <1>0, <2>1, <2>5, <3>1, AdvanceType
    <3> QED
      BY <1>0, <1>i, <2>1, <2>4, <3>2, OwnType DEF Insert, AtWork, InProduct
  <2>6. CASE job[c].op # "batch"
    <3>1. pc' \in [Clients -> Points] /\ pc'[c] = "commit" /\ UNCHANGED job
      BY <1>0, <1>i, <2>6, GotoType DEF Insert, Points
    <3> QED
      BY <1>0, <1>i, <2>4, <3>1, OwnType DEF Insert, AtWork, InProduct
  <2> QED
    BY <2>5, <2>6
<1>j. ASSUME Retry(c) PROVE TypeOK' /\ AtWork(c)'
  <2>1. job[c].todo # <<>> /\ job[c].t \in 1..3 /\ job[c].attempt + 1 \in 1..MaxAttempts
    BY <1>0, <1>j, <1>t, BoundsNat DEF Retry, Violation, InProduct, Job
  <2>2. /\ [job[c] EXCEPT !.attempt = job[c].attempt + 1] \in Job
        /\ [job[c] EXCEPT !.attempt = job[c].attempt + 1].op = job[c].op
        /\ [job[c] EXCEPT !.attempt = job[c].attempt + 1].todo = job[c].todo
    BY <1>0, <2>1, JobFieldTypes DEF Job
  <2>3. job' = [job EXCEPT ![c] = [job[c] EXCEPT !.attempt = job[c].attempt + 1]]
    BY <1>j DEF Retry
  <2>4. FirstPoint(job[c].t, "supersede") \in {"check", "supersede"}
    BY <2>1, FirstPointType DEF Points
  <2>5. pc' \in [Clients -> Points] /\ pc'[c] \in {"check", "supersede"}
    BY <1>0, <1>j, <2>4, GotoType DEF Retry, Points
  <2>6. job' \in [Clients -> Job] /\ job'[c].op = "upsert" /\ job'[c].todo = job[c].todo
    BY <1>0, <1>j, <2>2, <2>3 DEF Retry
  <2>7. EndTx(c) /\ UNCHANGED <<cost, headCost, lock, started>>
    BY <1>j DEF Retry
  <2> QED
    BY <1>0, <2>1, <2>5, <2>6, <2>7, OwnType, EndTxType DEF AtWork, InProduct
<1>k. ASSUME GiveUp(c) PROVE TypeOK' /\ AtWork(c)'
  <2>1. job[c].todo # <<>> /\ job[c].op \in {"upsert", "batch"}
    BY <1>0, <1>k, <1>t DEF GiveUp, Violation, InProduct, AtWork
  <2>2. CASE Grouped(c)
    <3>1. RollbackProduct(c)
      BY <1>k, <2>2 DEF GiveUp
    <3> QED
      BY <2>1, <2>2, <3>1, RollbackProductType
  <2>3. CASE ~Grouped(c)
    <3>1. EndTx(c) /\ Goto(c, "gaveUp") /\ UNCHANGED <<cost, headCost, lock, job, started>>
      BY <1>k, <2>3 DEF GiveUp
    <3>2. pc' \in [Clients -> Points] /\ pc'[c] = "gaveUp"
      BY <1>0, <3>1, GotoType DEF Points
    <3> QED
      BY <1>0, <2>1, <2>3, <3>1, <3>2, OwnType, EndTxType DEF AtWork, InProduct, Grouped
  <2> QED
    BY <2>2, <2>3
<1>l. ASSUME Read(c) PROVE TypeOK' /\ AtWork(c)'
  <2>1. PICK r \in Calculated(c) :
          /\ work' = [work EXCEPT ![c].heads = @ \cup {KeyOf(r)}]
          /\ job' = [job EXCEPT ![c].seen = r.version]
    BY <1>l DEF Read
  <2>2. r \in Row /\ r.version \in Nat /\ KeyOf(r) \in Key
    BY <1>0, KeyOfType DEF Calculated, Active, History, TypeOK, Row
  <2>3. [work[c] EXCEPT !.heads = @ \cup {KeyOf(r)}] \in Work
    BY <1>0, <2>2 DEF Work
  <2>4. /\ [job[c] EXCEPT !.seen = r.version] \in Job
        /\ [job[c] EXCEPT !.seen = r.version].op = job[c].op
        /\ [job[c] EXCEPT !.seen = r.version].todo = job[c].todo
    BY <1>0, <2>2, JobFieldTypes DEF Job
  <2>5. /\ work' \in [Clients -> Work] /\ job' \in [Clients -> Job]
        /\ job'[c].op = job[c].op /\ job'[c].todo = job[c].todo
    BY <1>0, <2>1, <2>3, <2>4
  <2>6. pc' \in [Clients -> Points] /\ pc'[c] = "mark"
    BY <1>0, <1>l, GotoType DEF Read, Points
  <2> QED
    BY <1>0, <1>t, <1>l, <2>5, <2>6, OwnType DEF Read, AtWork, InProduct
<1>m. ASSUME MarkStatus(c) PROVE TypeOK' /\ AtWork(c)'
  <2>1. job[c].todo # <<>> /\ job[c].op \in {"verify", "approve", "push"}
    BY <1>0, <1>m, <1>t DEF MarkStatus, InProduct, AtWork
  <2>2. work' \in [Clients -> Work]
    BY <1>0, <1>m, <2>1, KeyAtType, MarkRowType DEF MarkStatus, ToStatus, Statuses
  <2>3. CASE job[c].op = "push"
    <3>1. Advance(c, "read")
      BY <1>m, <2>3 DEF MarkStatus
    <3>2. /\ job' \in [Clients -> Job] /\ pc' \in [Clients -> Points] /\ job'[c].op = "push"
          /\ \/ pc'[c] = "read" /\ job'[c].todo = job[c].todo
             \/ pc'[c] = "next" /\ job'[c].t = 1
      BY <1>0, <2>1, <2>3, <3>1, AdvanceType
    <3> QED
      BY <1>0, <1>m, <2>1, <2>2, <3>2, OwnType DEF MarkStatus, AtWork, InProduct
  <2>4. CASE job[c].op # "push"
    <3>1. pc' \in [Clients -> Points] /\ pc'[c] = "commit" /\ UNCHANGED job
      BY <1>0, <1>m, <2>4, GotoType DEF MarkStatus, Points
    <3> QED
      BY <1>0, <1>m, <2>2, <3>1, OwnType DEF MarkStatus, AtWork, InProduct
  <2> QED
    BY <2>3, <2>4
<1>n. ASSUME Commit(c) PROVE TypeOK' /\ AtWork(c)'
  <2>1. cost' \subseteq Row
    <3>1. cost' = CostAfter(work[c])
      BY <1>n DEF Commit
    <3>2. \A r \in cost : Written(r, work[c]) => MarkedAs(r, work[c]) \in Statuses
      BY <1>0 DEF Written, MarkedAs, Work, Mark
    <3>3. \A r \in Row, s \in Statuses : [r EXCEPT !.status = s] \in Row
      BY DEF Row
    <3>4. work[c].rows \subseteq Row /\ cost \subseteq Row
      BY <1>0 DEF Work, TypeOK
    <3> QED
      BY <3>1, <3>2, <3>3, <3>4 DEF CostAfter
  <2>2. headCost' \subseteq Key
    BY <1>0, <1>n DEF Commit, HeadAfter, Work, TypeOK
  <2>3. pc' \in [Clients -> Points] /\ pc'[c] = "idle" /\ job' \in [Clients -> Job]
        /\ job'[c] = NoJob
    BY <1>0, <1>n, GotoType, NoJobType DEF Commit, Points
  <2>4. /\ work' \in [Clients -> Work] /\ shares' \subseteq Clients
        /\ saved' \in [Clients -> [work : Work, share : BOOLEAN]]
        /\ work'[c] = NoWork /\ saved'[c] = NoSave
    BY <1>0, <1>n, EndTxType DEF Commit, EndTx, NoSave
  <2>5. TypeOK'
    BY <1>0, <1>n, <2>1, <2>2, <2>3, <2>4 DEF Commit, TypeOK
  <2> QED
    BY <2>3, <2>4, <2>5 DEF AtWork, InProduct, NoSave
<1>o. ASSUME Report(c) PROVE TypeOK' /\ AtWork(c)'
  BY <1>o, RollbackType DEF Report
<1>p. ASSUME ReadNone(c) PROVE TypeOK' /\ AtWork(c)'
  BY <1>p, <1>d DEF ReadNone, InProduct
<1>q. ASSUME MarkRefused(c) PROVE TypeOK' /\ AtWork(c)'
  BY <1>q, <1>d DEF MarkRefused, InProduct
<1>r. ASSUME Victim(c) PROVE TypeOK' /\ AtWork(c)'
  <2>1. pc[c] \in {"wait", "mark", "insert"} /\ Fail(c)
    BY <1>r DEF Victim, WaitsFor
  <2> QED
    BY <2>1, <1>d DEF InProduct
<1> QED
  BY <1>a, <1>b, <1>c, <1>e, <1>f, <1>g, <1>h, <1>i, <1>j, <1>k, <1>l, <1>m, <1>n, <1>o,
     <1>p, <1>q, <1>r DEF Statement

LEMMA TypeStep == TypeInv /\ [Next]_vars => TypeInv'
<1> SUFFICES ASSUME TypeInv, [Next]_vars PROVE TypeInv'
  OBVIOUS
<1>1. TypeOK
  BY DEF TypeInv
<1>2. ASSUME NEW c \in Clients, Request(c) \/ Statement(c) \/ Abort(c) PROVE TypeInv'
  <2>1. TypeOK' /\ AtWork(c)'
    BY <1>2, RequestType, StatementType, RollbackType DEF Abort
  <2>2. OwnOnly(c)
    BY <1>1, <1>2, RequestOwn, StatementOwn, RollbackOwn DEF Abort
  <2>3. \A d \in Clients \ {c} : AtWork(d)'
    BY <2>2, AtWorkOthers
  <2> QED
    BY <2>1, <2>3 DEF TypeInv
<1>3. ASSUME LockPeriod \/ UnlockPeriod \/ UNCHANGED vars PROVE TypeInv'
  <2>1. TypeOK'
    BY <1>1, <1>3 DEF LockPeriod, UnlockPeriod, vars, TypeOK
  <2>2. \A c \in Clients : AtWork(c)'
    BY <1>3 DEF LockPeriod, UnlockPeriod, vars, TypeInv, AtWork, InProduct
  <2> QED
    BY <2>1, <2>2 DEF TypeInv
<1> QED
  BY <1>2, <1>3 DEF Next

\* Every behaviour of the cost rows keeps its types; in particular no status is written that
\* the check constraint of the table refuses.
THEOREM TypeCorrect == Spec => []TypeOK
<1>1. TypeInv => TypeOK
  BY DEF TypeInv
<1> QED
  BY TypeInit, TypeStep, <1>1, PTL DEF Spec
-----------------------------------------------------------------------------
(* The period lock.                                                        *)

LEMMA GuardOthers ==
  ASSUME GuardInv, NEW c \in Clients, NEW d \in Clients \ {c}, OwnOnly(c)
  PROVE  GuardedBy(d)'
<1>1. GuardedBy(d)
  BY DEF GuardInv
<1>2. /\ pc'[d] = pc[d] /\ job'[d] = job[d] /\ work'[d] = work[d] /\ saved'[d] = saved[d]
      /\ d \in shares' <=> d \in shares
  BY DEF OwnOnly
<1> QED
  BY <1>1, <1>2 DEF GuardedBy, TypeOf

LEMMA SavedFields ==
  ASSUME NEW f, NEW w, NEW x, NEW S, f = [work |-> w, share |-> x \in S]
  PROVE  f.work = w /\ (f.share <=> x \in S)
  BY Zenon

LEMMA NoActual == ~HasActual(NoWork)
  BY DEF HasActual, NoWork

\* A client that writes nothing more than it already wrote and keeps its share.
LEMMA GuardKeeps ==
  ASSUME GuardInv, NEW c \in Clients,
         saved'[c] = saved[c], shares' = shares, job'[c].t = job[c].t, job'[c].op = job[c].op,
         HasActual(work'[c]) => c \in shares,
         pc'[c] \in {"supersede", "wait", "insert", "mark"} /\ TypeOf(c) = "ACTUAL" =>
           c \in shares,
         job[c].op = "push" /\ pc'[c] \in {"next", "read", "mark", "commit"} => c \in shares,
         job[c].op = "push" /\ pc'[c] \in {"read", "mark"} => saved[c].share
  PROVE  GuardedBy(c)'
<1>1. GuardedBy(c)
  BY DEF GuardInv
<1> QED
  BY <1>1 DEF GuardedBy, TypeOf

LEMMA RollbackGuard ==
  ASSUME TypeInv, GuardInv, NEW c \in Clients, Rollback(c)
  PROVE  GuardedBy(c)'
<1>1. /\ pc'[c] = "idle" /\ work'[c] = NoWork /\ saved'[c] = NoSave
  BY RollbackOwn DEF TypeInv
<1> QED
  BY <1>1, NoActual DEF GuardedBy, NoSave

LEMMA RollbackProductGuard ==
  ASSUME TypeInv, GuardInv, NEW c \in Clients, RollbackProduct(c),
         job[c].op = "push" => pc[c] \in {"read", "mark"}, job[c].todo # <<>>
  PROVE  GuardedBy(c)'
<1>1. /\ pc'[c] = "next" /\ work'[c] = saved[c].work /\ saved'[c] = saved[c]
      /\ job'[c] = NextProductOf(job[c])
      /\ c \in shares' <=> c \in shares /\ saved[c].share
  BY RollbackProductOwn DEF TypeInv
<1>2. GuardedBy(c)
  BY DEF GuardInv
<1>3. job'[c].op = job[c].op
  <2>1. TypeOK /\ job[c] \in Job
    BY DEF TypeInv, TypeOK
  <2>2. Tail(job[c].todo) \in Seq(Products)
    BY <2>1, KeyAtType
  <2>3. NextProductOf(job[c]).op = job[c].op
    BY <2>1, <2>2, NextProductOfType, Zenon
  <2> QED
    BY <1>1, <2>3
<1> QED
  BY <1>1, <1>2, <1>3 DEF GuardedBy

LEMMA FailGuard ==
  ASSUME TypeInv, GuardInv, NEW c \in Clients, Fail(c),
         job[c].op = "push" => pc[c] \in {"read", "mark"}, job[c].todo # <<>>
  PROVE  GuardedBy(c)'
  BY RollbackGuard, RollbackProductGuard DEF Fail

LEMMA FirstPointGuard ==
  ASSUME NEW t \in 1..3, NEW o
  PROVE  CalcTypes[t] = "ACTUAL" => FirstPoint(t, o) = "check"
  BY DEF FirstPoint

\* A new request has written nothing, and takes its first row only past the lock.
LEMMA StartGuard ==
  ASSUME TypeInv, GuardInv, NEW c \in Clients, NEW j, NEW p, StartWith(c, j, p),
         p \in {"supersede", "mark"} => CalcTypes[j.t] # "ACTUAL",
         p \in {"check", "supersede", "mark", "advisory"}, p = "mark" => j.op # "push"
  PROVE  GuardedBy(c)'
<1>1. /\ pc'[c] = p /\ job'[c] = j /\ work'[c] = work[c] /\ saved'[c] = saved[c]
      /\ shares' = shares /\ pc[c] = "idle"
  BY StartOwn DEF TypeInv
<1>2. work[c] = NoWork /\ saved[c] = NoSave
  BY <1>1 DEF TypeInv, AtWork, NoSave
<1> QED
  BY <1>1, <1>2, NoActual DEF GuardedBy, NoSave, TypeOf

LEMMA RequestGuard ==
  ASSUME TypeInv, GuardInv, NEW c \in Clients, Request(c)
  PROVE  GuardedBy(c)' /\ shares' = shares /\ lock' = lock
<1>a. ASSUME NEW p \in Yarns, NEW t \in 1..3, StartUpsert(c, p, t)
      PROVE  GuardedBy(c)' /\ shares' = shares /\ lock' = lock
  <2> DEFINE j == [NoJob EXCEPT !.op = "upsert", !.todo = <<p>>, !.t = t,
                                !.base = LastVersion(p, CalcTypes[t])]
             q == FirstPoint(t, "supersede")
  <2>1. StartWith(c, j, q)
    BY <1>a DEF StartUpsert
  <2>2. j.t = t
    BY DEF NoJob
  <2>3. q \in {"check", "supersede"} /\ (q = "supersede" => CalcTypes[t] # "ACTUAL")
    BY FirstPointGuard DEF FirstPoint
  <2> HIDE DEF j, q
  <2>4. GuardedBy(c)'
    BY <2>1, <2>2, <2>3, StartGuard
  <2> QED
    BY <2>1, <2>4 DEF StartWith
<1>b. ASSUME NEW r \in cost, NEW t \in 1..3, NEW op \in {"verify", "approve"},
             StartMark(c, r, t, op)
      PROVE  GuardedBy(c)' /\ shares' = shares /\ lock' = lock
  <2> DEFINE j == [NoJob EXCEPT !.op = op, !.todo = <<r.prod>>, !.t = t, !.seen = r.version]
             q == FirstPoint(t, "mark")
  <2>1. StartWith(c, j, q)
    BY <1>b DEF StartMark
  <2>2. j.t = t /\ j.op # "push"
    BY DEF NoJob
  <2>3. q \in {"check", "mark"} /\ (q = "mark" => CalcTypes[t] # "ACTUAL")
    BY FirstPointGuard DEF FirstPoint
  <2> HIDE DEF j, q
  <2>4. GuardedBy(c)'
    BY <2>1, <2>2, <2>3, StartGuard
  <2> QED
    BY <2>1, <2>4 DEF StartWith
<1>c. ASSUME NEW op, NEW s, StartGroup(c, op, s)
      PROVE  GuardedBy(c)' /\ shares' = shares /\ lock' = lock
  <2> DEFINE j == [NoJob EXCEPT !.op = op, !.todo = s]
  <2>1. StartWith(c, j, "advisory")
    BY <1>c DEF StartGroup
  <2> HIDE DEF j
  <2>4. GuardedBy(c)'
    BY <2>1, StartGuard
  <2> QED
    BY <2>1, <2>4 DEF StartWith
<1> QED
  BY <1>a, <1>b, <1>c DEF Request

LEMMA MarkRowActual ==
  ASSUME TypeOK, NEW c \in Clients, NEW k \in Key, NEW to \in Statuses, MarkRow(c, k, to),
         HasActual(work'[c])
  PROVE  HasActual(work[c]) \/ k.type = "ACTUAL"
<1>1. /\ work'[c].marks = work[c].marks \cup {[key |-> k, to |-> to]}
      /\ work'[c].rows = work[c].rows /\ work'[c].heads = work[c].heads
  <2>1. work[c] \in Work
    BY DEF TypeOK
  <2>2. work'[c] = [work[c] EXCEPT !.marks = @ \cup {[key |-> k, to |-> to]}]
    BY MarkRowType
  <2> QED
    BY <2>1, <2>2 DEF Work
<1> QED
  BY <1>1 DEF HasActual

LEMMA AdvanceGuard ==
  ASSUME TypeInv, GuardInv, NEW c \in Clients, NEW p \in {"supersede", "read"}, Advance(c, p),
         job[c].todo # <<>>, saved' = saved, shares' = shares,
         HasActual(work'[c]) => c \in shares,
         p = "supersede" => job[c].op = "batch",
         p = "read" => job[c].op = "push" /\ saved[c].share
  PROVE  GuardedBy(c)'
<1>1. /\ job'[c].op = job[c].op
      /\ \/ pc'[c] = p /\ job'[c] = [job[c] EXCEPT !.t = @ + 1] /\ job[c].t < 3
         \/ pc'[c] = "next"
  BY AdvanceType DEF TypeInv
<1>2. GuardedBy(c) /\ job[c] \in Job /\ job[c].t \in 1..3
  BY DEF GuardInv, TypeInv, TypeOK, Job
<1>3. CASE pc'[c] = "next"
  BY <1>1, <1>2, <1>3 DEF GuardedBy
<1>4. CASE pc'[c] = p /\ job'[c] = [job[c] EXCEPT !.t = @ + 1] /\ job[c].t < 3
  <2>1. job'[c].t \in 2..3
    BY <1>2, <1>4 DEF Job
  <2>2. TypeOf(c)' # "ACTUAL"
    BY <2>1 DEF TypeOf, CalcTypes
  <2> QED
    BY <1>1, <1>2, <1>4, <2>2 DEF GuardedBy
<1> QED
  BY <1>1, <1>3, <1>4
LEMMA StatementGuard ==
  ASSUME TypeInv, GuardInv, NEW c \in Clients, Statement(c), ~Commit(c)
  PROVE  GuardedBy(c)'
<1>0. /\ TypeOK /\ AtWork(c) /\ GuardedBy(c)
      /\ job[c] \in Job /\ work[c] \in Work /\ job[c].t \in 1..3
      /\ pc \in [Clients -> Points] /\ job \in [Clients -> Job] /\ work \in [Clients -> Work]
      /\ saved \in [Clients -> [work : Work, share : BOOLEAN]]
  BY DEF TypeInv, TypeOK, GuardInv, Job
<1>t. pc[c] \in InProduct => job[c].todo # <<>>
  BY <1>0 DEF AtWork
<1>d. ASSUME Fail(c), job[c].op = "push" => pc[c] \in {"read", "mark"}, job[c].todo # <<>>
      PROVE  GuardedBy(c)'
  BY <1>d, FailGuard
<1>a. ASSUME Advisory(c) PROVE GuardedBy(c)'
  <2>1. /\ pc'[c] \in {"check", "next"} /\ (job[c].op = "push" => pc'[c] = "check")
        /\ job' = job /\ work' = work /\ saved' = saved /\ shares' = shares
    BY <1>0, <1>a DEF Advisory, Goto
  <2> QED
    BY <1>0, <2>1 DEF GuardedBy
<1>b. ASSUME NextProduct(c) PROVE GuardedBy(c)'
  <2>1. job' = job /\ work' = work /\ shares' = shares /\ pc[c] = "next"
    BY <1>b DEF NextProduct
  <2>2. \/ pc'[c] = "commit" /\ saved' = saved
        \/ /\ pc'[c] \in {"read", "check"} /\ (pc'[c] = "check" => job[c].op # "push")
           /\ saved'[c].work = work[c] /\ (saved'[c].share <=> c \in shares)
    <3>1. CASE job[c].todo = <<>>
      BY <1>0, <1>b, <3>1 DEF NextProduct, Goto
    <3>2. CASE job[c].todo # <<>>
      <4>1. pc'[c] = IF job[c].op = "push" THEN "read" ELSE "check"
        BY <1>0, <1>b, <3>2 DEF NextProduct, Goto
      <4>2. saved' = [saved EXCEPT ![c] = [work |-> work[c], share |-> c \in shares]]
        BY <1>b, <3>2 DEF NextProduct
      <4>3. saved'[c] = [work |-> work[c], share |-> c \in shares]
        <5>1. \A v : [saved EXCEPT ![c] = v][c] = v
          BY <1>0
        <5> QED
          BY <4>2, <5>1, Zenon
      <4>4. saved'[c].work = work[c] /\ (saved'[c].share <=> c \in shares)
        BY <4>3, SavedFields, Zenon
      <4> QED
        BY <4>1, <4>4
    <3> QED
      BY <3>1, <3>2
  <2> QED
    BY <1>0, <2>1, <2>2 DEF GuardedBy
<1>c. ASSUME Check(c) PROVE GuardedBy(c)'
  <2>1. job' = job /\ work' = work /\ saved' = saved /\ c \in shares'
    BY <1>c DEF Check
  <2>2. pc'[c] = AfterCheck(job[c].op) /\ job[c].op \in Ops \ {"none"}
    BY <1>0, <1>c DEF Check, Goto, AtWork, Job
  <2>3. job[c].op = "push" => pc'[c] = "next"
    BY <2>2 DEF AfterCheck
  <2> QED
    BY <1>0, <2>1, <2>3 DEF GuardedBy
<1>e. ASSUME CheckRefused(c) PROVE GuardedBy(c)'
  <2>1. CASE job[c].op = "push"
    BY <1>e, <2>1, RollbackGuard DEF CheckRefused
  <2>2. CASE job[c].op # "push"
    BY <1>0, <1>e, <2>2, <1>d DEF CheckRefused, AtWork
  <2> QED
    BY <2>1, <2>2
<1>f. ASSUME SupersedeNone(c) PROVE GuardedBy(c)'
  <2>1. /\ work' = work /\ saved' = saved /\ shares' = shares
        /\ pc[c] = "supersede" /\ pc'[c] = "insert"
    BY <1>0, <1>f DEF SupersedeNone, Goto
  <2>2. job'[c].t = job[c].t /\ job'[c].op = job[c].op
    BY <1>0, <1>f DEF SupersedeNone, Job
  <2>3. job[c].op # "push"
    BY <1>0, <2>1 DEF AtWork
  <2> QED
    BY <1>0, <2>1, <2>2, <2>3, GuardKeeps DEF GuardedBy
<1>g. ASSUME Supersede(c) PROVE GuardedBy(c)'
  <2>1. PICK r \in Active(ProdOf(c), TypeOf(c)) :
          /\ job' = [job EXCEPT ![c].seen = r.version]
          /\ IF Holders(c, KeyOf(r)) = {}
             THEN MarkRow(c, KeyOf(r), "SUPERSEDED") /\ Goto(c, "insert")
             ELSE Goto(c, "wait") /\ UNCHANGED work
    BY <1>g DEF Supersede
  <2>2. r \in Row /\ KeyOf(r) \in Key /\ KeyOf(r).type = TypeOf(c)
    BY <1>0, KeyOfType DEF Active, History, TypeOK, KeyOf
  <2>3. job'[c].t = job[c].t /\ job'[c].op = job[c].op /\ job[c].op # "push"
    BY <1>0, <1>g, <2>1 DEF Job, AtWork, Supersede
  <2>4. pc'[c] \in {"insert", "wait"} /\ saved' = saved /\ shares' = shares /\ pc[c] = "supersede"
    BY <1>0, <1>g, <2>1 DEF Supersede, Goto
  <2>5. HasActual(work'[c]) => HasActual(work[c]) \/ TypeOf(c) = "ACTUAL"
    BY <1>0, <2>1, <2>2, MarkRowActual DEF Statuses
  <2> QED
    BY <1>0, <2>3, <2>4, <2>5, GuardKeeps DEF GuardedBy
<1>h. ASSUME Resume(c) PROVE GuardedBy(c)'
  <2>1. KeyAt(c) \in Key /\ KeyAt(c).type = TypeOf(c)
    BY <1>0, <1>t, <1>h, KeyAtType DEF Resume, InProduct, KeyAt
  <2>2. job'[c].t = job[c].t /\ job'[c].op = job[c].op /\ job[c].op # "push"
    BY <1>0, <1>h DEF Job, AtWork, Resume
  <2>3. pc'[c] = "insert" /\ saved' = saved /\ shares' = shares /\ pc[c] = "wait"
    BY <1>0, <1>h DEF Resume, Goto
  <2>4. HasActual(work'[c]) => HasActual(work[c]) \/ TypeOf(c) = "ACTUAL"
    BY <1>0, <1>h, <2>1, MarkRowActual DEF Resume, Statuses
  <2> QED
    BY <1>0, <2>2, <2>3, <2>4, GuardKeeps DEF GuardedBy
<1>i. ASSUME Insert(c) PROVE GuardedBy(c)'
  <2>1. job[c].todo # <<>> /\ pc[c] = "insert" /\ saved' = saved /\ shares' = shares
    BY <1>i, <1>t DEF Insert, InProduct
  <2>2. HasActual(work'[c]) => HasActual(work[c]) \/ TypeOf(c) = "ACTUAL"
    <3>1. /\ work'[c].rows = work[c].rows \cup {NewRow(c)}
          /\ work'[c].marks = work[c].marks /\ work'[c].heads = work[c].heads
      BY <1>0, <1>i DEF Insert, Work
    <3>2. NewRow(c).type = TypeOf(c)
      BY DEF NewRow
    <3> QED
      BY <3>1, <3>2 DEF HasActual
  <2>3. HasActual(work'[c]) => c \in shares
    BY <1>0, <2>1, <2>2 DEF GuardedBy
  <2>4. CASE job[c].op = "batch"
    BY <1>i, <2>1, <2>3, <2>4, AdvanceGuard DEF Insert
  <2>5. CASE job[c].op # "batch"
    <3>1. pc'[c] = "commit" /\ job' = job /\ job[c].op # "push"
      BY <1>0, <1>i, <2>5 DEF Insert, Goto, AtWork
    <3> QED
      BY <2>1, <2>3, <3>1, GuardKeeps
  <2> QED
    BY <2>4, <2>5
<1>j. ASSUME Retry(c) PROVE GuardedBy(c)'
  <2>1. /\ pc'[c] = FirstPoint(job[c].t, "supersede")
        /\ work'[c] = NoWork /\ saved'[c] = NoSave
        /\ job[c].op = "upsert"
    BY <1>0, <1>j DEF Retry, Goto, EndTx, NoSave
  <2>2. job'[c].t = job[c].t /\ job'[c].op = job[c].op
    BY <1>0, <1>j DEF Retry, Job
  <2>3. TypeOf(c)' = TypeOf(c)
    BY <2>2 DEF TypeOf
  <2>4. TypeOf(c) = "ACTUAL" => pc'[c] = "check"
    BY <1>0, <2>1, FirstPointGuard DEF TypeOf
  <2> QED
    BY <2>1, <2>2, <2>3, <2>4, NoActual DEF GuardedBy, NoSave
<1>k. ASSUME GiveUp(c) PROVE GuardedBy(c)'
  <2>1. job[c].todo # <<>> /\ job[c].op \in {"upsert", "batch"}
    BY <1>0, <1>k, <1>t DEF GiveUp, Violation, InProduct, AtWork
  <2>2. CASE Grouped(c)
    BY <1>k, <2>1, <2>2, RollbackProductGuard DEF GiveUp
  <2>3. CASE ~Grouped(c)
    <3>1. pc'[c] = "gaveUp" /\ work'[c] = NoWork /\ saved'[c] = NoSave
      BY <1>0, <1>k, <2>3 DEF GiveUp, EndTx, Goto, NoSave
    <3> QED
      BY <3>1, NoActual DEF GuardedBy, NoSave
  <2> QED
    BY <2>2, <2>3
<1>l. ASSUME Read(c) PROVE GuardedBy(c)'
  <2>1. pc'[c] = "mark" /\ saved' = saved /\ shares' = shares /\ pc[c] = "read"
        /\ job[c].op = "push"
    BY <1>0, <1>l DEF Read, Goto, AtWork
  <2>2. c \in shares /\ saved[c].share
    BY <1>0, <2>1 DEF GuardedBy
  <2>3. job'[c].t = job[c].t /\ job'[c].op = job[c].op
    BY <1>0, <1>l DEF Read, Job
  <2> QED
    BY <2>1, <2>2, <2>3, GuardKeeps
<1>m. ASSUME MarkStatus(c) PROVE GuardedBy(c)'
  <2>1. /\ job[c].todo # <<>> /\ saved' = saved /\ shares' = shares /\ pc[c] = "mark"
        /\ MarkRow(c, KeyAt(c), ToStatus(job[c].op))
    BY <1>m, <1>t DEF MarkStatus, InProduct
  <2>2. KeyAt(c) \in Key /\ KeyAt(c).type = TypeOf(c) /\ ToStatus(job[c].op) \in Statuses
    BY <1>0, <2>1, KeyAtType DEF KeyAt, ToStatus, Statuses
  <2>3. HasActual(work'[c]) => HasActual(work[c]) \/ TypeOf(c) = "ACTUAL"
    BY <1>0, <2>1, <2>2, MarkRowActual
  <2>4. HasActual(work'[c]) => c \in shares
    BY <1>0, <2>1, <2>3 DEF GuardedBy
  <2>5. CASE job[c].op = "push"
    <3>1. saved[c].share
      BY <1>0, <2>1, <2>5 DEF GuardedBy
    <3> QED
      BY <1>m, <2>1, <2>4, <2>5, <3>1, AdvanceGuard DEF MarkStatus
  <2>6. CASE job[c].op # "push"
    <3>1. pc'[c] = "commit" /\ job' = job
      BY <1>0, <1>m, <2>6 DEF MarkStatus, Goto
    <3> QED
      BY <2>1, <2>4, <2>6, <3>1, GuardKeeps
  <2> QED
    BY <2>5, <2>6
<1>o. ASSUME Report(c) PROVE GuardedBy(c)'
  BY <1>o, RollbackGuard DEF Report
<1>p. ASSUME ReadNone(c) PROVE GuardedBy(c)'
  BY <1>p, <1>d, <1>t DEF ReadNone, InProduct
<1>q. ASSUME MarkRefused(c) PROVE GuardedBy(c)'
  BY <1>q, <1>d, <1>t DEF MarkRefused, InProduct
<1>r. ASSUME Victim(c) PROVE GuardedBy(c)'
  <2>1. pc[c] \in {"wait", "mark", "insert"} /\ Fail(c)
    BY <1>r DEF Victim, WaitsFor
  <2>2. job[c].op = "push" => pc[c] = "mark"
    BY <1>0, <2>1 DEF AtWork
  <2> QED
    BY <2>1, <2>2, <1>d, <1>t DEF InProduct
<1> QED
  BY <1>a, <1>b, <1>c, <1>e, <1>f, <1>g, <1>h, <1>i, <1>j, <1>k, <1>l, <1>m, <1>o,
     <1>p, <1>q, <1>r DEF Statement

\* Only Check takes a share, and it finds the period open.
LEMMA StatementShares ==
  ASSUME NEW c \in Clients, Statement(c)
  PROVE  lock' = lock /\ (shares' \subseteq shares \/ lock # "locked")
<1>1. ASSUME Fail(c) PROVE lock' = lock /\ shares' \subseteq shares
  BY <1>1 DEF Fail, Rollback, RollbackProduct, EndTx
<1> QED
  BY <1>1 DEF Statement, Advisory, NextProduct, Check, CheckRefused, SupersedeNone, Supersede,
     Resume, Insert, Retry, GiveUp, Report, Read, ReadNone, MarkStatus, MarkRefused, Victim,
     Commit, Rollback, RollbackProduct, EndTx

LEMMA GuardStep == TypeInv /\ GuardInv /\ [Next]_vars => GuardInv'
<1> SUFFICES ASSUME TypeInv, GuardInv, [Next]_vars PROVE GuardInv'
  OBVIOUS
<1>0. TypeOK /\ (shares # {} => lock # "locked")
  BY DEF TypeInv, GuardInv
<1>1. ASSUME NEW c \in Clients, GuardedBy(c)', OwnOnly(c),
             lock' = lock, shares' \subseteq shares \/ lock # "locked"
      PROVE  GuardInv'
  <2>1. \A d \in Clients \ {c} : GuardedBy(d)'
    BY <1>1, GuardOthers
  <2> QED
    BY <1>0, <1>1, <2>1 DEF GuardInv
<1>2. ASSUME NEW c \in Clients, Commit(c) PROVE GuardedBy(c)'
  <2>1. pc'[c] = "idle" /\ work'[c] = NoWork /\ saved'[c] = NoSave
    BY <1>0, <1>2 DEF TypeOK, Commit, EndTx, Goto, NoSave
  <2> QED
    BY <2>1, NoActual DEF GuardedBy, NoSave
<1>3. ASSUME NEW c \in Clients, Request(c) \/ Statement(c) \/ Abort(c) PROVE GuardInv'
  <2>1. OwnOnly(c)
    BY <1>0, <1>3, RequestOwn, StatementOwn, RollbackOwn DEF Abort
  <2>2. GuardedBy(c)'
    BY <1>2, <1>3, RequestGuard, StatementGuard, RollbackGuard DEF Abort
  <2>3. lock' = lock /\ (shares' \subseteq shares \/ lock # "locked")
    BY <1>3, RequestGuard, StatementShares DEF Abort, Rollback, EndTx
  <2> QED
    BY <1>1, <2>1, <2>2, <2>3
<1>4. ASSUME LockPeriod \/ UnlockPeriod \/ UNCHANGED vars PROVE GuardInv'
  <2>1. /\ UNCHANGED <<shares, pc, job, work, saved>>
        /\ shares # {} => lock' # "locked"
    BY <1>0, <1>4 DEF LockPeriod, UnlockPeriod, vars
  <2>2. \A c \in Clients : GuardedBy(c)'
    BY <2>1 DEF GuardInv, GuardedBy, TypeOf
  <2> QED
    BY <2>1, <2>2 DEF GuardInv
<1> QED
  BY <1>3, <1>4 DEF Next

\* Only Commit writes the tables.
LEMMA TablesWritten ==
  ASSUME [Next]_vars, ~UNCHANGED <<cost, headCost>>
  PROVE  \E c \in Clients : Commit(c)
<1>1. ASSUME NEW c \in Clients, Fail(c) PROVE UNCHANGED <<cost, headCost>>
  BY <1>1 DEF Fail, Rollback, RollbackProduct
<1>2. ASSUME NEW c \in Clients, Statement(c), ~Commit(c) PROVE UNCHANGED <<cost, headCost>>
  BY <1>1, <1>2 DEF Statement, Advisory, NextProduct, Check, CheckRefused, SupersedeNone,
     Supersede, Resume, Insert, Retry, GiveUp, Report, Read, ReadNone, MarkStatus,
     MarkRefused, Victim, Rollback, RollbackProduct
<1>3. ASSUME NEW c \in Clients, Request(c) PROVE UNCHANGED <<cost, headCost>>
  BY <1>3 DEF Request, StartUpsert, StartMark, StartGroup, StartWith
<1> QED
  BY <1>2, <1>3 DEF Next, Abort, Rollback, LockPeriod, UnlockPeriod, vars

\* A commit that holds no share leaves the ACTUAL rows and the pushed ACTUAL values alone.
LEMMA CommitWithoutActual ==
  ASSUME TypeOK, NEW c \in Clients, Commit(c), ~HasActual(work[c])
  PROVE  UNCHANGED <<ActualRows, ActualHeads>>
<1>1. cost' = CostAfter(work[c]) /\ headCost' = HeadAfter(work[c]) /\ cost \subseteq Row
  BY DEF Commit, TypeOK
<1>2. \A r \in cost : r.type = "ACTUAL" => ~Written(r, work[c])
  BY DEF HasActual, Written, KeyOf
<1>3. ActualRows' = ActualRows
  <2>1. \A r \in cost : \A s : [r EXCEPT !.status = s].type = r.type
    BY <1>1 DEF Row
  <2>2. \A r \in CostAfter(work[c]) : r.type = "ACTUAL" => r \in cost
    <3> SUFFICES ASSUME NEW r \in CostAfter(work[c]), r.type = "ACTUAL" PROVE r \in cost
      OBVIOUS
    <3>1. r \notin work[c].rows
      BY DEF HasActual
    <3>2. ASSUME NEW x \in cost, Written(x, work[c]),
                 r = [x EXCEPT !.status = MarkedAs(x, work[c])]
          PROVE  FALSE
      BY <1>2, <2>1, <3>2
    <3> QED
      BY <3>1, <3>2 DEF CostAfter
  <2>3. \A r \in cost : r.type = "ACTUAL" => r \in CostAfter(work[c])
    BY <1>2 DEF CostAfter
  <2> QED
    BY <1>1, <2>2, <2>3 DEF ActualRows
<1>4. ActualHeads' = ActualHeads
  BY <1>1 DEF ActualHeads, HeadAfter, HasActual
<1> QED
  BY <1>3, <1>4

LEMMA GuardInit == Init => GuardInv
<1> SUFFICES ASSUME Init PROVE GuardInv
  OBVIOUS
<1>1. \A c \in Clients : work[c] = NoWork /\ saved[c] = NoSave /\ pc[c] = "idle"
  BY DEF Init, NoSave
<1>2. \A c \in Clients : GuardedBy(c)
  BY <1>1, NoActual DEF GuardedBy, NoSave
<1> QED
  BY <1>2 DEF Init, GuardInv

\* A locked period's ACTUAL costs do not change, whatever was in flight when it was locked:
\* whoever writes one holds the lock row FOR SHARE, which the lock waits for.
THEOREM LockFreezes == Spec => FrozenWhileLocked
<1>1. TypeInv /\ GuardInv /\ [Next]_vars
        => [lock = "locked" => UNCHANGED <<ActualRows, ActualHeads>>]_vars
  <2> SUFFICES ASSUME TypeInv, GuardInv, [Next]_vars, lock = "locked"
               PROVE  UNCHANGED <<ActualRows, ActualHeads>>
    OBVIOUS
  <2>1. CASE UNCHANGED <<cost, headCost>>
    BY <2>1 DEF ActualRows, ActualHeads
  <2>2. CASE ~UNCHANGED <<cost, headCost>>
    <3>1. PICK c \in Clients : Commit(c)
      BY <2>2, TablesWritten
    <3>2. ~HasActual(work[c])
      BY DEF GuardInv, GuardedBy
    <3> QED
      BY <3>1, <3>2, CommitWithoutActual DEF TypeInv
  <2> QED
    BY <2>1, <2>2
<1> QED
  BY TypeInit, TypeStep, GuardInit, GuardStep, <1>1, PTL DEF Spec, FrozenWhileLocked
-----------------------------------------------------------------------------
(* Versions: the clients that do not move.                                 *)

LEMMA OwnLineOthers ==
  ASSUME LineInv, NEW c \in Clients, NEW d \in Clients \ {c}, OwnOnly(c)
  PROVE  OwnLine(d)'
<1>1. OwnLine(d)
  BY DEF LineInv, LineOf
<1>2. /\ pc'[d] = pc[d] /\ job'[d] = job[d] /\ work'[d] = work[d] /\ saved'[d] = saved[d]
  BY DEF OwnOnly
<1> QED
  BY <1>1, <1>2 DEF OwnLine, PairedAt, KeyAt, ProdOf, TypeOf, Written, KeyOf, DistinctTodo,
     Untouched, SavedUntouched, Paired

\* What c has newly written is nobody else's.
NewApart(c) ==
  /\ \A m \in work'[c].marks \ work[c].marks : Holders(c, m.key) = {}
  /\ \A r \in work'[c].rows \ work[c].rows : \A d \in Clients \ {c} :
       \A s \in work[d].rows : ~SameTuple(r, s)

LEMMA SymmetricTuple == \A r, s : SameTuple(r, s) => SameTuple(s, r)
  BY DEF SameTuple

LEMMA LineOthers ==
  ASSUME LineInv, NEW c \in Clients, NEW d \in Clients \ {c}, OwnOnly(c), cost' = cost,
         NewApart(c)
  PROVE  LineOf(d)'
<1>1. /\ MarksHeld(d) /\ RowsFit(d) /\ SavedFit(d) /\ MarksHeld(c) /\ RowsFit(c)
  BY DEF LineInv, LineOf
<1>2. /\ job'[d] = job[d] /\ work'[d] = work[d] /\ saved'[d] = saved[d]
      /\ \A e \in Clients \ {c} : work'[e] = work[e]
  BY DEF OwnOnly
<1>3. \A p, t : Active(p, t)' = Active(p, t) /\ History(p, t)' = History(p, t)
  BY DEF Active, History
<1>4. MarksHeld(d)'
  <2>1. \A m \in work[d].marks, n \in work'[c].marks : n.key # m.key
    BY <1>1 DEF MarksHeld, NewApart, Holders
  <2> QED
    BY <1>1, <1>2, <2>1 DEF MarksHeld
<1>5. RowsFit(d)'
  <2>1. \A r \in work[d].rows, s \in work'[c].rows : ~SameTuple(r, s)
    BY <1>1, SymmetricTuple DEF RowsFit, NewApart
  <2> QED
    BY <1>1, <1>2, <1>3, <2>1 DEF RowsFit, Written
<1>6. SavedFit(d)'
  BY <1>1, <1>2, <1>3 DEF SavedFit, Written
<1> QED
  BY <1>4, <1>5, <1>6, OwnLineOthers DEF LineOf

-----------------------------------------------------------------------------
(* Versions: what a statement does to its own transaction.                 *)

\* It writes nothing more.
LEMMA TxShrinks ==
  ASSUME LineInv, NEW c \in Clients, OwnOnly(c), cost' = cost,
         work'[c].marks \subseteq work[c].marks, work'[c].rows \subseteq work[c].rows,
         work'[c].marks = {} \/ job'[c].op = job[c].op,
         \A r \in work'[c].rows : \A a \in Active(r.prod, r.type) : Written(a, work'[c]),
         \A r \in saved'[c].work.rows : \A a \in Active(r.prod, r.type) :
           Written(a, saved'[c].work)
  PROVE  MarksHeld(c)' /\ RowsFit(c)' /\ SavedFit(c)' /\ NewApart(c)
<1>1. MarksHeld(c) /\ RowsFit(c)
  BY DEF LineInv, LineOf
<1>2. \A e \in Clients \ {c} : work'[e] = work[e]
  BY DEF OwnOnly
<1>3. \A p, t : Active(p, t)' = Active(p, t) /\ History(p, t)' = History(p, t)
  BY DEF Active, History
<1>4. MarksHeld(c)'
  BY <1>1, <1>2 DEF MarksHeld
<1>5. RowsFit(c)'
  BY <1>1, <1>2, <1>3 DEF RowsFit, Written
<1>6. SavedFit(c)'
  BY <1>3 DEF SavedFit, Written
<1> QED
  BY <1>4, <1>5, <1>6 DEF NewApart

LEMMA TxSame ==
  ASSUME LineInv, NEW c \in Clients, OwnOnly(c), cost' = cost,
         work'[c].marks = work[c].marks, work'[c].rows = work[c].rows,
         saved'[c] = saved[c], job'[c].op = job[c].op
  PROVE  MarksHeld(c)' /\ RowsFit(c)' /\ SavedFit(c)' /\ NewApart(c)
<1>1. RowsFit(c) /\ SavedFit(c)
  BY DEF LineInv, LineOf
<1> QED
  BY <1>1, TxShrinks DEF RowsFit, SavedFit, Written

\* It updates an active row that is free.
LEMMA TxMarks ==
  ASSUME LineInv, NEW c \in Clients, OwnOnly(c), cost' = cost,
         NEW m, work'[c].marks = work[c].marks \cup {m}, work'[c].rows = work[c].rows,
         saved'[c] = saved[c], job'[c].op = job[c].op,
         m.to = MarkTo(job[c].op), Holders(c, m.key) = {},
         \E r \in cost : KeyOf(r) = m.key /\ r.status # "SUPERSEDED"
  PROVE  MarksHeld(c)' /\ RowsFit(c)' /\ SavedFit(c)' /\ NewApart(c)
<1>1. MarksHeld(c) /\ RowsFit(c) /\ SavedFit(c)
  BY DEF LineInv, LineOf
<1>2. \A e \in Clients \ {c} : work'[e] = work[e]
  BY DEF OwnOnly
<1>3. \A p, t : Active(p, t)' = Active(p, t) /\ History(p, t)' = History(p, t)
  BY DEF Active, History
<1>4. MarksHeld(c)'
  BY <1>1, <1>2 DEF MarksHeld, Holders
<1>5. RowsFit(c)'
  BY <1>1, <1>2, <1>3 DEF RowsFit, Written
<1>6. SavedFit(c)'
  BY <1>1, <1>3 DEF SavedFit, Written
<1> QED
  BY <1>4, <1>5, <1>6 DEF NewApart

\* It inserts a row that follows the active one.
LEMMA TxInserts ==
  ASSUME LineInv, NEW c \in Clients, OwnOnly(c), cost' = cost,
         NEW r, work'[c].marks = work[c].marks, work'[c].rows = work[c].rows \cup {r},
         saved'[c] = saved[c], job'[c].op = job[c].op, r.status = "CALCULATED",
         \A a \in Active(r.prod, r.type) : Written(a, work[c]),
         IF History(r.prod, r.type) = {} THEN r.version = 1
         ELSE \E a \in Active(r.prod, r.type) : r.version = a.version + 1,
         \A d \in Clients \ {c} : \A s \in work[d].rows : ~SameTuple(r, s)
  PROVE  MarksHeld(c)' /\ RowsFit(c)' /\ SavedFit(c)' /\ NewApart(c)
<1>1. MarksHeld(c) /\ RowsFit(c) /\ SavedFit(c)
  BY DEF LineInv, LineOf
<1>2. \A e \in Clients \ {c} : work'[e] = work[e]
  BY DEF OwnOnly
<1>3. \A p, t : Active(p, t)' = Active(p, t) /\ History(p, t)' = History(p, t)
  BY DEF Active, History
<1>4. MarksHeld(c)'
  BY <1>1, <1>2 DEF MarksHeld
<1>5. RowsFit(c)'
  BY <1>1, <1>2, <1>3 DEF RowsFit, Written
<1>6. SavedFit(c)'
  BY <1>1, <1>3 DEF SavedFit, Written
<1> QED
  BY <1>4, <1>5, <1>6 DEF NewApart

\* Its request goes on with the same product and type, nothing new written.
LEMMA OwnSame ==
  ASSUME LineInv, NEW c \in Clients,
         work'[c].marks = work[c].marks, work'[c].rows = work[c].rows, saved'[c] = saved[c],
         job'[c].op = job[c].op, job'[c].todo = job[c].todo, job'[c].t = job[c].t,
         pc[c] \notin {"idle", "gaveUp", "insert", "commit"},
         pc'[c] = "insert" => job'[c].seen = 0
  PROVE  OwnLine(c)'
<1>1. OwnLine(c)
  BY DEF LineInv, LineOf
<1>2. PairedAt(c)'
  BY <1>1 DEF OwnLine, PairedAt
<1>3. Untouched(c)'
  BY <1>1 DEF OwnLine, Untouched
<1> QED
  BY <1>1, <1>2, <1>3 DEF OwnLine, DistinctTodo, SavedUntouched, Paired
\* Products still to do are told apart, so the one at work is nowhere else in the list.
LEMMA HeadOnce ==
  ASSUME TypeOK, NEW c \in Clients, DistinctTodo(c), job[c].todo # <<>>,
         NEW i \in DOMAIN job[c].todo, job[c].todo[i] = ProdOf(c)
  PROVE  i = 1
<1>1. job[c].todo \in Seq(Products)
  BY DEF TypeOK, Job
<1>2. 1 \in DOMAIN job[c].todo /\ Head(job[c].todo) = job[c].todo[1]
  BY <1>1
<1> QED
  BY <1>2 DEF DistinctTodo, ProdOf

LEMMA TailTodo ==
  ASSUME NEW s \in Seq(Products), s # <<>>
  PROVE  /\ \A i \in DOMAIN Tail(s) :
              i + 1 \in DOMAIN s /\ Tail(s)[i] = s[i + 1] /\ i + 1 # 1 /\ i \in Nat
<1>1. /\ Tail(s) \in Seq(Products) /\ Len(Tail(s)) = Len(s) - 1
      /\ \A i \in 1..Len(Tail(s)) : Tail(s)[i] = s[i + 1]
  BY HeadTailProperties
<1>2. DOMAIN s = 1..Len(s) /\ DOMAIN Tail(s) = 1..Len(Tail(s)) /\ Len(s) \in Nat
  BY <1>1, LenProperties
<1> QED
  BY <1>1, <1>2

LEMMA DistinctTail ==
  ASSUME TypeOK, NEW c \in Clients, DistinctTodo(c), job[c].todo # <<>>,
         job'[c].todo = Tail(job[c].todo)
  PROVE  DistinctTodo(c)'
<1>1. job[c].todo \in Seq(Products)
  BY DEF TypeOK, Job
<1>2. \A i \in DOMAIN Tail(job[c].todo) :
        /\ i + 1 \in DOMAIN job[c].todo /\ Tail(job[c].todo)[i] = job[c].todo[i + 1]
        /\ i \in Nat
  BY <1>1, TailTodo
<1>3. \A i, j \in DOMAIN Tail(job[c].todo) :
        Tail(job[c].todo)[i] = Tail(job[c].todo)[j] => i = j
  BY <1>2 DEF DistinctTodo
<1> QED
  BY <1>3 DEF DistinctTodo

\* It updates the row of the product and type at work, and stays with them.
LEMMA OwnMarks ==
  ASSUME TypeOK, LineInv, NEW c \in Clients, job[c].todo # <<>>,
         NEW m, work'[c].marks = work[c].marks \cup {m}, work'[c].rows = work[c].rows,
         saved'[c] = saved[c],
         job'[c].op = job[c].op, job'[c].todo = job[c].todo, job'[c].t = job[c].t,
         m.key = KeyAt(c)', pc[c] \in {"supersede", "wait", "mark"},
         pc'[c] \in {"insert", "commit"}, m.to = "SUPERSEDED" => pc'[c] = "insert"
  PROVE  OwnLine(c)'
<1>1. OwnLine(c)
  BY DEF LineInv, LineOf
<1>2. PairedAt(c)'
  BY <1>1 DEF OwnLine, PairedAt
<1>3. KeyAt(c)'.prod = ProdOf(c)
  BY DEF KeyAt, ProdOf
<1>4. \A i \in DOMAIN job[c].todo : job[c].todo[i] = m.key.prod => i = 1
  BY <1>1, <1>3, HeadOnce DEF OwnLine
<1>5. Untouched(c)'
  BY <1>1, <1>4 DEF OwnLine, Untouched
<1>6. DistinctTodo(c)' /\ SavedUntouched(c)'
  BY <1>1 DEF OwnLine, DistinctTodo, SavedUntouched
<1>7. Written(KeyAt(c), work[c])'
  BY <1>3 DEF Written, KeyOf, KeyAt
<1> QED
  BY <1>1, <1>2, <1>5, <1>6, <1>7 DEF OwnLine, Paired

\* It goes on with the next type or product; all it has written of this product is of the
\* types done.
LEMMA OwnAdvances ==
  ASSUME TypeOK, LineInv, NEW c \in Clients, job[c].todo # <<>>, NEW p \in {"supersede", "read"},
         Advance(c, p), saved'[c] = saved[c],
         work[c].marks \subseteq work'[c].marks, work[c].rows \subseteq work'[c].rows,
         work'[c].rows # {} => job[c].op \in {"upsert", "batch"},
         Paired(work[c])',
         \A m \in work'[c].marks, i \in DOMAIN job[c].todo : job[c].todo[i] = m.key.prod =>
           i = 1 /\ \E j \in 1..job[c].t : m.key.type = CalcTypes[j]
  PROVE  OwnLine(c)'
<1>1. OwnLine(c) /\ job[c] \in Job /\ job[c].t \in 1..3 /\ job[c].todo \in Seq(Products)
  BY DEF LineInv, LineOf, TypeOK, Job
<1>2. PairedAt(c)'
  BY DEF PairedAt, Paired
<1>3. saved[c].work.marks \subseteq work'[c].marks /\ saved[c].work.rows \subseteq work'[c].rows
  BY <1>1 DEF OwnLine
<1>4. pc'[c] # "insert" /\ job'[c].op = job[c].op
  BY AdvanceType
<1>5. CASE pc'[c] = p /\ job'[c] = [job[c] EXCEPT !.t = @ + 1] /\ job[c].t < 3
  <2>1. job'[c].todo = job[c].todo /\ job'[c].t = job[c].t + 1
    BY <1>1, <1>5 DEF Job
  <2>2. \A j \in 1..job[c].t : j \in 1..job[c].t + 1 /\ j < job[c].t + 1
    BY <1>1
  <2>3. Untouched(c)'
    BY <2>1, <2>2 DEF Untouched
  <2>4. DistinctTodo(c)' /\ SavedUntouched(c)'
    BY <1>1, <2>1 DEF OwnLine, DistinctTodo, SavedUntouched
  <2> QED
    BY <1>1, <1>2, <1>3, <1>4, <2>3, <2>4 DEF OwnLine, Paired
<1>6. CASE job'[c] = NextProductOf(job[c])
  <2>0. Tail(job[c].todo) \in Seq(Products)
    BY <1>1
  <2>1. job'[c].todo = Tail(job[c].todo)
    BY <1>1, <1>6, <2>0, NextProductOfType
  <2>2. \A i \in DOMAIN job'[c].todo :
          i + 1 \in DOMAIN job[c].todo /\ job'[c].todo[i] = job[c].todo[i + 1] /\ i + 1 # 1
    BY <1>1, <2>1, TailTodo
  <2>3. Untouched(c)'
    BY <2>2 DEF Untouched
  <2>4. SavedUntouched(c)'
    BY <1>1, <2>2 DEF OwnLine, SavedUntouched
  <2>5. DistinctTodo(c)'
    BY <1>1, <2>1, DistinctTail DEF OwnLine
  <2> QED
    BY <1>1, <1>2, <1>3, <1>4, <2>3, <2>4, <2>5 DEF OwnLine, Paired
<1> QED
  BY <1>5, <1>6, AdvanceType

LEMMA RollbackLine ==
  ASSUME TypeInv, LineInv, NEW c \in Clients, Rollback(c)
  PROVE  LineOf(c)' /\ NewApart(c)
<1>1. /\ OwnOnly(c) /\ cost' = cost
      /\ pc'[c] = "idle" /\ job'[c] = NoJob /\ work'[c] = NoWork /\ saved'[c] = NoSave
  BY RollbackOwn DEF TypeInv
<1>2. MarksHeld(c)' /\ RowsFit(c)' /\ SavedFit(c)' /\ NewApart(c)
  BY <1>1, TxShrinks DEF NoWork, NoSave
<1>3. OwnLine(c)'
  BY <1>1 DEF OwnLine, PairedAt, Paired, DistinctTodo, SavedUntouched, NoWork, NoSave, NoJob
<1> QED
  BY <1>2, <1>3 DEF LineOf

LEMMA RollbackProductLine ==
  ASSUME TypeInv, LineInv, NEW c \in Clients, RollbackProduct(c), job[c].todo # <<>>
  PROVE  LineOf(c)' /\ NewApart(c)
<1>0. TypeOK /\ OwnLine(c) /\ SavedFit(c) /\ job[c] \in Job /\ job[c].todo \in Seq(Products)
  BY DEF LineInv, LineOf, TypeInv, TypeOK, Job
<1>1. /\ OwnOnly(c) /\ cost' = cost
      /\ pc'[c] = "next" /\ job'[c] = NextProductOf(job[c])
      /\ work'[c] = saved[c].work /\ saved'[c] = saved[c]
  BY <1>0, RollbackProductOwn
<1>2. Tail(job[c].todo) \in Seq(Products)
  BY <1>0
<1>3. job'[c].op = job[c].op /\ job'[c].todo = Tail(job[c].todo)
  BY <1>0, <1>1, <1>2, NextProductOfType
<1>4. MarksHeld(c)' /\ RowsFit(c)' /\ SavedFit(c)' /\ NewApart(c)
  BY <1>0, <1>1, <1>3, TxShrinks DEF OwnLine, SavedFit
<1>5. \A i \in DOMAIN job'[c].todo :
        i + 1 \in DOMAIN job[c].todo /\ job'[c].todo[i] = job[c].todo[i + 1]
  BY <1>0, <1>3, TailTodo
<1>6. \A m \in saved[c].work.marks, i \in DOMAIN job'[c].todo : job'[c].todo[i] # m.key.prod
  BY <1>0, <1>5 DEF OwnLine, SavedUntouched
<1>7. Untouched(c)' /\ SavedUntouched(c)'
  BY <1>1, <1>6 DEF Untouched, SavedUntouched
<1>8. DistinctTodo(c)'
  BY <1>0, <1>3, DistinctTail DEF OwnLine
<1>9. PairedAt(c)'
  BY <1>0, <1>1 DEF OwnLine, Paired, PairedAt
<1>10. OwnLine(c)'
  <2>1. work'[c].rows # {} => job'[c].op \in {"upsert", "batch"}
    BY <1>0, <1>1, <1>3 DEF OwnLine
  <2>2. /\ saved'[c].work.marks \subseteq work'[c].marks
        /\ saved'[c].work.rows \subseteq work'[c].rows
        /\ Paired(saved'[c].work)
    BY <1>0, <1>1 DEF OwnLine
  <2> QED
    BY <1>1, <1>7, <1>8, <1>9, <2>1, <2>2 DEF OwnLine, Paired
<1> QED
  BY <1>4, <1>10 DEF LineOf

LEMMA FailLine ==
  ASSUME TypeInv, LineInv, NEW c \in Clients, Fail(c), job[c].todo # <<>>
  PROVE  LineOf(c)' /\ NewApart(c)
  BY RollbackLine, RollbackProductLine DEF Fail

\* A transaction that is given up or started again has written nothing.
LEMMA EndTxLine ==
  ASSUME TypeInv, LineInv, NEW c \in Clients, OwnOnly(c), EndTx(c), cost' = cost,
         pc'[c] # "insert", job'[c].todo = job[c].todo
  PROVE  LineOf(c)' /\ NewApart(c)
<1>1. work'[c] = NoWork /\ saved'[c] = NoSave /\ DistinctTodo(c)
  BY DEF EndTx, TypeInv, TypeOK, NoSave, LineInv, LineOf, OwnLine
<1>2. MarksHeld(c)' /\ RowsFit(c)' /\ SavedFit(c)' /\ NewApart(c)
  BY <1>1, TxShrinks DEF NoWork, NoSave
<1>3. OwnLine(c)'
  BY <1>1 DEF OwnLine, PairedAt, Paired, DistinctTodo, SavedUntouched, Untouched, NoWork, NoSave
<1> QED
  BY <1>2, <1>3 DEF LineOf

LEMMA RequestLine ==
  ASSUME TypeInv, LineInv, NEW c \in Clients, Request(c)
  PROVE  LineOf(c)' /\ NewApart(c)
<1>1. ASSUME NEW j, NEW p, StartWith(c, j, p), p # "insert",
             \A i, k \in DOMAIN j.todo : j.todo[i] = j.todo[k] => i = k
      PROVE  LineOf(c)' /\ NewApart(c)
  <2>1. /\ OwnOnly(c) /\ pc[c] = "idle" /\ pc'[c] = p /\ job'[c] = j /\ cost' = cost
        /\ work'[c] = work[c] /\ saved'[c] = saved[c]
    BY <1>1, StartOwn DEF TypeInv
  <2>2. work[c] = NoWork /\ saved[c] = NoSave
    BY <2>1 DEF TypeInv, AtWork, NoSave
  <2>3. MarksHeld(c)' /\ RowsFit(c)' /\ SavedFit(c)' /\ NewApart(c)
    BY <2>1, <2>2, TxShrinks DEF NoWork, NoSave
  <2>4. OwnLine(c)'
    BY <1>1, <2>1, <2>2 DEF OwnLine, PairedAt, Paired, DistinctTodo, SavedUntouched, Untouched,
       NoWork, NoSave
  <2> QED
    BY <2>3, <2>4 DEF LineOf
<1>a. ASSUME NEW q \in Yarns, NEW t \in 1..3, StartUpsert(c, q, t)
      PROVE  LineOf(c)' /\ NewApart(c)
  <2> DEFINE j == [NoJob EXCEPT !.op = "upsert", !.todo = <<q>>, !.t = t,
                                !.base = LastVersion(q, CalcTypes[t])]
             p == FirstPoint(t, "supersede")
  <2>1. StartWith(c, j, p)
    BY <1>a DEF StartUpsert
  <2>2. j.todo = <<q>> /\ p # "insert"
    BY DEF NoJob, FirstPoint
  <2> HIDE DEF j, p
  <2> QED
    BY <1>1, <2>1, <2>2
<1>b. ASSUME NEW r \in cost, NEW t \in 1..3, NEW op \in {"verify", "approve"},
             StartMark(c, r, t, op)
      PROVE  LineOf(c)' /\ NewApart(c)
  <2> DEFINE j == [NoJob EXCEPT !.op = op, !.todo = <<r.prod>>, !.t = t, !.seen = r.version]
             p == FirstPoint(t, "mark")
  <2>1. StartWith(c, j, p)
    BY <1>b DEF StartMark
  <2>2. j.todo = <<r.prod>> /\ p # "insert"
    BY DEF NoJob, FirstPoint
  <2> HIDE DEF j, p
  <2> QED
    BY <1>1, <2>1, <2>2
<1>c. ASSUME NEW op, NEW s, StartGroup(c, op, s), \A i, k \in DOMAIN s : s[i] = s[k] => i = k
      PROVE  LineOf(c)' /\ NewApart(c)
  <2> DEFINE j == [NoJob EXCEPT !.op = op, !.todo = s]
  <2>1. StartWith(c, j, "advisory") /\ j.todo = s
    BY <1>c DEF StartGroup, NoJob
  <2> HIDE DEF j
  <2> QED
    BY <1>1, <1>c, <2>1
<1> QED
  BY <1>a, <1>b, <1>c, ProductsApart DEF Request, PushOrders
LEMMA StatementLine ==
  ASSUME TypeInv, LineInv, NEW c \in Clients, Statement(c), ~Commit(c), OwnOnly(c)
  PROVE  LineOf(c)' /\ NewApart(c) /\ cost' = cost
<1>0. /\ TypeOK /\ AtWork(c) /\ OwnLine(c) /\ MarksHeld(c) /\ RowsFit(c) /\ SavedFit(c)
      /\ job[c] \in Job /\ work[c] \in Work /\ job[c].t \in 1..3
      /\ pc \in [Clients -> Points] /\ job \in [Clients -> Job] /\ work \in [Clients -> Work]
      /\ saved \in [Clients -> [work : Work, share : BOOLEAN]]
  BY DEF TypeInv, TypeOK, LineInv, LineOf, Job
<1>t. pc[c] \in InProduct => job[c].todo # <<>>
  BY <1>0 DEF AtWork
<1>d. ASSUME Fail(c), job[c].todo # <<>> PROVE LineOf(c)' /\ NewApart(c) /\ cost' = cost
  BY <1>d, FailLine DEF Fail, Rollback, RollbackProduct
<1>x. ASSUME Rollback(c) PROVE LineOf(c)' /\ NewApart(c) /\ cost' = cost
  BY <1>x, RollbackLine DEF Rollback
<1>s. ASSUME work'[c].marks = work[c].marks, work'[c].rows = work[c].rows,
             saved'[c] = saved[c], cost' = cost, job'[c].op = job[c].op,
             job'[c].todo = job[c].todo, job'[c].t = job[c].t,
             pc[c] \notin {"idle", "gaveUp", "insert", "commit"},
             pc'[c] = "insert" => job'[c].seen = 0
      PROVE  LineOf(c)' /\ NewApart(c) /\ cost' = cost
  BY <1>s, OwnSame, TxSame DEF LineOf
<1>a. ASSUME Advisory(c) PROVE LineOf(c)' /\ NewApart(c) /\ cost' = cost
  <2>1. /\ pc[c] = "advisory" /\ pc'[c] # "insert"
        /\ UNCHANGED <<cost, job, work, saved>>
    BY <1>0, <1>a DEF Advisory, Goto
  <2> QED
    BY <1>s, <2>1
<1>b. ASSUME NextProduct(c) PROVE LineOf(c)' /\ NewApart(c) /\ cost' = cost
  <2>1. /\ pc[c] = "next" /\ pc'[c] \in {"commit", "read", "check"}
        /\ UNCHANGED <<cost, job, work>>
    BY <1>0, <1>b DEF NextProduct, Goto
  <2>2. saved'[c].work \in {saved[c].work, work[c]}
    <3>1. CASE job[c].todo = <<>>
      BY <1>b, <3>1 DEF NextProduct
    <3>2. CASE job[c].todo # <<>>
      BY <1>0, <1>b, <3>2 DEF NextProduct
    <3> QED
      BY <3>1, <3>2
  <2>3. MarksHeld(c)' /\ RowsFit(c)' /\ SavedFit(c)' /\ NewApart(c)
    BY <1>0, <2>1, <2>2, TxShrinks DEF RowsFit, SavedFit
  <2>4. Paired(work[c]) /\ PairedAt(c)'
    BY <1>0, <2>1 DEF OwnLine, PairedAt, Paired
  <2>5. \A m \in work[c].marks, i \in DOMAIN job[c].todo : job[c].todo[i] # m.key.prod
    <3>1. job[c].t = 1
      BY <1>0, <2>1 DEF AtWork
    <3>2. \A j \in 1..1 : ~(j < 1)
      OBVIOUS
    <3> QED
      BY <1>0, <2>1, <3>1, <3>2 DEF OwnLine, Untouched
  <2>6. Untouched(c)' /\ SavedUntouched(c)' /\ DistinctTodo(c)'
    BY <1>0, <2>1, <2>2, <2>5 DEF Untouched, SavedUntouched, OwnLine, DistinctTodo
  <2>7. OwnLine(c)'
    BY <1>0, <2>1, <2>2, <2>4, <2>6 DEF OwnLine, Paired
  <2> QED
    BY <2>1, <2>3, <2>7 DEF LineOf
<1>c. ASSUME Check(c) PROVE LineOf(c)' /\ NewApart(c) /\ cost' = cost
  <2>1. /\ pc[c] = "check" /\ pc'[c] # "insert"
        /\ UNCHANGED <<cost, job, work, saved>>
    BY <1>0, <1>c DEF Check, Goto, AfterCheck
  <2> QED
    BY <1>s, <2>1
<1>e. ASSUME CheckRefused(c) PROVE LineOf(c)' /\ NewApart(c) /\ cost' = cost
  BY <1>0, <1>e, <1>d, <1>x DEF CheckRefused, AtWork
<1>f. ASSUME SupersedeNone(c) PROVE LineOf(c)' /\ NewApart(c) /\ cost' = cost
  <2>1. pc[c] = "supersede" /\ UNCHANGED <<cost, work, saved>>
    BY <1>f DEF SupersedeNone
  <2>2. /\ job'[c].op = job[c].op /\ job'[c].todo = job[c].todo /\ job'[c].t = job[c].t
        /\ job'[c].seen = 0
    BY <1>0, <1>f DEF SupersedeNone, Job
  <2> QED
    BY <1>s, <2>1, <2>2
<1>g. ASSUME Supersede(c) PROVE LineOf(c)' /\ NewApart(c) /\ cost' = cost
  <2>1. PICK r \in Active(ProdOf(c), TypeOf(c)) :
          /\ job' = [job EXCEPT ![c].seen = r.version]
          /\ IF Holders(c, KeyOf(r)) = {}
             THEN MarkRow(c, KeyOf(r), "SUPERSEDED") /\ Goto(c, "insert")
             ELSE Goto(c, "wait") /\ UNCHANGED work
    BY <1>g DEF Supersede
  <2>2. pc[c] = "supersede" /\ UNCHANGED <<cost, saved>> /\ job[c].todo # <<>>
    BY <1>g, <1>t DEF Supersede, InProduct
  <2>3. /\ r \in cost /\ r \in Row /\ KeyOf(r) \in Key /\ r.status # "SUPERSEDED"
        /\ r.prod = ProdOf(c) /\ r.type = TypeOf(c)
    BY <1>0, KeyOfType DEF Active, History, TypeOK
  <2>4. /\ job'[c].op = job[c].op /\ job'[c].todo = job[c].todo /\ job'[c].t = job[c].t
        /\ job'[c].seen = r.version
    BY <1>0, <2>1 DEF Job
  <2>5. CASE Holders(c, KeyOf(r)) # {}
    <3>1. pc'[c] = "wait" /\ work' = work
      BY <1>0, <2>1, <2>5 DEF Goto
    <3> QED
      BY <1>s, <2>2, <2>4, <3>1
  <2>6. CASE Holders(c, KeyOf(r)) = {}
    <3> DEFINE m == [key |-> KeyOf(r), to |-> "SUPERSEDED"]
    <3>1. pc'[c] = "insert" /\ MarkRow(c, KeyOf(r), "SUPERSEDED")
      BY <1>0, <2>1, <2>6 DEF Goto
    <3>2. work'[c] = [work[c] EXCEPT !.marks = @ \cup {m}]
      BY <1>0, <2>3, <3>1, MarkRowType DEF Statuses
    <3>3. work'[c].marks = work[c].marks \cup {m} /\ work'[c].rows = work[c].rows
      BY <1>0, <3>2 DEF Work
    <3>4. KeyAt(c)' = KeyOf(r)
      BY <2>3, <2>4 DEF KeyAt, KeyOf, ProdOf, TypeOf
    <3>5. m.to = MarkTo(job[c].op)
      BY <1>0, <2>2 DEF AtWork, MarkTo
    <3>6. m.key = KeyOf(r)
      OBVIOUS
    <3> HIDE DEF m
    <3>7. OwnLine(c)'
      BY <1>0, <2>2, <2>4, <3>1, <3>3, <3>4, <3>6, OwnMarks
    <3>8. MarksHeld(c)' /\ RowsFit(c)' /\ SavedFit(c)' /\ NewApart(c)
      BY <2>2, <2>3, <2>4, <2>6, <3>3, <3>5, <3>6, TxMarks
    <3> QED
      BY <2>2, <3>7, <3>8 DEF LineOf
  <2> QED
    BY <2>5, <2>6
<1>h. ASSUME Resume(c) PROVE LineOf(c)' /\ NewApart(c) /\ cost' = cost
  <2>1. /\ pc[c] = "wait" /\ pc'[c] = "insert" /\ UNCHANGED <<cost, saved>>
        /\ Holders(c, KeyAt(c)) = {} /\ job[c].todo # <<>>
    BY <1>0, <1>h, <1>t DEF Resume, Goto, InProduct
  <2>2. CASE \E r \in Active(ProdOf(c), TypeOf(c)) : KeyOf(r) = KeyAt(c)
    <3> DEFINE m == [key |-> KeyAt(c), to |-> "SUPERSEDED"]
    <3>1. MarkRow(c, KeyAt(c), "SUPERSEDED") /\ job' = job
      BY <1>h, <2>2 DEF Resume
    <3>2. work'[c] = [work[c] EXCEPT !.marks = @ \cup {m}]
      BY <1>0, <2>1, <3>1, KeyAtType, MarkRowType DEF Statuses
    <3>3. work'[c].marks = work[c].marks \cup {m} /\ work'[c].rows = work[c].rows
      BY <1>0, <3>2 DEF Work
    <3>4. KeyAt(c)' = KeyAt(c)
      BY <3>1 DEF KeyAt, ProdOf, TypeOf
    <3>5. m.to = MarkTo(job[c].op)
      BY <1>0, <2>1 DEF AtWork, MarkTo
    <3>6. m.key = KeyAt(c)
      OBVIOUS
    <3>9. \E r \in cost : KeyOf(r) = m.key /\ r.status # "SUPERSEDED"
      BY <2>2 DEF Active, History
    <3> HIDE DEF m
    <3>7. OwnLine(c)'
      BY <1>0, <2>1, <3>1, <3>3, <3>4, <3>6, OwnMarks
    <3>8. MarksHeld(c)' /\ RowsFit(c)' /\ SavedFit(c)' /\ NewApart(c)
      BY <2>1, <3>1, <3>3, <3>5, <3>6, <3>9, TxMarks
    <3> QED
      BY <2>1, <3>7, <3>8 DEF LineOf
  <2>3. CASE ~\E r \in Active(ProdOf(c), TypeOf(c)) : KeyOf(r) = KeyAt(c)
    <3>1. work' = work /\ job' = [job EXCEPT ![c].seen = 0]
      BY <1>h, <2>3 DEF Resume
    <3>2. /\ job'[c].op = job[c].op /\ job'[c].todo = job[c].todo /\ job'[c].t = job[c].t
          /\ job'[c].seen = 0
      BY <1>0, <3>1 DEF Job
    <3> QED
      BY <1>s, <2>1, <3>1, <3>2
  <2> QED
    BY <2>2, <2>3
<1>i. ASSUME Insert(c) PROVE LineOf(c)' /\ NewApart(c) /\ cost' = cost
  <2>1. /\ pc[c] = "insert" /\ UNCHANGED <<cost, saved>> /\ job[c].todo # <<>>
        /\ Inserters(c) = {} /\ Rivals(c) = {}
    BY <1>i, <1>t DEF Insert, InProduct
  <2> DEFINE r == NewRow(c)
  <2>2. work'[c].rows = work[c].rows \cup {r} /\ work'[c].marks = work[c].marks
    BY <1>0, <1>i DEF Insert, Work
  <2>3. /\ r.prod = ProdOf(c) /\ r.type = TypeOf(c) /\ r.version = job[c].seen + 1
        /\ r.status = "CALCULATED"
    BY DEF NewRow
  <2>4. \A a \in Active(r.prod, r.type) : Written(a, work[c])
    BY <2>1, <2>3 DEF Rivals
  <2>5. \A d \in Clients \ {c} : \A s \in work[d].rows : ~SameTuple(r, s)
    BY <2>1, <2>3 DEF Inserters, SameTuple
  <2>6. IF History(r.prod, r.type) = {} THEN r.version = 1
        ELSE \E a \in Active(r.prod, r.type) : r.version = a.version + 1
    <3>0. VersionLine /\ ProdOf(c) \in Products /\ TypeOf(c) \in Types
      BY <1>0, <2>1, KeyAtType DEF LineInv
    <3>1. CASE job[c].seen # 0
      <4>1. PICK m \in work[c].marks : m.key = KeyOf(KeyAt(c))
        BY <1>0, <2>1, <3>1 DEF OwnLine, Written
      <4>2. PICK a \in cost : KeyOf(a) = m.key /\ a.status # "SUPERSEDED"
        BY <1>0 DEF MarksHeld
      <4>3. a.prod = ProdOf(c) /\ a.type = TypeOf(c) /\ a.version = job[c].seen
        BY <4>1, <4>2 DEF KeyOf, KeyAt
      <4> QED
        BY <2>3, <4>2, <4>3 DEF Active, History
    <3>2. CASE job[c].seen = 0
      <4>1. Active(ProdOf(c), TypeOf(c)) = {}
        <5> SUFFICES ASSUME NEW a \in Active(ProdOf(c), TypeOf(c)) PROVE FALSE
          OBVIOUS
        <5>1. PICK m \in work[c].marks : m.key = KeyOf(a)
          BY <2>3, <2>4 DEF Written
        <5>2. /\ m.key.prod = ProdOf(c) /\ m.key.type = TypeOf(c)
              /\ m.key.version = a.version /\ a \in Row
          BY <1>0, <5>1 DEF Active, History, KeyOf, TypeOK
        <5>3. 1 \in DOMAIN job[c].todo /\ job[c].todo[1] = ProdOf(c)
          BY <1>0, <2>1 DEF Job, ProdOf
        <5>4. \/ \E j \in 1..job[c].t : j < job[c].t /\ TypeOf(c) = CalcTypes[j]
              \/ m.key = KeyAt(c)
          BY <1>0, <2>1, <5>2, <5>3 DEF OwnLine, Untouched
        <5>5. m.key = KeyAt(c)
          BY <1>0, <5>4 DEF TypeOf, CalcTypes
        <5>6. a.version = 0
          BY <3>2, <5>2, <5>5 DEF KeyAt
        <5>7. \E s \in History(ProdOf(c), TypeOf(c)) : s.version + 1 = 0
          BY <3>0, <5>6 DEF VersionLine, Active
        <5> QED
          BY <1>0, <5>7 DEF History, TypeOK, Row
      <4>2. History(ProdOf(c), TypeOf(c)) = {}
        BY <3>0, <4>1 DEF VersionLine
      <4> QED
        BY <2>3, <3>2, <4>2
    <3> QED
      BY <3>1, <3>2
  <2>7. Paired(work[c])'
    <3>1. \A m \in work[c].marks : m.key = KeyAt(c) => SameTuple(m.key, r)
      BY <2>3 DEF SameTuple, KeyAt
    <3> QED
      BY <1>0, <2>2, <3>1 DEF OwnLine, PairedAt, Paired
  <2>8. job[c].op \in {"upsert", "batch"}
    BY <1>0, <2>1 DEF AtWork
  <2> HIDE DEF r
  <2>9. CASE job[c].op = "batch"
    <3>1. Advance(c, "supersede")
      BY <1>i, <2>9 DEF Insert
    <3>2. \A m \in work'[c].marks, i \in DOMAIN job[c].todo : job[c].todo[i] = m.key.prod =>
            i = 1 /\ \E j \in 1..job[c].t : m.key.type = CalcTypes[j]
      <4>1. \A m \in work[c].marks : m.key = KeyAt(c) => m.key.type = CalcTypes[job[c].t]
        BY DEF KeyAt, TypeOf
      <4>2. job[c].t \in 1..job[c].t
        BY <1>0
      <4> QED
        BY <1>0, <2>1, <2>2, <4>1, <4>2 DEF OwnLine, Untouched
    <3>3. OwnLine(c)'
      BY <1>0, <2>1, <2>2, <2>7, <2>8, <3>1, <3>2, OwnAdvances
    <3>4. job'[c].op = job[c].op
      BY <1>0, <2>1, <3>1, AdvanceType
    <3> QED
      BY <2>1, <2>2, <2>3, <2>4, <2>5, <2>6, <3>3, <3>4, TxInserts DEF LineOf
  <2>10. CASE job[c].op # "batch"
    <3>1. pc'[c] = "commit" /\ job' = job
      BY <1>0, <1>i, <2>10 DEF Insert, Goto
    <3>2. PairedAt(c)'
      BY <2>7 DEF Paired, PairedAt
    <3>3. Untouched(c)' /\ DistinctTodo(c)' /\ SavedUntouched(c)'
      BY <1>0, <2>1, <2>2, <3>1
         DEF OwnLine, Untouched, KeyAt, ProdOf, TypeOf, DistinctTodo, SavedUntouched
    <3>4. OwnLine(c)'
      BY <1>0, <2>1, <2>2, <2>8, <3>1, <3>2, <3>3 DEF OwnLine, Paired
    <3> QED
      BY <2>1, <2>2, <2>3, <2>4, <2>5, <2>6, <3>1, <3>4, TxInserts DEF LineOf
  <2> QED
    BY <2>9, <2>10
<1>j. ASSUME Retry(c) PROVE LineOf(c)' /\ NewApart(c) /\ cost' = cost
  <2>1. EndTx(c) /\ cost' = cost /\ pc'[c] # "insert"
    BY <1>0, <1>j DEF Retry, Goto, FirstPoint
  <2>2. job'[c].todo = job[c].todo
    BY <1>0, <1>j DEF Retry, Job
  <2> QED
    BY <2>1, <2>2, EndTxLine
<1>k. ASSUME GiveUp(c) PROVE LineOf(c)' /\ NewApart(c) /\ cost' = cost
  <2>1. job[c].todo # <<>>
    BY <1>k, <1>t DEF GiveUp, Violation, InProduct
  <2>2. CASE Grouped(c)
    BY <1>k, <2>1, <2>2, RollbackProductLine DEF GiveUp, RollbackProduct
  <2>3. CASE ~Grouped(c)
    <3>1. EndTx(c) /\ cost' = cost /\ job' = job /\ pc'[c] # "insert"
      BY <1>0, <1>k, <2>3 DEF GiveUp, Goto
    <3> QED
      BY <3>1, EndTxLine
  <2> QED
    BY <2>2, <2>3
<1>l. ASSUME Read(c) PROVE LineOf(c)' /\ NewApart(c) /\ cost' = cost
  <2>1. pc[c] = "read" /\ pc'[c] = "mark" /\ UNCHANGED <<cost, saved>>
    BY <1>0, <1>l DEF Read, Goto
  <2>2. /\ job'[c].op = job[c].op /\ job'[c].todo = job[c].todo /\ job'[c].t = job[c].t
        /\ work'[c].marks = work[c].marks /\ work'[c].rows = work[c].rows
    BY <1>0, <1>l DEF Read, Job, Work
  <2> QED
    BY <1>s, <2>1, <2>2
<1>m. ASSUME MarkStatus(c) PROVE LineOf(c)' /\ NewApart(c) /\ cost' = cost
  <2> DEFINE m == [key |-> KeyAt(c), to |-> ToStatus(job[c].op)]
  <2>1. /\ pc[c] = "mark" /\ UNCHANGED <<cost, saved>> /\ job[c].todo # <<>>
        /\ Holders(c, KeyAt(c)) = {} /\ Markable(c)
        /\ MarkRow(c, KeyAt(c), ToStatus(job[c].op))
    BY <1>m, <1>t DEF MarkStatus, InProduct
  <2>2. work'[c] = [work[c] EXCEPT !.marks = @ \cup {m}]
    BY <1>0, <2>1, KeyAtType, MarkRowType DEF Statuses, ToStatus
  <2>3. work'[c].marks = work[c].marks \cup {m} /\ work'[c].rows = work[c].rows
    BY <1>0, <2>2 DEF Work
  <2>4. m.to = MarkTo(job[c].op) /\ m.to # "SUPERSEDED" /\ m.key = KeyAt(c)
    BY <1>0, <2>1 DEF AtWork, MarkTo, ToStatus
  <2>5. \E r \in cost : KeyOf(r) = m.key /\ r.status # "SUPERSEDED"
    BY <2>1 DEF Markable, Active, History
  <2> HIDE DEF m
  <2>6. CASE job[c].op = "push"
    <3>1. Advance(c, "read")
      BY <1>m, <2>6 DEF MarkStatus
    <3>2. Paired(work[c])'
      BY <1>0, <2>1, <2>3, <2>4 DEF OwnLine, PairedAt, Paired
    <3>3. \A n \in work'[c].marks, i \in DOMAIN job[c].todo : job[c].todo[i] = n.key.prod =>
            i = 1 /\ \E j \in 1..job[c].t : n.key.type = CalcTypes[j]
      <4>1. m.key.type = CalcTypes[job[c].t] /\ m.key.prod = ProdOf(c)
        BY <2>4 DEF KeyAt, TypeOf
      <4>2. job[c].t \in 1..job[c].t
        BY <1>0
      <4>3. \A i \in DOMAIN job[c].todo : job[c].todo[i] = m.key.prod => i = 1
        BY <1>0, <2>1, <4>1, HeadOnce DEF OwnLine
      <4> QED
        BY <1>0, <2>1, <2>3, <4>1, <4>2, <4>3 DEF OwnLine, Untouched
    <3>4. OwnLine(c)'
      <4>1. work[c].marks \subseteq work'[c].marks /\ work[c].rows \subseteq work'[c].rows
            /\ (work'[c].rows # {} => job[c].op \in {"upsert", "batch"})
        BY <1>0, <2>3 DEF OwnLine
      <4> QED
        BY <1>0, <2>1, <3>1, <3>2, <3>3, <4>1, OwnAdvances
    <3>5. job'[c].op = job[c].op
      BY <1>0, <2>1, <3>1, AdvanceType
    <3> QED
      BY <2>1, <2>3, <2>4, <2>5, <3>4, <3>5, TxMarks DEF LineOf
  <2>7. CASE job[c].op # "push"
    <3>1. pc'[c] = "commit" /\ job' = job
      BY <1>0, <1>m, <2>7 DEF MarkStatus, Goto
    <3>2. KeyAt(c)' = KeyAt(c)
      BY <3>1 DEF KeyAt, ProdOf, TypeOf
    <3>3. OwnLine(c)'
      BY <1>0, <2>1, <2>3, <2>4, <3>1, <3>2, OwnMarks
    <3> QED
      BY <2>1, <2>3, <2>4, <2>5, <3>1, <3>3, TxMarks DEF LineOf
  <2> QED
    BY <2>6, <2>7
<1>o. ASSUME Report(c) PROVE LineOf(c)' /\ NewApart(c) /\ cost' = cost
  BY <1>o, <1>x DEF Report
<1>p. ASSUME ReadNone(c) PROVE LineOf(c)' /\ NewApart(c) /\ cost' = cost
  BY <1>p, <1>d, <1>t DEF ReadNone, InProduct
<1>q. ASSUME MarkRefused(c) PROVE LineOf(c)' /\ NewApart(c) /\ cost' = cost
  BY <1>q, <1>d, <1>t DEF MarkRefused, InProduct
<1>r. ASSUME Victim(c) PROVE LineOf(c)' /\ NewApart(c) /\ cost' = cost
  <2>1. pc[c] \in {"wait", "mark", "insert"} /\ Fail(c)
    BY <1>r DEF Victim, WaitsFor
  <2> QED
    BY <2>1, <1>d, <1>t DEF InProduct
<1> QED
  BY <1>a, <1>b, <1>c, <1>e, <1>f, <1>g, <1>h, <1>i, <1>j, <1>k, <1>l, <1>m, <1>o,
     <1>p, <1>q, <1>r DEF Statement
-----------------------------------------------------------------------------
(* Versions: the commit.                                                   *)

\* The committed row r once the transaction w, whose marks all say `to', has committed.
NewOf(r, w, to) == IF Written(r, w) THEN [r EXCEPT !.status = to] ELSE r

LEMMA NewOfKeeps ==
  ASSUME NEW r \in Row, NEW w, NEW to
  PROVE  /\ NewOf(r, w, to).prod = r.prod /\ NewOf(r, w, to).type = r.type
         /\ NewOf(r, w, to).version = r.version
         /\ Written(r, w) => NewOf(r, w, to).status = to
         /\ ~Written(r, w) => NewOf(r, w, to) = r
<1>1. [r EXCEPT !.status = to].prod = r.prod /\ [r EXCEPT !.status = to].type = r.type
      /\ [r EXCEPT !.status = to].version = r.version /\ [r EXCEPT !.status = to].status = to
  BY DEF Row
<1> QED
  BY <1>1 DEF NewOf

LEMMA CommitTable ==
  ASSUME TypeInv, LineInv, NEW c \in Clients, Commit(c)
  PROVE  cost' = {NewOf(r, work[c], MarkTo(job[c].op)) : r \in cost} \cup work[c].rows
<1> DEFINE w == work[c]
           to == MarkTo(job[c].op)
<1>1. cost' = CostAfter(w)
  BY DEF Commit
<1>2. \A r \in cost : Written(r, w) => MarkedAs(r, w) = to
  BY DEF LineInv, LineOf, MarksHeld, Written, MarkedAs
<1> HIDE DEF w, to
<1>3. \A r \in cost : NewOf(r, w, to) \in CostAfter(w)
  BY <1>2 DEF CostAfter, NewOf
<1>4. \A x \in CostAfter(w) : x \in w.rows \/ \E r \in cost : x = NewOf(r, w, to)
  BY <1>2 DEF CostAfter, NewOf
<1>5. w.rows \subseteq CostAfter(w)
  BY DEF CostAfter
<1>6. CostAfter(w) = {NewOf(r, w, to) : r \in cost} \cup w.rows
  BY <1>3, <1>4, <1>5
<1> QED
  BY <1>1, <1>6 DEF w, to

\* A row that is updated is active.
LEMMA WrittenActive ==
  ASSUME TypeInv, LineInv, NEW c \in Clients, NEW r \in cost, Written(r, work[c])
  PROVE  r.status # "SUPERSEDED"
<1>1. PICK m \in work[c].marks : m.key = KeyOf(r)
  BY DEF Written
<1>2. PICK s \in cost : KeyOf(s) = m.key /\ s.status # "SUPERSEDED"
  BY <1>1 DEF LineInv, LineOf, MarksHeld
<1>3. s.prod = r.prod /\ s.type = r.type /\ s.version = r.version
  BY <1>1, <1>2 DEF KeyOf
<1>4. r.prod \in Products /\ r.type \in Types
  BY DEF TypeInv, TypeOK, Row
<1>5. r = s
  BY <1>3, <1>4 DEF LineInv, VersionLine, History
<1> QED
  BY <1>2, <1>5

\* Without a new row of the product and type, versions and activity stay.
LEMMA CommitElsewhere ==
  ASSUME TypeInv, LineInv, NEW c \in Clients, Commit(c), NEW p \in Products, NEW t \in Types,
         \A n \in work[c].rows : ~(n.prod = p /\ n.type = t)
  PROVE  /\ History(p, t)' = {NewOf(r, work[c], MarkTo(job[c].op)) : r \in History(p, t)}
         /\ \A r \in History(p, t) :
              (NewOf(r, work[c], MarkTo(job[c].op)).status # "SUPERSEDED")
                <=> (r.status # "SUPERSEDED")
<1> DEFINE w == work[c]
           to == MarkTo(job[c].op)
<1>0. cost \subseteq Row /\ pc[c] = "commit"
  BY DEF TypeInv, TypeOK, Commit
<1>1. cost' = {NewOf(r, w, to) : r \in cost} \cup w.rows
  BY CommitTable
<1>2. \A r \in cost : NewOf(r, w, to).prod = r.prod /\ NewOf(r, w, to).type = r.type
  BY <1>0, NewOfKeeps
<1>3. ASSUME NEW r \in History(p, t), Written(r, w) PROVE to # "SUPERSEDED"
  <2>1. PICK m \in w.marks : m.key = KeyOf(r)
    BY <1>3 DEF Written
  <2>2. m.key.prod = p /\ m.key.type = t /\ m.to = to
    BY <2>1 DEF LineInv, LineOf, MarksHeld, KeyOf, History
  <2>3. m.to = "SUPERSEDED" => \E n \in w.rows : SameTuple(m.key, n)
    BY <1>0, <2>1 DEF LineInv, LineOf, OwnLine, PairedAt
  <2> QED
    BY <2>2, <2>3 DEF SameTuple
<1>4. \A r \in History(p, t) :
        (NewOf(r, w, to).status # "SUPERSEDED") <=> (r.status # "SUPERSEDED")
  <2> SUFFICES ASSUME NEW r \in History(p, t)
               PROVE  (NewOf(r, w, to).status # "SUPERSEDED") <=> (r.status # "SUPERSEDED")
    OBVIOUS
  <2>1. r \in cost /\ r \in Row
    BY <1>0 DEF History
  <2>2. CASE Written(r, w)
    BY <1>3, <2>1, <2>2, WrittenActive, NewOfKeeps
  <2>3. CASE ~Written(r, w)
    BY <2>1, <2>3, NewOfKeeps
  <2> QED
    BY <2>2, <2>3
<1> HIDE DEF w, to
<1>5. History(p, t)' = {NewOf(r, w, to) : r \in History(p, t)}
  <2>1. ASSUME NEW x \in History(p, t)' PROVE \E r \in History(p, t) : x = NewOf(r, w, to)
    <3>1. x \in cost' /\ x.prod = p /\ x.type = t
      BY <2>1 DEF History
    <3>2. x \notin w.rows
      BY <3>1 DEF w
    <3>3. PICK r \in cost : x = NewOf(r, w, to)
      BY <1>1, <3>1, <3>2
    <3> QED
      BY <1>2, <3>1, <3>3 DEF History
  <2>2. ASSUME NEW r \in History(p, t) PROVE NewOf(r, w, to) \in History(p, t)'
    <3>1. r \in cost /\ r.prod = p /\ r.type = t
      BY DEF History
    <3> QED
      BY <1>1, <1>2, <3>1 DEF History
  <2> QED
    BY <2>1, <2>2
<1> QED
  BY <1>4, <1>5 DEF w, to

\* With a new row, it follows all others, which are superseded.
LEMMA CommitNew ==
  ASSUME TypeInv, LineInv, NEW c \in Clients, Commit(c), NEW n \in work[c].rows
  PROVE  /\ n \in History(n.prod, n.type)' /\ n.status = "CALCULATED"
         /\ \A s \in History(n.prod, n.type)' : s = n \/
              \E r \in History(n.prod, n.type) :
                s = NewOf(r, work[c], MarkTo(job[c].op)) /\ s.status = "SUPERSEDED"
         /\ \A r \in History(n.prod, n.type) :
              NewOf(r, work[c], MarkTo(job[c].op)) \in History(n.prod, n.type)'
         /\ \A r \in History(n.prod, n.type) : r.version < n.version
         /\ n.version = 1 \/ \E r \in History(n.prod, n.type) : n.version = r.version + 1
<1> DEFINE w == work[c]
           to == MarkTo(job[c].op)
           p == n.prod
           t == n.type
<1>0. /\ cost \subseteq Row /\ w.rows \subseteq Row /\ p \in Products /\ t \in Types
      /\ VersionLine /\ RowsFit(c)
  BY DEF TypeInv, TypeOK, Work, Row, LineInv, LineOf
<1>1. cost' = {NewOf(r, w, to) : r \in cost} \cup w.rows
  BY CommitTable
<1>2. to = "SUPERSEDED"
  BY DEF LineInv, LineOf, OwnLine, MarkTo
<1>3. n.status = "CALCULATED"
  BY <1>0 DEF RowsFit
<1>4. n \in History(p, t)'
  BY <1>1 DEF History
<1>5. \A r \in History(p, t) : r.version < n.version
  <2> SUFFICES ASSUME NEW r \in History(p, t) PROVE r.version < n.version
    OBVIOUS
  <2>1. PICK a \in Active(p, t) : n.version = a.version + 1
    BY <1>0 DEF RowsFit
  <2>2. r.version <= a.version
    BY <1>0, <2>1 DEF VersionLine
  <2>3. r.version \in Nat /\ a.version \in Nat
    BY <1>0, <2>1 DEF Active, History, Row
  <2> QED
    BY <2>1, <2>2, <2>3
<1>6. n.version = 1 \/ \E r \in History(p, t) : n.version = r.version + 1
  BY <1>0 DEF RowsFit, Active
<1>7. ASSUME NEW s \in w.rows, s.prod = p, s.type = t PROVE s = n
  <2>1. s \in Row /\ n \in Row /\ s.status = n.status
    BY <1>0, <1>3, <1>7 DEF RowsFit
  <2>2. s.version = n.version
    <3>1. CASE History(p, t) = {}
      BY <1>0, <1>7, <3>1 DEF RowsFit
    <3>2. CASE History(p, t) # {}
      <4>1. PICK a \in Active(p, t) : n.version = a.version + 1
        BY <1>0, <3>2 DEF RowsFit
      <4>2. PICK b \in Active(p, t) : s.version = b.version + 1
        BY <1>0, <1>7, <3>2 DEF RowsFit
      <4>3. a.version <= b.version /\ b.version <= a.version
        BY <1>0, <4>1, <4>2 DEF VersionLine, Active
      <4>4. a.version \in Nat /\ b.version \in Nat
        BY <1>0, <4>1, <4>2 DEF Active, History, Row
      <4> QED
        BY <4>1, <4>2, <4>3, <4>4
    <3> QED
      BY <3>1, <3>2
  <2> QED
    BY <1>7, <2>1, <2>2 DEF Row
<1>8. ASSUME NEW r \in History(p, t)
      PROVE  NewOf(r, w, to) \in History(p, t)' /\ NewOf(r, w, to).status = "SUPERSEDED"
  <2>1. r \in cost /\ r \in Row /\ r.prod = p /\ r.type = t
    BY <1>0 DEF History
  <2>2. NewOf(r, w, to) \in History(p, t)'
    BY <1>1, <2>1, NewOfKeeps DEF History
  <2>3. Written(r, w) \/ r.status = "SUPERSEDED"
    BY <1>0, <2>1 DEF RowsFit, Active
  <2> QED
    BY <1>2, <2>1, <2>2, <2>3, NewOfKeeps
<1>9. ASSUME NEW s \in History(p, t)'
      PROVE  s = n \/ \E r \in History(p, t) : s = NewOf(r, w, to) /\ s.status = "SUPERSEDED"
  <2>1. s \in cost' /\ s.prod = p /\ s.type = t
    BY DEF History
  <2>2. CASE s \in w.rows
    BY <1>7, <2>1, <2>2
  <2>3. CASE s \notin w.rows
    <3>1. PICK r \in cost : s = NewOf(r, w, to)
      BY <1>1, <2>1, <2>3
    <3>2. r \in History(p, t)
      BY <1>0, <2>1, <3>1, NewOfKeeps DEF History
    <3> QED
      BY <1>8, <3>1, <3>2
  <2> QED
    BY <2>2, <2>3
<1> QED
  BY <1>3, <1>4, <1>5, <1>6, <1>8, <1>9
LineAt(p, t) ==
  /\ \A r, s \in History(p, t) : r.version = s.version => r = s
  /\ \A r \in History(p, t) :
       r.version = 1 \/ \E s \in History(p, t) : s.version + 1 = r.version
  /\ \A r \in Active(p, t), s \in History(p, t) : s.version <= r.version
  /\ History(p, t) # {} => Active(p, t) # {}

LEMMA CommitLine ==
  ASSUME TypeInv, LineInv, NEW c \in Clients, Commit(c)
  PROVE  VersionLine'
<1> SUFFICES ASSUME NEW p \in Products, NEW t \in Types PROVE LineAt(p, t)'
  BY DEF VersionLine, LineAt
<1> DEFINE w == work[c]
           to == MarkTo(job[c].op)
           New(r) == NewOf(r, w, to)
<1>0. LineAt(p, t) /\ cost \subseteq Row /\ TypeInv'
  BY TypeStep DEF LineInv, VersionLine, LineAt, TypeInv, TypeOK, Next, Statement
<1>1. /\ \A r \in History(p, t) : r \in Row /\ r.version \in Nat
      /\ \A r \in History(p, t)' : r \in Row /\ r.version \in Nat
  BY <1>0 DEF History, Row, TypeInv, TypeOK
<1>2. \A r \in History(p, t) : New(r).version = r.version
  BY <1>1, NewOfKeeps
<1>3. CASE \A n \in w.rows : ~(n.prod = p /\ n.type = t)
  <2>1. /\ History(p, t)' = {New(r) : r \in History(p, t)}
        /\ \A r \in History(p, t) : (New(r).status # "SUPERSEDED") <=> (r.status # "SUPERSEDED")
    BY <1>3, CommitElsewhere
  <2>2. Active(p, t)' = {New(r) : r \in Active(p, t)}
    BY <2>1 DEF Active
  <2> HIDE DEF New
  <2> QED
    BY <1>0, <1>1, <1>2, <2>1, <2>2 DEF LineAt, Active
<1>4. CASE \E n \in w.rows : n.prod = p /\ n.type = t
  <2>1. PICK n \in w.rows : n.prod = p /\ n.type = t
    BY <1>4
  <2>2. /\ n \in History(p, t)' /\ n.status = "CALCULATED"
        /\ \A s \in History(p, t)' : s = n \/
             \E r \in History(p, t) : s = New(r) /\ s.status = "SUPERSEDED"
        /\ \A r \in History(p, t) : New(r) \in History(p, t)'
        /\ \A r \in History(p, t) : r.version < n.version
        /\ n.version = 1 \/ \E r \in History(p, t) : n.version = r.version + 1
    BY <2>1, CommitNew
  <2> HIDE DEF New
  <2>3. Active(p, t)' = {n}
    BY <2>2 DEF Active
  <2>4. \A s \in History(p, t)' : s.version <= n.version /\ (s.version = n.version => s = n)
    BY <1>1, <1>2, <2>2
  <2>5. \A r, s \in History(p, t)' : r.version = s.version => r = s
    <3> SUFFICES ASSUME NEW r \in History(p, t)', NEW s \in History(p, t)',
                        r.version = s.version, r # n, s # n
                 PROVE  r = s
      BY <2>4
    <3>1. PICK x \in History(p, t) : r = New(x)
      BY <2>2
    <3>2. PICK y \in History(p, t) : s = New(y)
      BY <2>2
    <3> QED
      BY <1>0, <1>2, <3>1, <3>2 DEF LineAt
  <2>6. \A r \in History(p, t)' :
          r.version = 1 \/ \E s \in History(p, t)' : s.version + 1 = r.version
    <3> SUFFICES ASSUME NEW r \in History(p, t)', r.version # 1
                 PROVE  \E s \in History(p, t)' : s.version + 1 = r.version
      OBVIOUS
    <3>1. PICK x \in History(p, t) : x.version + 1 = r.version
      <4>1. CASE r = n
        BY <2>2, <4>1
      <4>2. CASE r # n
        <5>1. PICK y \in History(p, t) : r = New(y)
          BY <2>2, <4>2
        <5>2. y.version # 1 /\ y.version = r.version
          BY <1>2, <5>1
        <5> QED
          BY <1>0, <5>2 DEF LineAt
      <4> QED
        BY <4>1, <4>2
    <3> QED
      BY <1>2, <2>2, <3>1
  <2> QED
    BY <2>2, <2>3, <2>4, <2>5, <2>6 DEF LineAt
<1> QED
  BY <1>3, <1>4

\* A commit of c changes nothing on the products and types another client has inserted for.
LEMMA CommitApart ==
  ASSUME TypeInv, LineInv, NEW c \in Clients, Commit(c), NEW d \in Clients \ {c},
         NEW n \in work[d].rows
  PROVE  History(n.prod, n.type)' = History(n.prod, n.type)
         /\ Active(n.prod, n.type)' = Active(n.prod, n.type)
<1> DEFINE p == n.prod
           t == n.type
<1>0. /\ p \in Products /\ t \in Types /\ cost \subseteq Row
      /\ RowsFit(d) /\ MarksHeld(d)
  BY DEF TypeInv, TypeOK, Work, Row, LineInv, LineOf
<1>1. \A x \in work[c].rows : ~(x.prod = p /\ x.type = t)
  BY <1>0 DEF RowsFit, SameTuple
<1>2. \A r \in History(p, t) : ~Written(r, work[c])
  <2> SUFFICES ASSUME NEW r \in History(p, t), Written(r, work[c]) PROVE FALSE
    OBVIOUS
  <2>1. r \in Active(p, t)
    BY WrittenActive DEF Active, History
  <2>2. Written(r, work[d])
    BY <1>0, <2>1 DEF RowsFit
  <2> QED
    BY <1>0, <2>2 DEF MarksHeld, Written
<1>3. \A r \in History(p, t) : NewOf(r, work[c], MarkTo(job[c].op)) = r
  BY <1>2 DEF NewOf
<1>4. History(p, t)' = History(p, t)
  <2>1. History(p, t)' = {NewOf(r, work[c], MarkTo(job[c].op)) : r \in History(p, t)}
    BY <1>0, <1>1, CommitElsewhere
  <2> QED
    BY <1>3, <2>1
<1> QED
  BY <1>4 DEF Active

LEMMA CommitOthers ==
  ASSUME TypeInv, LineInv, NEW c \in Clients, Commit(c), OwnOnly(c), NEW d \in Clients \ {c}
  PROVE  LineOf(d)'
<1>0. /\ MarksHeld(d) /\ RowsFit(d) /\ SavedFit(d) /\ OwnLine(d)
      /\ job'[d] = job[d] /\ work'[d] = work[d] /\ saved'[d] = saved[d]
      /\ \A e \in Clients \ {c} : work'[e] = work[e]
  BY DEF LineInv, LineOf, OwnOnly
<1>1. work'[c] = NoWork
  BY DEF Commit, EndTx, TypeInv, TypeOK
<1>2. MarksHeld(d)'
  <2>1. \A r \in cost : ~Written(r, work[c]) => r \in cost'
    BY DEF Commit, CostAfter
  <2>2. \A m \in work[d].marks, r \in cost : KeyOf(r) = m.key => ~Written(r, work[c])
    BY <1>0 DEF MarksHeld, Written
  <2>3. \A m \in work[d].marks : \E r \in cost' : KeyOf(r) = m.key /\ r.status # "SUPERSEDED"
    BY <1>0, <2>1, <2>2 DEF MarksHeld
  <2>4. \A m \in work[d].marks, e \in Clients \ {d} : \A n \in work'[e].marks : n.key # m.key
    BY <1>0, <1>1 DEF MarksHeld, NoWork
  <2> QED
    BY <1>0, <2>3, <2>4 DEF MarksHeld
<1>3. \A r \in work[d].rows : /\ History(r.prod, r.type)' = History(r.prod, r.type)
                              /\ Active(r.prod, r.type)' = Active(r.prod, r.type)
  BY CommitApart
<1>4. RowsFit(d)'
  BY <1>0, <1>1, <1>3 DEF RowsFit, Written, NoWork
<1>5. SavedFit(d)'
  BY <1>0, <1>3 DEF SavedFit, Written, OwnLine
<1> QED
  BY <1>2, <1>4, <1>5, OwnLineOthers DEF LineOf

LEMMA CommitOwn ==
  ASSUME TypeInv, NEW c \in Clients, Commit(c)
  PROVE  LineOf(c)'
<1>1. pc'[c] = "idle" /\ job'[c] = NoJob /\ work'[c] = NoWork /\ saved'[c] = NoSave
  BY DEF TypeInv, TypeOK, Commit, EndTx, Goto, NoSave
<1> QED
  BY <1>1 DEF LineOf, OwnLine, PairedAt, Paired, DistinctTodo, SavedUntouched, MarksHeld, RowsFit,
     SavedFit, NoWork, NoSave, NoJob

LEMMA LineStep == TypeInv /\ LineInv /\ [Next]_vars => LineInv'
<1> SUFFICES ASSUME TypeInv, LineInv, [Next]_vars PROVE LineInv'
  OBVIOUS
<1>0. TypeOK
  BY DEF TypeInv
<1>1. ASSUME NEW c \in Clients, Commit(c) PROVE LineInv'
  <2>1. OwnOnly(c)
    BY <1>0, <1>1, StatementOwn DEF Statement
  <2> QED
    BY <1>1, <2>1, CommitLine, CommitOthers, CommitOwn DEF LineInv
<1>2. ASSUME NEW c \in Clients, Request(c) \/ Statement(c) \/ Abort(c), ~Commit(c)
      PROVE  LineInv'
  <2>1. OwnOnly(c)
    BY <1>0, <1>2, RequestOwn, StatementOwn, RollbackOwn DEF Abort
  <2>2. ASSUME NEW j, NEW p, StartWith(c, j, p) PROVE cost' = cost
    BY <2>2 DEF StartWith
  <2>3. LineOf(c)' /\ NewApart(c) /\ cost' = cost
    BY <1>2, <2>1, <2>2, RequestLine, StatementLine, RollbackLine
       DEF Abort, Rollback, Request, StartUpsert, StartMark, StartGroup
  <2>4. \A d \in Clients \ {c} : LineOf(d)'
    BY <2>1, <2>3, LineOthers
  <2>5. VersionLine'
    BY <2>3 DEF LineInv, VersionLine, History, Active
  <2> QED
    BY <2>3, <2>4, <2>5 DEF LineInv
<1>3. ASSUME LockPeriod \/ UnlockPeriod \/ UNCHANGED vars PROVE LineInv'
  <2>1. UNCHANGED <<cost, pc, job, work, saved>>
    BY <1>3 DEF LockPeriod, UnlockPeriod, vars
  <2>2. VersionLine'
    BY <2>1 DEF LineInv, VersionLine, History, Active
  <2>3. \A c \in Clients : OwnLine(c)'
    BY <2>1 DEF LineInv, LineOf, OwnLine, PairedAt, KeyAt, ProdOf, TypeOf, Written, KeyOf,
       DistinctTodo, Untouched, SavedUntouched, Paired
  <2>4. \A c \in Clients : MarksHeld(c)' /\ RowsFit(c)' /\ SavedFit(c)'
    BY <2>1 DEF LineInv, LineOf, MarksHeld, RowsFit, SavedFit, Written, Active, History
  <2> QED
    BY <2>2, <2>3, <2>4 DEF LineInv, LineOf
<1> QED
  BY <1>1, <1>2, <1>3 DEF Next

LEMMA LineInit == Init => LineInv
<1> SUFFICES ASSUME Init PROVE LineInv
  OBVIOUS
<1>1. VersionLine
  BY DEF Init, VersionLine, History, Active
<1>2. \A c \in Clients :
        work[c] = NoWork /\ saved[c] = NoSave /\ pc[c] = "idle" /\ job[c] = NoJob
  BY DEF Init, NoSave
<1>3. \A c \in Clients : LineOf(c)
  BY <1>2 DEF LineOf, OwnLine, PairedAt, Paired, DistinctTodo, SavedUntouched, MarksHeld, RowsFit,
     SavedFit, NoWork, NoSave, NoJob
<1> QED
  BY <1>1, <1>3 DEF LineInv

\* Concurrent recomputations leave, for each product and cost type, one line of versions
\* whose last one is active: the row lock of the superseding update, the second look after a
\* wait and the unique index together make the next version unique.
THEOREM VersionsInLine == Spec => []VersionLine
<1>1. LineInv => VersionLine
  BY DEF LineInv
<1> QED
  BY TypeInit, TypeStep, LineInit, LineStep, <1>1, PTL DEF Spec
=============================================================================

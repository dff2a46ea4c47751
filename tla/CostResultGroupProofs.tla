----------------------- MODULE CostResultGroupProofs -----------------------
(***************************************************************************)
(* Proofs about the requests of CostResult that write several rows or try  *)
(* several times: a batch or a push commits all cost types of an MB        *)
(* product or none, the heads show what was approved, and an upsert gives  *)
(* up only after every attempt lost to another commit.                     *)
(***************************************************************************)
EXTENDS CostResultProofs, FiniteSetTheorems

-----------------------------------------------------------------------------
(* What a transaction has done product by product: a batch shows in its    *)
(* rows, a push in its marks.                                              *)

Has(w, op, m, t) == IF op = "batch" THEN \E r \in w.rows : r.prod = m /\ r.type = t
                                    ELSE \E n \in w.marks : n.key.prod = m /\ n.key.type = t

Whole(w, op, m) == \A t, u \in Types : Has(w, op, m, t) <=> Has(w, op, m, u)

\* Of the products still to do nothing is done, of the first one the types before t; the
\* others are done in all types or in none.
Staged(w, op, todo, t) ==
  /\ \A m \in Products : (\A i \in DOMAIN todo : todo[i] # m) => Whole(w, op, m)
  /\ \A i \in DOMAIN todo, j \in 1..3 :
       Has(w, op, todo[i], CalcTypes[j]) <=> (i = 1 /\ j < t)

StagedAt(c) ==
  Grouped(c) =>
    /\ pc[c] = "commit" => job[c].todo = <<>>
    /\ Staged(work[c], job[c].op, job[c].todo, job[c].t)
    /\ Staged(saved[c].work, job[c].op, job[c].todo, 1)

\* Single-row requests are about products that MB Batch does not write.
YarnsOnly(c) ==
  ~Grouped(c) =>
    /\ \A i \in DOMAIN job[c].todo : job[c].todo[i] \in Yarns
    /\ \A n \in work[c].marks : n.key.prod \in Yarns
    /\ \A r \in work[c].rows : r.prod \in Yarns

Keys(w) == {n.key : n \in w.marks}

\* A push approves the row whose value it has just put on the head.
HeadsPaired(c) ==
  IF job[c].op = "push"
  THEN /\ saved[c].work.heads = Keys(saved[c].work)
       /\ work[c].heads = Keys(work[c]) \cup (IF pc[c] = "mark" THEN {KeyAt(c)} ELSE {})
  ELSE work[c].heads = {} /\ saved[c].work.heads = {}

GroupOf(c) == StagedAt(c) /\ YarnsOnly(c) /\ HeadsPaired(c)
GroupInv == \A c \in Clients : GroupOf(c)

LEMMA TypeNames == Types = {CalcTypes[1], CalcTypes[2], CalcTypes[3]}
  BY DEF Types, CalcTypes

LEMMA TypesByNumber ==
  /\ \A t \in Types : \E j \in 1..3 : t = CalcTypes[j]
  /\ \A j \in 1..3 : CalcTypes[j] \in Types
  /\ \A i, j \in 1..3 : CalcTypes[i] = CalcTypes[j] => i = j
  BY DEF Types, CalcTypes

\* The invariant of a client is about its own entries.
LEMMA GroupOthers ==
  ASSUME GroupInv, NEW c \in Clients, NEW d \in Clients \ {c}, OwnOnly(c)
  PROVE  GroupOf(d)'
  BY DEF GroupInv, GroupOf, OwnOnly, StagedAt, YarnsOnly, HeadsPaired, Grouped, KeyAt, ProdOf,
     TypeOf

-----------------------------------------------------------------------------
(* Stages.                                                                 *)

LEMMA StagedNothing ==
  ASSUME NEW op, NEW todo
  PROVE  Staged(NoWork, op, todo, 1)
<1>1. \A m, t : ~Has(NoWork, op, m, t)
  BY DEF Has, NoWork
<1>2. \A j \in 1..3 : ~(j < 1)
  OBVIOUS
<1> QED
  BY <1>1, <1>2 DEF Staged, Whole

\* With the last type done, or nothing, the next product is at the head.
LEMMA StagedNext ==
  ASSUME NEW w, NEW op, NEW todo \in Seq(Products), todo # <<>>, NEW t \in {1, 4},
         Staged(w, op, todo, t)
  PROVE  Staged(w, op, Tail(todo), 1)
<1>1. \A i \in DOMAIN Tail(todo) :
        i + 1 \in DOMAIN todo /\ Tail(todo)[i] = todo[i + 1] /\ i + 1 # 1
  BY TailTodo
<1>2. \A i \in DOMAIN Tail(todo), j \in 1..3 :
        Has(w, op, Tail(todo)[i], CalcTypes[j]) <=> (i = 1 /\ j < 1)
  <2>1. \A j \in 1..3 : ~(j < 1)
    OBVIOUS
  <2> QED
    BY <1>1, <2>1 DEF Staged
<1>3. ASSUME NEW m \in Products, \A i \in DOMAIN Tail(todo) : Tail(todo)[i] # m
      PROVE  Whole(w, op, m)
  <2>1. CASE m = todo[1]
    <3>1. 1 \in DOMAIN todo
      OBVIOUS
    <3>2. \A j \in 1..3 : Has(w, op, m, CalcTypes[j]) <=> j < t
      BY <2>1, <3>1 DEF Staged
    <3>3. \A i, j \in 1..3 : Has(w, op, m, CalcTypes[i]) <=> Has(w, op, m, CalcTypes[j])
      BY <3>2
    <3> QED
      BY <3>3, TypesByNumber DEF Whole
  <2>2. CASE m # todo[1]
    <3>1. ASSUME NEW i \in DOMAIN todo PROVE todo[i] # m
      <4>1. CASE i = 1
        BY <2>2, <4>1
      <4>2. CASE i # 1
        <5>1. i - 1 \in DOMAIN Tail(todo) /\ Tail(todo)[i - 1] = todo[i]
          <6>1. /\ Tail(todo) \in Seq(Products) /\ Len(Tail(todo)) = Len(todo) - 1
                /\ \A k \in 1..Len(Tail(todo)) : Tail(todo)[k] = todo[k + 1]
            BY HeadTailProperties
          <6>2. DOMAIN todo = 1..Len(todo) /\ DOMAIN Tail(todo) = 1..Len(Tail(todo))
                /\ Len(todo) \in Nat
            BY <6>1, LenProperties
          <6>3. i - 1 \in 1..Len(Tail(todo)) /\ (i - 1) + 1 = i
            BY <4>2, <6>1, <6>2
          <6> QED
            BY <6>1, <6>2, <6>3
        <5> QED
          BY <1>3, <5>1
      <4> QED
        BY <4>1, <4>2
    <3> QED
      BY <3>1 DEF Staged
  <2> QED
    BY <2>1, <2>2
<1> QED
  BY <1>2, <1>3 DEF Staged

\* What is done now is the type t of the first product.
LEMMA StagedDone ==
  ASSUME NEW w, NEW v, NEW op, NEW todo \in Seq(Products), todo # <<>>, NEW t \in 1..3,
         Staged(w, op, todo, t),
         \A i \in DOMAIN todo : todo[i] = todo[1] => i = 1,
         \A m, u : Has(v, op, m, u) <=> Has(w, op, m, u) \/ (m = todo[1] /\ u = CalcTypes[t])
  PROVE  Staged(v, op, todo, t + 1)
<1>1. 1 \in DOMAIN todo
  OBVIOUS
<1>2. ASSUME NEW i \in DOMAIN todo, NEW j \in 1..3
      PROVE  Has(v, op, todo[i], CalcTypes[j]) <=> (i = 1 /\ j < t + 1)
  <2>1. Has(w, op, todo[i], CalcTypes[j]) <=> (i = 1 /\ j < t)
    BY DEF Staged
  <2>2. Has(v, op, todo[i], CalcTypes[j]) <=>
          Has(w, op, todo[i], CalcTypes[j]) \/ (i = 1 /\ j = t)
    BY TypesByNumber
  <2>3. j < t + 1 <=> (j < t \/ j = t)
    OBVIOUS
  <2> QED
    BY <2>1, <2>2, <2>3
<1>3. ASSUME NEW m \in Products, \A i \in DOMAIN todo : todo[i] # m
      PROVE  Whole(v, op, m)
  BY <1>1, <1>3 DEF Staged, Whole
<1> QED
  BY <1>2, <1>3 DEF Staged

\* Advance after the type in hand: the next type, or the next product.
LEMMA StagedAdvance ==
  ASSUME TypeInv, LineInv, NEW c \in Clients, job[c].todo # <<>>,
         NEW p \in {"supersede", "read"}, Advance(c, p),
         Staged(work[c], job[c].op, job[c].todo, job[c].t),
         Staged(saved[c].work, job[c].op, job[c].todo, 1),
         \A m, u : Has(work'[c], job[c].op, m, u) <=>
                     Has(work[c], job[c].op, m, u) \/ (m = ProdOf(c) /\ u = TypeOf(c)),
         saved' = saved
  PROVE  StagedAt(c)' /\ job'[c].op = job[c].op /\ pc'[c] \in {p, "next"}
<1> DEFINE op == job[c].op
           todo == job[c].todo
           t == job[c].t
<1>0. /\ TypeOK /\ job[c] \in Job /\ todo \in Seq(Products) /\ t \in 1..3
      /\ DistinctTodo(c)
  BY DEF TypeInv, TypeOK, Job, LineInv, LineOf, OwnLine
<1>1. /\ job'[c].op = op
      /\ \/ pc'[c] = p /\ job'[c] = [job[c] EXCEPT !.t = @ + 1] /\ t < 3
         \/ pc'[c] = "next" /\ job'[c] = NextProductOf(job[c]) /\ job'[c].t = 1
  BY <1>0, AdvanceType
<1>2. todo[1] = ProdOf(c) /\ \A i \in DOMAIN todo : todo[i] = todo[1] => i = 1
  <2>1. todo[1] = ProdOf(c)
    BY <1>0 DEF ProdOf
  <2> QED
    BY <1>0, <2>1, HeadOnce
<1>3. Staged(work'[c], op, todo, t + 1)
  <2> HIDE DEF op, todo, t
  <2>1. \A m, u : Has(work'[c], op, m, u) <=>
                    Has(work[c], op, m, u) \/ (m = todo[1] /\ u = CalcTypes[t])
    BY <1>2 DEF TypeOf, op, t
  <2>2. todo # <<>> /\ Staged(work[c], op, todo, t)
    BY DEF op, todo, t
  <2> QED
    BY <1>0, <1>2, <2>1, <2>2, StagedDone
<1>4. CASE pc'[c] = p /\ job'[c] = [job[c] EXCEPT !.t = @ + 1] /\ t < 3
  <2>1. job'[c].t = t + 1 /\ job'[c].todo = todo
    BY <1>0, <1>4 DEF Job
  <2>2. pc'[c] # "commit"
    BY <1>4
  <2> QED
    BY <1>1, <1>3, <2>1, <2>2 DEF StagedAt
<1>5. CASE pc'[c] = "next" /\ job'[c] = NextProductOf(job[c]) /\ job'[c].t = 1
  <2>0. t = 3
    BY <1>0, <1>5 DEF Advance, Goto, TypeInv, TypeOK
  <2>1. Tail(todo) \in Seq(Products)
    BY <1>0
  <2>2. job'[c].todo = Tail(todo)
    BY <1>0, <1>5, <2>1, NextProductOfType
  <2>3. Staged(work'[c], op, Tail(todo), 1)
    <3>1. Staged(work'[c], op, todo, 4)
      BY <1>3, <2>0
    <3> HIDE DEF op, todo
    <3> QED
      BY <1>0, <3>1, StagedNext DEF todo
  <2>4. Staged(saved'[c].work, op, Tail(todo), 1)
    <3> HIDE DEF op
    <3> QED
      BY <1>0, StagedNext DEF op
  <2> QED
    BY <1>1, <1>5, <2>2, <2>3, <2>4 DEF StagedAt
<1> QED
  BY <1>1, <1>4, <1>5

-----------------------------------------------------------------------------
(* The steps of a client.                                                  *)

\* It writes nothing and stays with its product and type.
LEMMA GroupSame ==
  ASSUME GroupInv, NEW c \in Clients,
         work'[c] = work[c], saved'[c] = saved[c],
         job'[c].op = job[c].op, job'[c].todo = job[c].todo, job'[c].t = job[c].t,
         job[c].op = "push" => pc[c] # "mark" /\ pc'[c] # "mark",
         Grouped(c) /\ pc'[c] = "commit" => job[c].todo = <<>>
  PROVE  GroupOf(c)'
  BY DEF GroupInv, GroupOf, StagedAt, YarnsOnly, HeadsPaired, Grouped

LEMMA HeadOfTodo ==
  ASSUME TypeInv, NEW c \in Clients, job[c].todo # <<>>
  PROVE  1 \in DOMAIN job[c].todo /\ job[c].todo[1] = ProdOf(c)
<1>1. job[c].todo \in Seq(Products)
  BY DEF TypeInv, TypeOK, Job
<1> QED
  BY <1>1 DEF ProdOf

\* It updates a row of its product, for an upsert, a batch or a single status change.
LEMMA GroupMarks ==
  ASSUME TypeInv, GroupInv, NEW c \in Clients, job[c].todo # <<>>, job[c].op # "push",
         NEW m, m.key.prod = ProdOf(c),
         work'[c].marks = work[c].marks \cup {m}, work'[c].rows = work[c].rows,
         work'[c].heads = work[c].heads, saved'[c] = saved[c],
         job'[c].op = job[c].op, job'[c].todo = job[c].todo, job'[c].t = job[c].t,
         Grouped(c) => pc'[c] # "commit"
  PROVE  GroupOf(c)'
<1>1. CASE Grouped(c)
  <2>1. job[c].op = "batch" /\ job'[c].op = "batch"
    BY <1>1 DEF Grouped
  <2>2. \A p, t : Has(work'[c], "batch", p, t) <=> Has(work[c], "batch", p, t)
    BY DEF Has
  <2>3. Staged(work'[c], "batch", job[c].todo, job[c].t)
    BY <1>1, <2>1, <2>2 DEF GroupInv, GroupOf, StagedAt, Staged, Whole
  <2> QED
    BY <1>1, <2>1, <2>3 DEF GroupInv, GroupOf, StagedAt, YarnsOnly, HeadsPaired, Grouped
<1>2. CASE ~Grouped(c)
  <2>1. ProdOf(c) \in Yarns
    BY <1>2, HeadOfTodo DEF GroupInv, GroupOf, YarnsOnly
  <2> QED
    BY <1>2, <2>1 DEF GroupInv, GroupOf, StagedAt, YarnsOnly, HeadsPaired, Grouped
<1> QED
  BY <1>1, <1>2

LEMMA RollbackGroup ==
  ASSUME TypeInv, NEW c \in Clients, Rollback(c)
  PROVE  GroupOf(c)'
<1>1. pc'[c] = "idle" /\ job'[c] = NoJob /\ work'[c] = NoWork /\ saved'[c] = NoSave
  BY RollbackOwn DEF TypeInv
<1> QED
  BY <1>1 DEF GroupOf, StagedAt, YarnsOnly, HeadsPaired, Grouped, NoJob, NoWork, NoSave

LEMMA RollbackProductGroup ==
  ASSUME TypeInv, GroupInv, NEW c \in Clients, RollbackProduct(c), job[c].todo # <<>>,
         Grouped(c)
  PROVE  GroupOf(c)'
<1>0. TypeOK /\ job[c] \in Job /\ job[c].todo \in Seq(Products) /\ GroupOf(c)
  BY DEF TypeInv, TypeOK, Job, GroupInv
<1>1. /\ pc'[c] = "next" /\ job'[c] = NextProductOf(job[c])
      /\ work'[c] = saved[c].work /\ saved'[c] = saved[c]
  BY <1>0, RollbackProductOwn
<1>2. Tail(job[c].todo) \in Seq(Products)
  BY <1>0
<1>3. job'[c].op = job[c].op /\ job'[c].todo = Tail(job[c].todo) /\ job'[c].t = 1
  BY <1>0, <1>1, <1>2, NextProductOfType
<1>4. Staged(saved[c].work, job[c].op, Tail(job[c].todo), 1)
  <2>1. Staged(saved[c].work, job[c].op, job[c].todo, 1)
    BY <1>0 DEF GroupOf, StagedAt
  <2> QED
    BY <1>0, <2>1, StagedNext
<1> QED
  BY <1>0, <1>1, <1>3, <1>4 DEF GroupOf, StagedAt, YarnsOnly, HeadsPaired, Grouped

LEMMA FailGroup ==
  ASSUME TypeInv, GroupInv, NEW c \in Clients, Fail(c), job[c].todo # <<>>
  PROVE  GroupOf(c)'
  BY RollbackGroup, RollbackProductGroup DEF Fail

LEMMA EndTxGroup ==
  ASSUME TypeInv, GroupInv, NEW c \in Clients, EndTx(c), ~Grouped(c),
         job'[c].op = job[c].op, job'[c].todo = job[c].todo
  PROVE  GroupOf(c)'
<1>1. work'[c] = NoWork /\ saved'[c] = NoSave
  BY DEF EndTx, TypeInv, TypeOK, NoSave
<1> QED
  BY <1>1 DEF GroupInv, GroupOf, StagedAt, YarnsOnly, HeadsPaired, Grouped, NoWork, NoSave

LEMMA RequestGroup ==
  ASSUME TypeInv, NEW c \in Clients, Request(c)
  PROVE  GroupOf(c)'
<1>1. ASSUME NEW j, NEW p, StartWith(c, j, p), p \in {"check", "supersede", "mark", "advisory"},
             j.op \in {"batch", "push"} => j.t = 1 /\ p # "mark",
             j.op \notin {"batch", "push"} => \A i \in DOMAIN j.todo : j.todo[i] \in Yarns
      PROVE  GroupOf(c)'
  <2>1. /\ pc[c] = "idle" /\ pc'[c] = p /\ job'[c] = j
        /\ work'[c] = work[c] /\ saved'[c] = saved[c]
    BY <1>1, StartOwn DEF TypeInv
  <2>2. work[c] = NoWork /\ saved[c] = NoSave
    BY <2>1 DEF TypeInv, AtWork, NoSave
  <2>3. StagedAt(c)'
    BY <1>1, <2>1, <2>2, StagedNothing DEF StagedAt, Grouped, NoSave
  <2>4. YarnsOnly(c)'
    BY <1>1, <2>1, <2>2 DEF YarnsOnly, Grouped, NoWork
  <2>5. HeadsPaired(c)'
    BY <1>1, <2>1, <2>2 DEF HeadsPaired, Keys, NoWork, NoSave
  <2> QED
    BY <2>3, <2>4, <2>5 DEF GroupOf
<1>a. ASSUME NEW q \in Yarns, NEW t \in 1..3, StartUpsert(c, q, t) PROVE GroupOf(c)'
  <2> DEFINE j == [NoJob EXCEPT !.op = "upsert", !.todo = <<q>>, !.t = t,
                                !.base = LastVersion(q, CalcTypes[t])]
             p == FirstPoint(t, "supersede")
  <2>1. StartWith(c, j, p)
    BY <1>a DEF StartUpsert
  <2>2. j.op = "upsert" /\ j.todo = <<q>> /\ p \in {"check", "supersede"}
    BY DEF NoJob, FirstPoint
  <2> HIDE DEF j, p
  <2> QED
    BY <1>1, <2>1, <2>2
<1>b. ASSUME NEW r \in cost, NEW t \in 1..3, NEW op \in {"verify", "approve"},
             StartMark(c, r, t, op)
      PROVE  GroupOf(c)'
  <2> DEFINE j == [NoJob EXCEPT !.op = op, !.todo = <<r.prod>>, !.t = t, !.seen = r.version]
             p == FirstPoint(t, "mark")
  <2>1. StartWith(c, j, p) /\ r.prod \in Yarns
    BY <1>b DEF StartMark
  <2>2. j.op = op /\ j.todo = <<r.prod>> /\ p \in {"check", "mark"}
    BY DEF NoJob, FirstPoint
  <2> HIDE DEF j, p
  <2> QED
    BY <1>1, <2>1, <2>2
<1>c. ASSUME NEW op \in {"batch", "push"}, NEW s, StartGroup(c, op, s) PROVE GroupOf(c)'
  <2> DEFINE j == [NoJob EXCEPT !.op = op, !.todo = s]
  <2>1. StartWith(c, j, "advisory") /\ j.op = op /\ j.t = 1
    BY <1>c DEF StartGroup, NoJob
  <2> HIDE DEF j
  <2> QED
    BY <1>1, <2>1
<1> QED
  BY <1>a, <1>b, <1>c DEF Request

LEMMA StatementGroup ==
  ASSUME TypeInv, LineInv, GroupInv, NEW c \in Clients, Statement(c), ~Commit(c)
  PROVE  GroupOf(c)'
<1>0. /\ TypeOK /\ AtWork(c) /\ GroupOf(c)
      /\ job[c] \in Job /\ work[c] \in Work /\ job[c].t \in 1..3
      /\ pc \in [Clients -> Points] /\ job \in [Clients -> Job] /\ work \in [Clients -> Work]
      /\ saved \in [Clients -> [work : Work, share : BOOLEAN]]
  BY DEF TypeInv, TypeOK, GroupInv, Job
<1>t. pc[c] \in InProduct => job[c].todo # <<>>
  BY <1>0 DEF AtWork
<1>d. ASSUME Fail(c), job[c].todo # <<>> PROVE GroupOf(c)'
  BY <1>d, FailGroup
<1>a. ASSUME Advisory(c) PROVE GroupOf(c)'
  <2>1. /\ pc[c] = "advisory" /\ pc'[c] \in {"check", "next"}
        /\ UNCHANGED <<job, work, saved>>
    BY <1>0, <1>a DEF Advisory, Goto
  <2> QED
    BY <2>1, GroupSame
<1>b. ASSUME NextProduct(c) PROVE GroupOf(c)'
  <2>1. pc[c] = "next" /\ UNCHANGED <<job, work>> /\ Grouped(c) /\ job[c].t = 1
    BY <1>0, <1>b DEF NextProduct, AtWork, Grouped
  <2>2. CASE job[c].todo = <<>>
    <3>1. pc'[c] = "commit" /\ saved' = saved
      BY <1>0, <1>b, <2>2 DEF NextProduct, Goto
    <3> QED
      BY <2>1, <2>2, <3>1, GroupSame
  <2>3. CASE job[c].todo # <<>>
    <3>1. pc'[c] \in {"read", "check"} /\ saved'[c].work = work[c]
      BY <1>0, <1>b, <2>3 DEF NextProduct, Goto
    <3> QED
      BY <1>0, <2>1, <3>1 DEF GroupOf, StagedAt, YarnsOnly, HeadsPaired, Grouped
  <2> QED
    BY <2>2, <2>3
<1>c. ASSUME Check(c) PROVE GroupOf(c)'
  <2>1. /\ pc[c] = "check" /\ pc'[c] \in {"next", "supersede", "mark"}
        /\ UNCHANGED <<job, work, saved>> /\ (job[c].op = "push" => pc'[c] = "next")
    BY <1>0, <1>c DEF Check, Goto, AfterCheck
  <2> QED
    BY <2>1, GroupSame
<1>e. ASSUME CheckRefused(c) PROVE GroupOf(c)'
  <2>1. Rollback(c) \/ (Fail(c) /\ job[c].todo # <<>>)
    BY <1>0, <1>e DEF CheckRefused, AtWork
  <2> QED
    BY <1>d, <2>1, RollbackGroup
<1>f. ASSUME SupersedeNone(c) PROVE GroupOf(c)'
  <2>1. /\ pc[c] = "supersede" /\ pc'[c] = "insert" /\ UNCHANGED <<work, saved>>
    BY <1>0, <1>f DEF SupersedeNone, Goto
  <2>2. /\ job'[c].op = job[c].op /\ job'[c].todo = job[c].todo /\ job'[c].t = job[c].t
    BY <1>0, <1>f DEF SupersedeNone, Job
  <2> QED
    BY <2>1, <2>2, GroupSame
<1>g. ASSUME Supersede(c) PROVE GroupOf(c)'
  <2>1. PICK r \in Active(ProdOf(c), TypeOf(c)) :
          /\ job' = [job EXCEPT ![c].seen = r.version]
          /\ IF Holders(c, KeyOf(r)) = {}
             THEN MarkRow(c, KeyOf(r), "SUPERSEDED") /\ Goto(c, "insert")
             ELSE Goto(c, "wait") /\ UNCHANGED work
    BY <1>g DEF Supersede
  <2>2. /\ pc[c] = "supersede" /\ saved' = saved /\ job[c].todo # <<>>
        /\ job[c].op \in {"upsert", "batch"}
    BY <1>0, <1>g, <1>t DEF Supersede, InProduct, AtWork
  <2>3. r \in Row /\ KeyOf(r) \in Key /\ KeyOf(r).prod = ProdOf(c)
    BY <1>0, KeyOfType DEF Active, History, TypeOK, KeyOf
  <2>4. /\ job'[c].op = job[c].op /\ job'[c].todo = job[c].todo /\ job'[c].t = job[c].t
    BY <1>0, <2>1 DEF Job
  <2>5. CASE Holders(c, KeyOf(r)) # {}
    <3>1. pc'[c] = "wait" /\ work' = work
      BY <1>0, <2>1, <2>5 DEF Goto
    <3> QED
      BY <2>2, <2>4, <3>1, GroupSame
  <2>6. CASE Holders(c, KeyOf(r)) = {}
    <3> DEFINE m == [key |-> KeyOf(r), to |-> "SUPERSEDED"]
    <3>1. pc'[c] = "insert" /\ MarkRow(c, KeyOf(r), "SUPERSEDED")
      BY <1>0, <2>1, <2>6 DEF Goto
    <3>2. work'[c] = [work[c] EXCEPT !.marks = @ \cup {m}]
      BY <1>0, <2>3, <3>1, MarkRowType DEF Statuses
    <3>3. /\ work'[c].marks = work[c].marks \cup {m} /\ work'[c].rows = work[c].rows
          /\ work'[c].heads = work[c].heads
      BY <1>0, <3>2 DEF Work
    <3>4. m.key.prod = ProdOf(c)
      BY <2>3
    <3> HIDE DEF m
    <3> QED
      BY <2>2, <2>4, <3>1, <3>3, <3>4, GroupMarks
  <2> QED
    BY <2>5, <2>6
<1>h. ASSUME Resume(c) PROVE GroupOf(c)'
  <2>1. /\ pc[c] = "wait" /\ pc'[c] = "insert" /\ saved' = saved
        /\ job[c].todo # <<>> /\ job[c].op \in {"upsert", "batch"}
    BY <1>0, <1>h, <1>t DEF Resume, Goto, InProduct, AtWork
  <2>2. CASE \E r \in Active(ProdOf(c), TypeOf(c)) : KeyOf(r) = KeyAt(c)
    <3> DEFINE m == [key |-> KeyAt(c), to |-> "SUPERSEDED"]
    <3>1. MarkRow(c, KeyAt(c), "SUPERSEDED") /\ job' = job
      BY <1>h, <2>2 DEF Resume
    <3>2. work'[c] = [work[c] EXCEPT !.marks = @ \cup {m}]
      BY <1>0, <2>1, <3>1, KeyAtType, MarkRowType DEF Statuses
    <3>3. /\ work'[c].marks = work[c].marks \cup {m} /\ work'[c].rows = work[c].rows
          /\ work'[c].heads = work[c].heads
      BY <1>0, <3>2 DEF Work
    <3>4. m.key.prod = ProdOf(c)
      BY DEF KeyAt
    <3> HIDE DEF m
    <3> QED
      BY <2>1, <3>1, <3>3, <3>4, GroupMarks
  <2>3. CASE ~\E r \in Active(ProdOf(c), TypeOf(c)) : KeyOf(r) = KeyAt(c)
    <3>1. work' = work /\ job' = [job EXCEPT ![c].seen = 0]
      BY <1>h, <2>3 DEF Resume
    <3>2. /\ job'[c].op = job[c].op /\ job'[c].todo = job[c].todo /\ job'[c].t = job[c].t
      BY <1>0, <3>1 DEF Job
    <3> QED
      BY <2>1, <3>1, <3>2, GroupSame
  <2> QED
    BY <2>2, <2>3
<1>i. ASSUME Insert(c) PROVE GroupOf(c)'
  <2>1. /\ pc[c] = "insert" /\ saved' = saved /\ job[c].todo # <<>>
        /\ job[c].op \in {"upsert", "batch"}
    BY <1>0, <1>i, <1>t DEF Insert, InProduct, AtWork
  <2> DEFINE r == NewRow(c)
  <2>2. /\ work'[c].rows = work[c].rows \cup {r} /\ work'[c].marks = work[c].marks
        /\ work'[c].heads = work[c].heads
    BY <1>0, <1>i DEF Insert, Work
  <2>3. r.prod = ProdOf(c) /\ r.type = TypeOf(c)
    BY DEF NewRow
  <2> HIDE DEF r
  <2>4. CASE job[c].op = "batch"
    <3>1. Advance(c, "supersede")
      BY <1>i, <2>4 DEF Insert
    <3>2. \A m, u : Has(work'[c], job[c].op, m, u) <=>
                      Has(work[c], job[c].op, m, u) \/ (m = ProdOf(c) /\ u = TypeOf(c))
      BY <2>2, <2>3, <2>4 DEF Has
    <3>3. Grouped(c)
      BY <2>4 DEF Grouped
    <3>4. StagedAt(c)' /\ job'[c].op = job[c].op
      BY <1>0, <2>1, <3>1, <3>2, <3>3, StagedAdvance DEF GroupOf, StagedAt
    <3> QED
      BY <1>0, <2>1, <2>2, <2>4, <3>4 DEF GroupOf, YarnsOnly, HeadsPaired, Grouped
  <2>5. CASE job[c].op = "upsert"
    <3>1. pc'[c] = "commit" /\ job' = job
      BY <1>0, <1>i, <2>5 DEF Insert, Goto
    <3>2. ~Grouped(c) /\ r.prod \in Yarns
      BY <1>0, <2>1, <2>3, <2>5, HeadOfTodo DEF Grouped, GroupOf, YarnsOnly
    <3> QED
      BY <1>0, <2>1, <2>2, <2>5, <3>1, <3>2
         DEF GroupOf, StagedAt, YarnsOnly, HeadsPaired, Grouped
  <2> QED
    BY <2>1, <2>4, <2>5
<1>j. ASSUME Retry(c) PROVE GroupOf(c)'
  <2>1. EndTx(c) /\ ~Grouped(c)
    BY <1>j DEF Retry, Grouped
  <2>2. job'[c].todo = job[c].todo /\ job'[c].op = job[c].op
    BY <1>0, <1>j DEF Retry, Job
  <2> QED
    BY <2>1, <2>2, EndTxGroup
<1>k. ASSUME GiveUp(c) PROVE GroupOf(c)'
  <2>1. job[c].todo # <<>>
    BY <1>k, <1>t DEF GiveUp, Violation, InProduct
  <2>2. CASE Grouped(c)
    BY <1>k, <2>1, <2>2, RollbackProductGroup DEF GiveUp
  <2>3. CASE ~Grouped(c)
    <3>1. EndTx(c) /\ job' = job
      BY <1>k, <2>3 DEF GiveUp
    <3> QED
      BY <2>3, <3>1, EndTxGroup
  <2> QED
    BY <2>2, <2>3
<1>l. ASSUME Read(c) PROVE GroupOf(c)'
  <2>1. pc[c] = "read" /\ pc'[c] = "mark" /\ saved' = saved /\ job[c].op = "push"
    BY <1>0, <1>l DEF Read, Goto, AtWork
  <2>2. PICK r \in Calculated(c) :
          /\ work' = [work EXCEPT ![c].heads = @ \cup {KeyOf(r)}]
          /\ job' = [job EXCEPT ![c].seen = r.version]
    BY <1>l DEF Read
  <2>3. /\ job'[c].op = job[c].op /\ job'[c].todo = job[c].todo /\ job'[c].t = job[c].t
        /\ job'[c].seen = r.version
        /\ work'[c].marks = work[c].marks /\ work'[c].rows = work[c].rows
        /\ work'[c].heads = work[c].heads \cup {KeyOf(r)}
    BY <1>0, <2>2 DEF Job, Work
  <2>4. KeyAt(c)' = KeyOf(r)
    BY <2>3 DEF KeyAt, KeyOf, ProdOf, TypeOf, Calculated, Active, History
  <2>5. \A m, u : Has(work'[c], "push", m, u) <=> Has(work[c], "push", m, u)
    BY <2>3 DEF Has
  <2>6. StagedAt(c)'
    <3>1. Staged(work[c], "push", job[c].todo, job[c].t)
      BY <1>0, <2>1 DEF GroupOf, StagedAt, Grouped
    <3>2. Staged(work'[c], "push", job[c].todo, job[c].t)
      BY <2>5, <3>1 DEF Staged, Whole
    <3> QED
      BY <1>0, <2>1, <2>3, <3>2 DEF GroupOf, StagedAt, Grouped
  <2>7. HeadsPaired(c)'
    <3>1. work[c].heads = Keys(work[c]) /\ saved[c].work.heads = Keys(saved[c].work)
      BY <1>0, <2>1 DEF GroupOf, HeadsPaired
    <3>2. Keys(work'[c]) = Keys(work[c])
      BY <2>3 DEF Keys
    <3> QED
      BY <2>1, <2>3, <2>4, <3>1, <3>2 DEF HeadsPaired
  <2>8. YarnsOnly(c)'
    BY <2>1, <2>3 DEF YarnsOnly, Grouped
  <2> QED
    BY <2>6, <2>7, <2>8 DEF GroupOf
<1>m. ASSUME MarkStatus(c) PROVE GroupOf(c)'
  <2> DEFINE m == [key |-> KeyAt(c), to |-> ToStatus(job[c].op)]
  <2>1. /\ pc[c] = "mark" /\ saved' = saved /\ job[c].todo # <<>>
        /\ MarkRow(c, KeyAt(c), ToStatus(job[c].op))
        /\ job[c].op \in {"verify", "approve", "push"}
    BY <1>0, <1>m, <1>t DEF MarkStatus, InProduct, AtWork
  <2>2. work'[c] = [work[c] EXCEPT !.marks = @ \cup {m}]
    BY <1>0, <2>1, KeyAtType, MarkRowType DEF Statuses, ToStatus
  <2>3. /\ work'[c].marks = work[c].marks \cup {m} /\ work'[c].rows = work[c].rows
        /\ work'[c].heads = work[c].heads
    BY <1>0, <2>2 DEF Work
  <2>4. m.key = KeyAt(c) /\ m.key.prod = ProdOf(c) /\ m.key.type = TypeOf(c)
    BY DEF KeyAt
  <2> HIDE DEF m
  <2>6. CASE job[c].op = "push"
    <3>1. Advance(c, "read") /\ Grouped(c)
      BY <1>m, <2>6 DEF MarkStatus, Grouped
    <3>2. \A p, u : Has(work'[c], job[c].op, p, u) <=>
                      Has(work[c], job[c].op, p, u) \/ (p = ProdOf(c) /\ u = TypeOf(c))
      BY <2>3, <2>4, <2>6 DEF Has
    <3>3. StagedAt(c)' /\ job'[c].op = job[c].op /\ pc'[c] \in {"read", "next"}
      BY <1>0, <2>1, <3>1, <3>2, StagedAdvance DEF GroupOf, StagedAt
    <3>4. Keys(work'[c]) = Keys(work[c]) \cup {KeyAt(c)}
      BY <2>3, <2>4 DEF Keys
    <3>5. HeadsPaired(c)'
      BY <1>0, <2>1, <2>3, <2>6, <3>3, <3>4 DEF GroupOf, HeadsPaired
    <3> QED
      BY <2>6, <3>3, <3>5 DEF GroupOf, YarnsOnly, Grouped
  <2>7. CASE job[c].op # "push"
    <3>1. job' = job /\ ~Grouped(c)
      BY <1>m, <2>1, <2>7 DEF MarkStatus, Grouped
    <3> QED
      BY <2>1, <2>3, <2>4, <2>7, <3>1, GroupMarks
  <2> QED
    BY <2>6, <2>7
<1>o. ASSUME Report(c) PROVE GroupOf(c)'
  BY <1>o, RollbackGroup DEF Report
<1>p. ASSUME ReadNone(c) \/ MarkRefused(c) PROVE GroupOf(c)'
  BY <1>p, <1>d, <1>t DEF ReadNone, MarkRefused, InProduct
<1>r. ASSUME Victim(c) PROVE GroupOf(c)'
  <2>1. pc[c] \in {"wait", "mark", "insert"} /\ Fail(c)
    BY <1>r DEF Victim, WaitsFor
  <2> QED
    BY <2>1, <1>d, <1>t DEF InProduct
<1> QED
  BY <1>a, <1>b, <1>c, <1>e, <1>f, <1>g, <1>h, <1>i, <1>j, <1>k, <1>l, <1>m, <1>o,
     <1>p, <1>r DEF Statement

LEMMA GroupStep == TypeInv /\ LineInv /\ GroupInv /\ [Next]_vars => GroupInv'
<1> SUFFICES ASSUME TypeInv, LineInv, GroupInv, [Next]_vars PROVE GroupInv'
  OBVIOUS
<1>0. TypeOK
  BY DEF TypeInv
<1>1. ASSUME NEW c \in Clients, Request(c) \/ Statement(c) \/ Abort(c) PROVE GroupInv'
  <2>1. OwnOnly(c)
    BY <1>0, <1>1, RequestOwn, StatementOwn, RollbackOwn DEF Abort
  <2>2. CASE Commit(c)
    <3>1. pc'[c] = "idle" /\ job'[c] = NoJob /\ work'[c] = NoWork /\ saved'[c] = NoSave
      BY <2>2 DEF TypeInv, TypeOK, Commit, EndTx, Goto, NoSave
    <3>2. GroupOf(c)'
      BY <3>1 DEF GroupOf, StagedAt, YarnsOnly, HeadsPaired, Grouped, NoJob, NoWork, NoSave
    <3> QED
      BY <2>1, <3>2, GroupOthers DEF GroupInv
  <2>3. CASE ~Commit(c)
    <3>1. GroupOf(c)'
      BY <1>1, <2>3, RequestGroup, StatementGroup, RollbackGroup DEF Abort
    <3> QED
      BY <2>1, <3>1, GroupOthers DEF GroupInv
  <2> QED
    BY <2>2, <2>3
<1>2. ASSUME LockPeriod \/ UnlockPeriod \/ UNCHANGED vars PROVE GroupInv'
  <2>1. UNCHANGED <<pc, job, work, saved>>
    BY <1>2 DEF LockPeriod, UnlockPeriod, vars
  <2> QED
    BY <2>1 DEF GroupInv, GroupOf, StagedAt, YarnsOnly, HeadsPaired, Grouped, KeyAt, ProdOf, TypeOf
<1> QED
  BY <1>1, <1>2 DEF Next

LEMMA GroupInit == Init => GroupInv
<1> SUFFICES ASSUME Init, NEW c \in Clients PROVE GroupOf(c)
  BY DEF GroupInv
<1>1. pc[c] = "idle" /\ job[c] = NoJob /\ work[c] = NoWork /\ saved[c] = NoSave
  BY DEF Init, NoSave
<1> QED
  BY <1>1 DEF GroupOf, StagedAt, YarnsOnly, HeadsPaired, Grouped, NoJob, NoWork, NoSave

-----------------------------------------------------------------------------
(* The commit of a batch or a push, seen by product and type.              *)

LEMMA ActiveUnique ==
  ASSUME TypeInv, LineInv, NEW p \in Products, NEW t \in Types,
         NEW a \in Active(p, t), NEW b \in Active(p, t)
  PROVE  a = b
<1>1. a.version <= b.version /\ b.version <= a.version
  BY DEF LineInv, VersionLine, Active
<1>2. a \in Row /\ b \in Row
  BY DEF Active, History, TypeInv, TypeOK
<1>3. a.version = b.version
  BY <1>1, <1>2 DEF Row
<1> QED
  BY <1>3 DEF LineInv, VersionLine, Active

\* A product and type the transaction has not touched.
LEMMA CommitUntouched ==
  ASSUME TypeInv, LineInv, NEW c \in Clients, Commit(c), NEW p \in Products, NEW t \in Types,
         \A n \in work[c].rows : ~(n.prod = p /\ n.type = t),
         \A m \in work[c].marks : ~(m.key.prod = p /\ m.key.type = t)
  PROVE  History(p, t)' = History(p, t)
<1>1. History(p, t)' = {NewOf(r, work[c], MarkTo(job[c].op)) : r \in History(p, t)}
  BY CommitElsewhere
<1>2. \A r \in History(p, t) : ~Written(r, work[c])
  BY DEF History, Written, KeyOf
<1>3. \A r \in History(p, t) : NewOf(r, work[c], MarkTo(job[c].op)) = r
  BY <1>2 DEF NewOf
<1> QED
  BY <1>1, <1>3

\* A batch has untouched the products and types it has inserted nothing for.
LEMMA BatchUntouched ==
  ASSUME TypeInv, LineInv, NEW c \in Clients, Commit(c), job[c].op = "batch",
         NEW p \in Products, NEW t \in Types, ~Has(work[c], "batch", p, t)
  PROVE  History(p, t)' = History(p, t)
<1>1. \A n \in work[c].rows : ~(n.prod = p /\ n.type = t)
  BY DEF Has
<1>2. ASSUME NEW m \in work[c].marks, m.key.prod = p, m.key.type = t PROVE FALSE
  <2>1. m.to = "SUPERSEDED" /\ pc[c] = "commit"
    BY DEF LineInv, LineOf, MarksHeld, MarkTo, Commit
  <2>2. PICK r \in work[c].rows : SameTuple(m.key, r)
    BY <2>1 DEF LineInv, LineOf, OwnLine, PairedAt
  <2> QED
    BY <1>1, <1>2, <2>2 DEF SameTuple
<1> QED
  BY <1>1, <1>2, CommitUntouched

LEMMA PushUntouched ==
  ASSUME TypeInv, LineInv, NEW c \in Clients, Commit(c), job[c].op = "push",
         NEW p \in Products, NEW t \in Types, ~Has(work[c], "push", p, t)
  PROVE  History(p, t)' = History(p, t)
<1>1. work[c].rows = {}
  BY DEF LineInv, LineOf, OwnLine
<1>2. \A m \in work[c].marks : ~(m.key.prod = p /\ m.key.type = t)
  BY DEF Has
<1> QED
  BY <1>1, <1>2, CommitUntouched

\* Two types with the same line have the same active version.
LEMMA SameActive ==
  ASSUME NEW p \in Products, NEW t \in Types, NEW u \in Types, Line(p, t) = Line(p, u),
         NEW r \in History(p, t)
  PROVE  \E q \in History(p, u) : q.version = r.version /\ q.status = r.status
<1>1. [version |-> r.version, status |-> r.status] \in Line(p, u)
  BY DEF Line
<1>2. PICK q \in History(p, u) : [version |-> r.version, status |-> r.status] =
                                 [version |-> q.version, status |-> q.status]
  BY <1>1 DEF Line
<1> QED
  BY <1>2

\* A batch gives every type of the product the version after its active one.
LEMMA BatchLine ==
  ASSUME TypeInv, LineInv, NEW c \in Clients, Commit(c), NEW p \in Products,
         NEW t \in Types, NEW u \in Types, Line(p, t) = Line(p, u), Line(p, u) = Line(p, t),
         Has(work[c], "batch", p, t), Has(work[c], "batch", p, u)
  PROVE  Line(p, t)' \subseteq Line(p, u)'
<1> DEFINE New(r) == NewOf(r, work[c], MarkTo(job[c].op))
<1>0. cost \subseteq Row /\ VersionLine /\ RowsFit(c)
  BY DEF TypeInv, TypeOK, LineInv, LineOf
<1>1. PICK n \in work[c].rows : n.prod = p /\ n.type = t
  BY DEF Has
<1>2. PICK k \in work[c].rows : k.prod = p /\ k.type = u
  BY DEF Has
<1>3. /\ n.status = "CALCULATED"
      /\ \A s \in History(p, t)' : s = n \/
           \E r \in History(p, t) : s = New(r) /\ s.status = "SUPERSEDED"
  BY <1>1, CommitNew
<1>4. /\ k \in History(p, u)' /\ k.status = "CALCULATED"
      /\ \A r \in History(p, u) : New(r) \in History(p, u)'
      /\ \A s \in History(p, u)' : s = k \/
           \E r \in History(p, u) : s = New(r) /\ s.status = "SUPERSEDED"
      /\ \A r \in History(p, u) : r.version < k.version
  BY <1>2, CommitNew
<1>5. \A r \in cost : New(r).version = r.version
  BY <1>0, NewOfKeeps
<1> HIDE DEF New
<1>6. n.version = k.version
  <2>1. CASE History(p, t) = {}
    <3>1. History(p, u) = {}
      BY <2>1, SameActive
    <3> QED
      BY <1>0, <1>1, <1>2, <2>1, <3>1 DEF RowsFit
  <2>2. CASE History(p, t) # {}
    <3>1. PICK a \in Active(p, t) : n.version = a.version + 1
      BY <1>0, <1>1, <2>2 DEF RowsFit
    <3>2. PICK b \in History(p, u) : b.version = a.version /\ b.status = a.status
      BY <3>1, SameActive DEF Active
    <3>3. b \in Active(p, u)
      BY <3>1, <3>2 DEF Active
    <3>4. PICK d \in Active(p, u) : k.version = d.version + 1
      BY <1>0, <1>2, <3>2 DEF RowsFit
    <3>5. d = b
      BY <3>3, <3>4, ActiveUnique
    <3> QED
      BY <3>1, <3>2, <3>4, <3>5
  <2> QED
    BY <2>1, <2>2
<1>7. ASSUME NEW s \in History(p, t)'
      PROVE  \E q \in History(p, u)' : q.version = s.version /\ q.status = s.status
  <2>1. CASE s = n
    BY <1>3, <1>4, <1>6, <2>1
  <2>2. ASSUME NEW r \in History(p, t), s = New(r), s.status = "SUPERSEDED"
        PROVE  \E q \in History(p, u)' : q.version = s.version /\ q.status = s.status
    <3>1. PICK q \in History(p, u) : q.version = r.version
      BY SameActive
    <3>2. r \in cost /\ q \in cost
      BY DEF History
    <3>3. New(q) \in History(p, u)' /\ New(q).version = s.version
      BY <1>4, <1>5, <2>2, <3>1, <3>2
    <3>4. q.version < k.version /\ q.version \in Nat
      BY <1>0, <1>4, <3>2 DEF Row
    <3>5. New(q) # k
      BY <1>5, <3>2, <3>4
    <3>6. New(q).status = "SUPERSEDED"
      BY <1>4, <3>3, <3>5
    <3> QED
      BY <2>2, <3>3, <3>6
  <2> QED
    BY <1>3, <2>1, <2>2
<1> QED
  BY <1>7 DEF Line

\* A push approves the active version of every type of the product.
LEMMA PushLine ==
  ASSUME TypeInv, LineInv, NEW c \in Clients, Commit(c), job[c].op = "push",
         NEW p \in Products, NEW t \in Types, NEW u \in Types, Line(p, t) = Line(p, u),
         Has(work[c], "push", p, t), Has(work[c], "push", p, u)
  PROVE  Line(p, t)' \subseteq Line(p, u)'
<1> DEFINE w == work[c]
           to == MarkTo(job[c].op)
<1>0. cost \subseteq Row /\ w.rows = {}
  BY DEF TypeInv, TypeOK, LineInv, LineOf, OwnLine
<1>1. /\ History(p, t)' = {NewOf(r, w, to) : r \in History(p, t)}
      /\ History(p, u)' = {NewOf(r, w, to) : r \in History(p, u)}
  BY <1>0, CommitElsewhere
<1>2. ASSUME NEW v \in {t, u}, NEW r \in History(p, v)
      PROVE  Written(r, w) <=> r.status # "SUPERSEDED"
  <2>1. Written(r, w) => r.status # "SUPERSEDED"
    BY WrittenActive DEF History
  <2>2. ASSUME r.status # "SUPERSEDED" PROVE Written(r, w)
    <3>1. PICK m \in w.marks : m.key.prod = p /\ m.key.type = v
      BY DEF Has
    <3>2. PICK a \in cost : KeyOf(a) = m.key /\ a.status # "SUPERSEDED"
      BY <3>1 DEF LineInv, LineOf, MarksHeld
    <3>3. a \in Active(p, v) /\ r \in Active(p, v)
      BY <2>2, <3>1, <3>2 DEF Active, History, KeyOf
    <3>4. a = r
      BY <3>3, ActiveUnique
    <3> QED
      BY <3>1, <3>2, <3>4 DEF Written
  <2> QED
    BY <2>1, <2>2
<1>3. ASSUME NEW s \in History(p, t)'
      PROVE  \E q \in History(p, u)' : q.version = s.version /\ q.status = s.status
  <2>1. PICK r \in History(p, t) : s = NewOf(r, w, to)
    BY <1>1
  <2>2. PICK q \in History(p, u) : q.version = r.version /\ q.status = r.status
    BY SameActive
  <2>3. r \in Row /\ q \in Row
    BY <1>0 DEF History
  <2>4. Written(r, w) <=> Written(q, w)
    BY <1>2, <2>2
  <2>5. /\ NewOf(q, w, to).version = NewOf(r, w, to).version
        /\ NewOf(q, w, to).status = NewOf(r, w, to).status
    <3> HIDE DEF w, to
    <3> QED
      BY <2>2, <2>3, <2>4, NewOfKeeps
  <2> QED
    BY <1>1, <2>1, <2>5
<1> QED
  BY <1>3 DEF Line

\* A commit of another request leaves the MB products alone.
LEMMA SingleElsewhere ==
  ASSUME TypeInv, LineInv, GroupInv, NEW c \in Clients, Commit(c), ~Grouped(c),
         NEW m \in MBs, NEW t \in Types
  PROVE  m \in Products /\ History(m, t)' = History(m, t)
<1>1. m \in Products /\ m \notin Yarns
  BY ProductsApart DEF Products
<1>2. /\ \A n \in work[c].rows : n.prod # m
      /\ \A n \in work[c].marks : n.key.prod # m
  BY <1>1 DEF GroupInv, GroupOf, YarnsOnly
<1> QED
  BY <1>1, <1>2, CommitUntouched

LEMMA CommitInStep ==
  ASSUME TypeInv, LineInv, GroupInv, TypesInStep, NEW c \in Clients, Commit(c)
  PROVE  TypesInStep'
<1> SUFFICES ASSUME NEW m \in MBs, NEW t \in Types, NEW u \in Types
             PROVE  Line(m, t)' \subseteq Line(m, u)'
  BY DEF TypesInStep
<1>1. m \in Products /\ Line(m, t) = Line(m, u)
  BY DEF Products, TypesInStep
<1>2. ASSUME History(m, t)' = History(m, t), History(m, u)' = History(m, u)
      PROVE  Line(m, t)' = Line(m, u)'
  BY <1>1, <1>2 DEF Line
<1>3. CASE ~Grouped(c)
  BY <1>2, <1>3, SingleElsewhere
<1>4. CASE Grouped(c)
  <2>1. job[c].todo = <<>> /\ Staged(work[c], job[c].op, job[c].todo, job[c].t)
    BY <1>4 DEF GroupInv, GroupOf, StagedAt, Commit
  <2>2. Whole(work[c], job[c].op, m)
    BY <1>1, <2>1 DEF Staged
  <2>3. CASE Has(work[c], job[c].op, m, t)
    <3>1. Has(work[c], job[c].op, m, u)
      BY <2>2, <2>3 DEF Whole
    <3> QED
      BY <1>1, <1>4, <2>3, <3>1, BatchLine, PushLine DEF Grouped
  <2>4. CASE ~Has(work[c], job[c].op, m, t)
    <3>1. ~Has(work[c], job[c].op, m, u)
      BY <2>2, <2>4 DEF Whole
    <3> QED
      BY <1>1, <1>2, <1>4, <2>4, <3>1, BatchUntouched, PushUntouched DEF Grouped
  <2> QED
    BY <2>3, <2>4
<1> QED
  BY <1>3, <1>4

LEMMA InStepStep ==
  TypeInv /\ LineInv /\ GroupInv /\ TypesInStep /\ [Next]_vars => TypesInStep'
<1> SUFFICES ASSUME TypeInv, LineInv, GroupInv, TypesInStep, [Next]_vars PROVE TypesInStep'
  OBVIOUS
<1>1. CASE cost' = cost
  BY <1>1 DEF TypesInStep, Line, History
<1>2. CASE cost' # cost
  <2>1. PICK c \in Clients : Commit(c)
    BY <1>2, TablesWritten
  <2> QED
    BY <2>1, CommitInStep
<1> QED
  BY <1>1, <1>2

\* Whatever batches, pushes and single requests overlap, the three cost types of an MB
\* product have the same versions in the same statuses in every committed state.
THEOREM TypesAlwaysInStep == Spec => []TypesInStep
<1>1. Init => TypesInStep
  BY DEF Init, TypesInStep, Line, History
<1> QED
  BY TypeInit, TypeStep, LineInit, LineStep, GroupInit, GroupStep, <1>1, InStepStep,
     PTL DEF Spec

-----------------------------------------------------------------------------
(* The heads.                                                              *)

\* The heads' values and the approved rows, by row and by head instead of by type.
HeadsInv ==
  /\ \A h \in headCost : h.prod \in MBs =>
       \E r \in cost : KeyOf(r) = h /\ r.status \in {"APPROVED", "SUPERSEDED"}
  /\ \A r \in cost : r.prod \in MBs /\ r.status = "APPROVED" => KeyOf(r) \in headCost
  /\ \A g, h \in headCost : SameTuple(g, h) => g = h

LEMMA HeadsShown == TypeInv /\ HeadsInv => HeadShowsApproved
<1> SUFFICES ASSUME TypeInv, HeadsInv, NEW m \in MBs, NEW t \in Types
             PROVE  /\ \A h \in headCost : h.prod = m /\ h.type = t =>
                         \E r \in History(m, t) :
                            KeyOf(r) = h /\ r.status \in {"APPROVED", "SUPERSEDED"}
                    /\ \A r \in History(m, t) : r.status = "APPROVED" => KeyOf(r) \in headCost
                    /\ Cardinality({h \in headCost : h.prod = m /\ h.type = t}) <= 1
  BY DEF HeadShowsApproved
<1> DEFINE S == {h \in headCost : h.prod = m /\ h.type = t}
<1>1. ASSUME NEW h \in headCost, h.prod = m, h.type = t
      PROVE  \E r \in History(m, t) : KeyOf(r) = h /\ r.status \in {"APPROVED", "SUPERSEDED"}
  <2>1. PICK r \in cost : KeyOf(r) = h /\ r.status \in {"APPROVED", "SUPERSEDED"}
    BY <1>1 DEF HeadsInv
  <2>2. r.prod = h.prod /\ r.type = h.type
    BY <2>1 DEF KeyOf
  <2> QED
    BY <1>1, <2>1, <2>2 DEF History
<1>2. \A g, h \in S : g = h
  BY DEF HeadsInv, SameTuple
<1>3. Cardinality(S) <= 1
  <2>1. CASE S = {}
    <3> HIDE DEF S
    <3>1. Cardinality(S) = 0
      BY <2>1, FS_EmptySet
    <3> QED
      BY <3>1
  <2>2. CASE S # {}
    <3>1. PICK h \in S : S = {h}
      BY <1>2, <2>2
    <3> HIDE DEF S
    <3>2. Cardinality(S) = 1
      BY <3>1, FS_Singleton
    <3> QED
      BY <3>2
  <2> QED
    BY <2>1, <2>2
<1> QED
  BY <1>1, <1>3 DEF HeadsInv, History

\* A committed row after the commit, and where it came from.
LEMMA CommitRows ==
  ASSUME TypeInv, LineInv, NEW c \in Clients, Commit(c)
  PROVE  /\ \A x \in cost :
              \E r \in cost' : KeyOf(r) = KeyOf(x) /\ r.prod = x.prod /\
                r.status = IF Written(x, work[c]) THEN MarkTo(job[c].op) ELSE x.status
         /\ \A r \in cost' : r \in work[c].rows \/
              \E x \in cost : KeyOf(r) = KeyOf(x) /\ r.prod = x.prod /\
                r.status = IF Written(x, work[c]) THEN MarkTo(job[c].op) ELSE x.status
<1> DEFINE w == work[c]
           to == MarkTo(job[c].op)
<1>1. cost' = {NewOf(x, w, to) : x \in cost} \cup w.rows
  BY CommitTable
<1>2. cost \subseteq Row
  BY DEF TypeInv, TypeOK
<1> HIDE DEF w, to
<1>3. \A x \in cost : /\ KeyOf(NewOf(x, w, to)) = KeyOf(x) /\ NewOf(x, w, to).prod = x.prod
                      /\ NewOf(x, w, to).status = IF Written(x, w) THEN to ELSE x.status
  BY <1>2, NewOfKeeps DEF KeyOf
<1> QED
  BY <1>1, <1>3 DEF w, to

\* The only requests that approve an MB row are pushes, the only ones that write a head.
LEMMA CommitNoPush ==
  ASSUME TypeInv, LineInv, GroupInv, HeadsInv, NEW c \in Clients, Commit(c),
         job[c].op # "push"
  PROVE  HeadsInv'
<1>0. HeadsPaired(c) /\ YarnsOnly(c) /\ RowsFit(c) /\ Yarns \cap MBs = {}
  BY ProductsApart DEF GroupInv, GroupOf, LineInv, LineOf
<1>1. headCost' = headCost
  <2>1. work[c].heads = {}
    BY <1>0 DEF HeadsPaired
  <2> QED
    BY <2>1 DEF Commit, HeadAfter
<1>2. ASSUME NEW x \in cost, x.prod \in MBs, Written(x, work[c])
      PROVE  MarkTo(job[c].op) = "SUPERSEDED"
  <2>1. ~(x.prod \in Yarns)
    BY <1>0, <1>2
  <2>2. PICK n \in work[c].marks : n.key.prod = x.prod
    BY <1>2 DEF Written, KeyOf
  <2>3. Grouped(c)
    BY <1>0, <2>1, <2>2 DEF YarnsOnly
  <2> QED
    BY <2>3 DEF Grouped, MarkTo
<1>3. ASSUME NEW h \in headCost', h.prod \in MBs
      PROVE  \E r \in cost' : KeyOf(r) = h /\ r.status \in {"APPROVED", "SUPERSEDED"}
  <2>1. PICK x \in cost : KeyOf(x) = h /\ x.status \in {"APPROVED", "SUPERSEDED"}
    BY <1>1, <1>3 DEF HeadsInv
  <2>2. x.prod \in MBs
    BY <1>3, <2>1 DEF KeyOf
  <2> QED
    BY <1>2, <2>1, <2>2, CommitRows
<1>4. ASSUME NEW r \in cost', r.prod \in MBs, r.status = "APPROVED"
      PROVE  KeyOf(r) \in headCost'
  <2>1. r \notin work[c].rows
    BY <1>0, <1>4 DEF RowsFit
  <2>2. PICK x \in cost : KeyOf(r) = KeyOf(x) /\ r.prod = x.prod /\
                r.status = IF Written(x, work[c]) THEN MarkTo(job[c].op) ELSE x.status
    BY <2>1, CommitRows
  <2>3. x.status = "APPROVED"
    BY <1>2, <1>4, <2>2
  <2> QED
    BY <1>1, <1>4, <2>2, <2>3 DEF HeadsInv
<1> QED
  BY <1>1, <1>3, <1>4 DEF HeadsInv

LEMMA CommitPush ==
  ASSUME TypeInv, LineInv, GroupInv, HeadsInv, NEW c \in Clients, Commit(c),
         job[c].op = "push"
  PROVE  HeadsInv'
<1> DEFINE w == work[c]
<1>0. /\ w.heads = Keys(w) /\ w.rows = {} /\ MarksHeld(c) /\ MarkTo(job[c].op) = "APPROVED"
      /\ cost \subseteq Row
  BY DEF GroupInv, GroupOf, HeadsPaired, Commit, LineInv, LineOf, OwnLine, MarkTo, TypeInv, TypeOK
<1>1. headCost' = {h \in headCost : \A n \in w.heads : n.prod # h.prod \/ n.type # h.type}
                    \cup w.heads
  BY DEF Commit, HeadAfter
<1> HIDE DEF w
<1>2. ASSUME NEW n \in w.heads
      PROVE  \E x \in cost : KeyOf(x) = n /\ x.status # "SUPERSEDED" /\ Written(x, w)
  BY <1>0 DEF Keys, MarksHeld, Written, w
<1>3. ASSUME NEW n \in w.heads, NEW x \in cost, x.status # "SUPERSEDED",
             n.prod = x.prod, n.type = x.type
      PROVE  KeyOf(x) = n
  <2>1. PICK y \in cost : KeyOf(y) = n /\ y.status # "SUPERSEDED"
    BY <1>2
  <2>2. y \in Active(x.prod, x.type) /\ x \in Active(x.prod, x.type)
    BY <1>3, <2>1 DEF Active, History, KeyOf
  <2>3. x.prod \in Products /\ x.type \in Types
    BY <1>0 DEF Row
  <2> QED
    BY <2>1, <2>2, <2>3, ActiveUnique
<1>4. ASSUME NEW h \in headCost', h.prod \in MBs
      PROVE  \E r \in cost' : KeyOf(r) = h /\ r.status \in {"APPROVED", "SUPERSEDED"}
  <2>1. PICK x \in cost : KeyOf(x) = h /\ (Written(x, w) \/ x.status \in {"APPROVED", "SUPERSEDED"})
    BY <1>1, <1>2, <1>4 DEF HeadsInv
  <2> QED
    BY <1>0, <2>1, CommitRows DEF w
<1>5. ASSUME NEW r \in cost', r.prod \in MBs, r.status = "APPROVED"
      PROVE  KeyOf(r) \in headCost'
  <2>1. PICK x \in cost : KeyOf(r) = KeyOf(x) /\ r.prod = x.prod /\
                r.status = IF Written(x, w) THEN "APPROVED" ELSE x.status
    BY <1>0, CommitRows DEF w
  <2>2. CASE Written(x, w)
    <3>1. KeyOf(x) \in w.heads
      BY <1>0, <2>2 DEF Written, Keys
    <3> QED
      BY <1>1, <2>1, <3>1
  <2>3. CASE ~Written(x, w)
    <3>1. x.status = "APPROVED" /\ KeyOf(x) \in headCost
      BY <1>5, <2>1, <2>3 DEF HeadsInv
    <3>2. ASSUME NEW n \in w.heads, n.prod = KeyOf(x).prod, n.type = KeyOf(x).type
          PROVE  n = KeyOf(x)
      BY <1>3, <3>1, <3>2 DEF KeyOf
    <3> QED
      BY <1>1, <2>1, <3>1, <3>2
  <2> QED
    BY <2>2, <2>3
<1>6. ASSUME NEW g \in headCost', NEW h \in headCost', SameTuple(g, h) PROVE g = h
  <2>1. CASE g \in w.heads /\ h \in w.heads
    <3>1. PICK x \in cost : KeyOf(x) = g /\ x.status # "SUPERSEDED"
      BY <1>2, <2>1
    <3>2. h.prod = x.prod /\ h.type = x.type
      BY <1>6, <3>1 DEF SameTuple, KeyOf
    <3> QED
      BY <1>3, <2>1, <3>1, <3>2
  <2>2. CASE g \notin w.heads /\ h \notin w.heads
    BY <1>1, <1>6, <2>2 DEF HeadsInv
  <2>3. CASE (g \in w.heads /\ h \notin w.heads) \/ (g \notin w.heads /\ h \in w.heads)
    BY <1>1, <1>6, <2>3 DEF SameTuple
  <2> QED
    BY <2>1, <2>2, <2>3
<1> QED
  BY <1>4, <1>5, <1>6 DEF HeadsInv

LEMMA HeadsStep == TypeInv /\ LineInv /\ GroupInv /\ HeadsInv /\ [Next]_vars => HeadsInv'
<1> SUFFICES ASSUME TypeInv, LineInv, GroupInv, HeadsInv, [Next]_vars PROVE HeadsInv'
  OBVIOUS
<1>1. CASE UNCHANGED <<cost, headCost>>
  BY <1>1 DEF HeadsInv
<1>2. CASE ~UNCHANGED <<cost, headCost>>
  <2>1. PICK c \in Clients : Commit(c)
    BY <1>2, TablesWritten
  <2> QED
    BY <2>1, CommitNoPush, CommitPush
<1> QED
  BY <1>1, <1>2

\* A head shows, for each cost type, one version at most, which was approved; an approved
\* version that is still active is the one its head shows.
THEOREM HeadsAlwaysShowApproved == Spec => []HeadShowsApproved
<1>1. Init => HeadsInv
  BY DEF Init, HeadsInv
<1> QED
  BY TypeInit, TypeStep, LineInit, LineStep, GroupInit, GroupStep, <1>1, HeadsStep, HeadsShown,
     PTL DEF Spec

-----------------------------------------------------------------------------
(* The attempts of an upsert.                                              *)

\* The product and type have got to version n.
Reached(p, t, n) == n = 0 \/ \E r \in History(p, t) : r.version >= n

Target(c) == job[c].base + job[c].attempt

\* Before its attempt k an upsert has seen k - 1 versions more than at its start; an
\* attempt that found no row to supersede is the first one ever or is behind already.
AttemptsOf(c) ==
  /\ job[c].op = "upsert" /\ pc[c] \in {"check", "supersede", "wait", "insert"} =>
       Reached(ProdOf(c), TypeOf(c), Target(c) - 1)
  /\ job[c].op = "upsert" /\ pc[c] = "wait" =>
       /\ job[c].seen >= Target(c) - 1
       /\ \E r \in History(ProdOf(c), TypeOf(c)) : r.version = job[c].seen
  /\ job[c].op = "upsert" /\ pc[c] = "insert" /\ job[c].seen = 0 =>
       Target(c) = 1 \/ Reached(ProdOf(c), TypeOf(c), Target(c))
  /\ pc[c] = "gaveUp" =>
       job[c].todo # <<>> /\ Reached(ProdOf(c), TypeOf(c), job[c].base + MaxAttempts)
AttemptsInv == \A c \in Clients : AttemptsOf(c)

LEMMA VersionPositive ==
  ASSUME TypeInv, LineInv, NEW p \in Products, NEW t \in Types
  PROVE  \A r \in History(p, t) : r.version \in Nat /\ r.version >= 1
<1>1. \A r \in History(p, t) : r.version \in Nat
  BY DEF TypeInv, TypeOK, History, Row
<1> QED
  BY <1>1 DEF LineInv, VersionLine

LEMMA ReachedLast ==
  ASSUME TypeInv, LineInv, NEW p \in Products, NEW t \in Types, NEW n \in Nat
  PROVE  Reached(p, t, n) <=> LastVersion(p, t) >= n
<1>0. \A r \in History(p, t) : r.version \in Nat /\ r.version >= 1
  BY VersionPositive
<1>1. CASE Active(p, t) = {}
  <2>1. History(p, t) = {} /\ LastVersion(p, t) = 0
    BY <1>1 DEF LineInv, VersionLine, LastVersion
  <2> QED
    BY <2>1 DEF Reached
<1>2. CASE Active(p, t) # {}
  <2>1. PICK a \in Active(p, t) : LastVersion(p, t) = a.version
    BY <1>2 DEF LastVersion
  <2>2. \A r \in History(p, t) : r.version <= a.version
    BY DEF LineInv, VersionLine
  <2>3. a \in History(p, t)
    BY DEF Active
  <2> QED
    BY <1>0, <2>1, <2>2, <2>3 DEF Reached
<1> QED
  BY <1>1, <1>2

\* Versions are never lost.
LEMMA HistoryGrows ==
  ASSUME TypeInv, LineInv, [Next]_vars, NEW p, NEW t, NEW x \in History(p, t)
  PROVE  \E r \in History(p, t)' : r.version = x.version
<1>1. CASE cost' = cost
  BY <1>1 DEF History
<1>2. CASE cost' # cost
  <2>1. PICK c \in Clients : Commit(c)
    BY <1>2, TablesWritten
  <2>2. PICK r \in cost' : KeyOf(r) = KeyOf(x)
    BY <2>1, CommitRows DEF History
  <2> QED
    BY <2>2 DEF History, KeyOf
<1> QED
  BY <1>1, <1>2

LEMMA ReachedStays ==
  ASSUME TypeInv, LineInv, [Next]_vars, NEW p, NEW t, NEW n, Reached(p, t, n)
  PROVE  Reached(p, t, n)'
  BY HistoryGrows DEF Reached

LEMMA TargetType ==
  ASSUME TypeInv, NEW c \in Clients
  PROVE  /\ Target(c) \in Nat /\ Target(c) - 1 \in Nat
         /\ job[c].base \in Nat /\ job[c].attempt \in 1..MaxAttempts
<1>1. job[c].base \in Nat /\ job[c].attempt \in 1..MaxAttempts
  BY DEF TypeInv, TypeOK, Job
<1> QED
  BY <1>1, BoundsNat DEF Target

\* An upsert that meets an active row it has not superseded is a version behind.
LEMMA ViolationBehind ==
  ASSUME TypeInv, LineInv, NEW c \in Clients, AttemptsOf(c), Violation(c),
         job[c].op = "upsert"
  PROVE  Reached(ProdOf(c), TypeOf(c), Target(c))
<1>0. job[c].todo # <<>> /\ OwnLine(c) /\ MarksHeld(c) /\ pc[c] = "insert" /\ TypeOK
  BY DEF TypeInv, AtWork, Violation, InProduct, LineInv, LineOf
<1>1. ProdOf(c) \in Products /\ TypeOf(c) \in Types
  BY <1>0, KeyAtType
<1>2. PICK a \in Active(ProdOf(c), TypeOf(c)) : ~Written(a, work[c])
  BY DEF Violation, Rivals
<1>3. job[c].seen = 0
  <2> SUFFICES ASSUME job[c].seen # 0 PROVE FALSE
    OBVIOUS
  <2>1. PICK m \in work[c].marks : m.key = KeyOf(KeyAt(c))
    BY <1>0 DEF OwnLine, Written
  <2>2. PICK b \in cost : KeyOf(b) = m.key /\ b.status # "SUPERSEDED"
    BY <1>0 DEF MarksHeld
  <2>3. b \in Active(ProdOf(c), TypeOf(c))
    BY <2>1, <2>2 DEF Active, History, KeyOf, KeyAt
  <2>4. a = b
    BY <1>1, <2>3, ActiveUnique
  <2> QED
    BY <1>2, <2>1, <2>2, <2>4 DEF Written
<1>4. Target(c) = 1 \/ Reached(ProdOf(c), TypeOf(c), Target(c))
  BY <1>0, <1>3 DEF AttemptsOf
<1>5. a \in History(ProdOf(c), TypeOf(c)) /\ a.version >= 1
  BY <1>1, VersionPositive DEF Active
<1> QED
  BY <1>4, <1>5 DEF Reached

LEMMA AttemptsOthers ==
  ASSUME TypeInv, LineInv, AttemptsInv, [Next]_vars, NEW c \in Clients, NEW d \in Clients \ {c},
         OwnOnly(c)
  PROVE  AttemptsOf(d)'
<1>1. /\ pc'[d] = pc[d] /\ job'[d] = job[d]
      /\ ProdOf(d)' = ProdOf(d) /\ TypeOf(d)' = TypeOf(d) /\ Target(d)' = Target(d)
  BY DEF OwnOnly, ProdOf, TypeOf, Target
<1>2. ASSUME NEW n, Reached(ProdOf(d), TypeOf(d), n) PROVE Reached(ProdOf(d), TypeOf(d), n)'
  <2>1. \A p, t : Reached(p, t, n) => Reached(p, t, n)'
    BY ReachedStays
  <2> QED
    BY <1>1, <1>2, <2>1 DEF Reached, History
<1>3. ASSUME NEW x \in History(ProdOf(d), TypeOf(d))
      PROVE  \E r \in History(ProdOf(d), TypeOf(d))' : r.version = x.version
  <2>1. \A p, t : x \in History(p, t) => \E r \in History(p, t)' : r.version = x.version
    BY HistoryGrows
  <2> QED
    BY <1>1, <2>1 DEF History
<1>4. AttemptsOf(d)
  BY DEF AttemptsInv
<1>5. Reached(ProdOf(d), TypeOf(d), Target(d) - 1) =>
        Reached(ProdOf(d), TypeOf(d), Target(d) - 1)'
  BY <1>1, <1>2 DEF Reached
<1>6. Reached(ProdOf(d), TypeOf(d), Target(d)) => Reached(ProdOf(d), TypeOf(d), Target(d))'
  BY <1>1, <1>2 DEF Reached
<1>7. Reached(ProdOf(d), TypeOf(d), job[d].base + MaxAttempts) =>
        Reached(ProdOf(d), TypeOf(d), job[d].base + MaxAttempts)'
  BY <1>1, <1>2 DEF Reached
<1> QED
  BY <1>1, <1>3, <1>4, <1>5, <1>6, <1>7 DEF AttemptsOf

\* An upsert's own steps, up to its commit or its end.
LEMMA UpsertStep ==
  ASSUME TypeInv, LineInv, AttemptsInv, NEW c \in Clients, Statement(c), ~Commit(c),
         job[c].op = "upsert", job'[c].op = "upsert"
  PROVE  AttemptsOf(c)'
<1> DEFINE p == ProdOf(c)
           t == TypeOf(c)
<1>0. /\ TypeOK /\ AtWork(c) /\ AttemptsOf(c) /\ job[c] \in Job
      /\ pc \in [Clients -> Points] /\ job \in [Clients -> Job]
      /\ Target(c) \in Nat /\ Target(c) - 1 \in Nat
  BY TargetType DEF TypeInv, TypeOK, AttemptsInv
<1>t. pc[c] \in InProduct => p \in Products /\ t \in Types
  BY <1>0, KeyAtType DEF AtWork
<1>v. \A r \in Active(p, t) : r \in History(p, t) /\ r.version \in Nat
  BY <1>0 DEF Active, History, TypeOK, Row
<1>w. ASSUME pc[c] \in InProduct, NEW r \in History(p, t) PROVE r.version >= 1
  BY <1>t, <1>w, VersionPositive
\* The step keeps the product, type and target, and the tables.
<1>s. ASSUME job'[c].todo = job[c].todo, job'[c].t = job[c].t, cost' = cost
      PROVE  /\ ProdOf(c)' = p /\ TypeOf(c)' = t
             /\ \A n : Reached(p, t, n)' <=> Reached(p, t, n)
             /\ History(p, t)' = History(p, t)
  BY <1>s DEF ProdOf, TypeOf, Reached, History
<1>c. ASSUME Check(c) PROVE AttemptsOf(c)'
  <2>1. pc[c] = "check" /\ pc'[c] = "supersede" /\ job' = job /\ cost' = cost
    BY <1>0, <1>c DEF Check, Goto, AfterCheck
  <2>2. Target(c)' = Target(c)
    BY <2>1 DEF Target
  <2> QED
    BY <1>0, <1>s, <2>1, <2>2 DEF AttemptsOf, Reached, History, ProdOf, TypeOf
<1>f. ASSUME SupersedeNone(c) PROVE AttemptsOf(c)'
  <2>1. /\ pc[c] = "supersede" /\ pc'[c] = "insert" /\ cost' = cost /\ Active(p, t) = {}
    BY <1>0, <1>f DEF SupersedeNone, Goto
  <2>2. /\ job'[c].todo = job[c].todo /\ job'[c].t = job[c].t /\ Target(c)' = Target(c)
    BY <1>0, <1>f DEF SupersedeNone, Job, Target
  <2>3. History(p, t) = {}
    BY <1>t, <2>1 DEF LineInv, VersionLine, InProduct
  <2>4. Reached(p, t, Target(c) - 1)
    BY <1>0, <2>1 DEF AttemptsOf
  <2>5. Target(c) = 1
    BY <1>0, <2>3, <2>4 DEF Reached
  <2> QED
    BY <2>1, <2>2, <2>5 DEF AttemptsOf, Reached
<1>g. ASSUME Supersede(c) PROVE AttemptsOf(c)'
  <2>1. PICK r \in Active(p, t) : job' = [job EXCEPT ![c].seen = r.version]
    BY <1>g DEF Supersede
  <2>2. /\ pc[c] = "supersede" /\ cost' = cost /\ pc'[c] \in {"wait", "insert"}
    BY <1>0, <1>g DEF Supersede, Goto
  <2>3. /\ job'[c].todo = job[c].todo /\ job'[c].t = job[c].t /\ job'[c].seen = r.version
        /\ Target(c)' = Target(c)
    BY <1>0, <2>1 DEF Job, Target
  <2>4. p \in Products /\ t \in Types /\ r \in History(p, t) /\ r.version \in Nat
        /\ r.version >= 1
    BY <1>t, <1>v, <1>w, <2>2 DEF InProduct
  <2>5. Reached(p, t, Target(c) - 1)
    BY <1>0, <2>2 DEF AttemptsOf
  <2>6. r.version >= Target(c) - 1
    <3>1. LastVersion(p, t) >= Target(c) - 1
      BY <1>0, <2>4, <2>5, ReachedLast
    <3>2. LastVersion(p, t) = r.version
      BY <2>4, ActiveUnique DEF LastVersion
    <3> QED
      BY <3>1, <3>2
  <2>7. /\ ProdOf(c)' = p /\ TypeOf(c)' = t
        /\ \A n : Reached(p, t, n)' <=> Reached(p, t, n)
        /\ History(p, t)' = History(p, t)
    BY <1>s, <2>2, <2>3
  <2>8. job'[c].seen # 0
    BY <2>3, <2>4
  <2> HIDE DEF p, t
  <2>9. Reached(ProdOf(c), TypeOf(c), Target(c) - 1)'
    BY <2>3, <2>5, <2>7 DEF Reached, History
  <2>10. \E x \in History(ProdOf(c), TypeOf(c))' : x.version = job'[c].seen
    BY <2>3, <2>4, <2>7 DEF History
  <2> QED
    BY <2>2, <2>3, <2>6, <2>8, <2>9, <2>10 DEF AttemptsOf
<1>h. ASSUME Resume(c) PROVE AttemptsOf(c)'
  <2>1. /\ pc[c] = "wait" /\ pc'[c] = "insert" /\ cost' = cost
    BY <1>0, <1>h DEF Resume, Goto
  <2>2. p \in Products /\ t \in Types
    BY <1>t, <2>1 DEF InProduct
  <2>3. PICK x \in History(p, t) : x.version = job[c].seen
    BY <1>0, <2>1 DEF AttemptsOf
  <2>4. job[c].seen \in Nat /\ job[c].seen >= 1 /\ job[c].seen >= Target(c) - 1
    BY <1>0, <1>w, <2>1, <2>3 DEF AttemptsOf, InProduct, Job
  <2>5. Reached(p, t, Target(c) - 1)
    BY <1>0, <2>1 DEF AttemptsOf
  <2>6. CASE \E r \in Active(p, t) : KeyOf(r) = KeyAt(c)
    <3>1. job' = job
      BY <1>h, <2>6 DEF Resume
    <3>2. job'[c].seen # 0 /\ Target(c)' = Target(c)
      BY <2>4, <3>1 DEF Target
    <3>3. Reached(ProdOf(c), TypeOf(c), Target(c) - 1)'
      BY <1>s, <2>1, <2>5, <3>1, <3>2 DEF Reached, History, ProdOf, TypeOf
    <3> QED
      BY <2>1, <3>2, <3>3 DEF AttemptsOf
  <2>7. CASE ~\E r \in Active(p, t) : KeyOf(r) = KeyAt(c)
    <3>1. job' = [job EXCEPT ![c].seen = 0]
      BY <1>h, <2>7 DEF Resume
    <3>2. /\ job'[c].todo = job[c].todo /\ job'[c].t = job[c].t /\ Target(c)' = Target(c)
      BY <1>0, <3>1 DEF Job, Target
    <3>3. PICK a \in Active(p, t) : TRUE
      BY <2>2, <2>3 DEF LineInv, VersionLine
    <3>4. a.version >= x.version /\ a.version \in Nat /\ a \in History(p, t)
      BY <1>v, <2>2, <2>3 DEF LineInv, VersionLine
    <3>5. a.version # job[c].seen
      BY <2>7 DEF Active, History, KeyOf, KeyAt
    <3>6. a.version >= Target(c)
      BY <1>0, <2>3, <2>4, <3>4, <3>5
    <3>7. Reached(p, t, Target(c))
      BY <3>4, <3>6 DEF Reached
    <3>8. /\ ProdOf(c)' = p /\ TypeOf(c)' = t
          /\ \A n : Reached(p, t, n)' <=> Reached(p, t, n)
          /\ History(p, t)' = History(p, t)
      BY <1>s, <2>1, <3>2
    <3> HIDE DEF p, t
    <3>9. /\ Reached(ProdOf(c), TypeOf(c), Target(c) - 1)'
          /\ Reached(ProdOf(c), TypeOf(c), Target(c))'
      BY <2>5, <3>2, <3>7, <3>8 DEF Reached, History
    <3> QED
      BY <2>1, <3>9 DEF AttemptsOf
  <2> QED
    BY <2>6, <2>7
<1>i. ASSUME Insert(c) PROVE AttemptsOf(c)'
  <2>1. pc'[c] = "commit"
    BY <1>0, <1>i DEF Insert, Goto
  <2> QED
    BY <2>1 DEF AttemptsOf
<1>j. ASSUME Retry(c) PROVE AttemptsOf(c)'
  <2>1. /\ pc[c] = "insert" /\ pc'[c] \in {"check", "supersede"} /\ cost' = cost
    BY <1>0, <1>j DEF Retry, Violation, Goto, FirstPoint
  <2>2. /\ job'[c].todo = job[c].todo /\ job'[c].t = job[c].t
        /\ job'[c].base = job[c].base /\ job'[c].attempt = job[c].attempt + 1
    BY <1>0, <1>j DEF Retry, Job
  <2>3. Reached(p, t, Target(c))
    BY <1>0, <1>j, ViolationBehind DEF Retry
  <2>4. (Target(c) - 1)' = Target(c)
    BY <2>2, TargetType DEF Target
  <2>5. Reached(ProdOf(c), TypeOf(c), Target(c) - 1)'
    BY <1>s, <2>1, <2>2, <2>3, <2>4 DEF Reached, History, ProdOf, TypeOf
  <2> QED
    BY <2>1, <2>5 DEF AttemptsOf
<1>k. ASSUME GiveUp(c) PROVE AttemptsOf(c)'
  <2>1. ~Grouped(c) /\ Violation(c) /\ job[c].attempt = MaxAttempts
    BY <1>k DEF Grouped, GiveUp
  <2>2. pc'[c] = "gaveUp" /\ job' = job /\ cost' = cost
    BY <1>0, <1>k, <2>1 DEF GiveUp, Goto
  <2>3. Reached(p, t, job[c].base + MaxAttempts)
    BY <1>0, <2>1, ViolationBehind DEF Target
  <2>4. Reached(ProdOf(c), TypeOf(c), job[c].base + MaxAttempts)'
    BY <1>s, <2>2, <2>3 DEF Reached, History, ProdOf, TypeOf
  <2>5. job[c].todo # <<>>
    BY <1>0, <2>1 DEF AtWork, Violation, InProduct
  <2> QED
    BY <2>2, <2>4, <2>5 DEF AttemptsOf
<1>r. ASSUME Rollback(c) PROVE FALSE
  <2>1. job'[c] = NoJob
    BY <1>0, <1>r, RollbackOwn
  <2> QED
    BY <2>1 DEF NoJob
<1>d. ~Fail(c)
  BY <1>r DEF Fail, Grouped
<1>q. ~(Advisory(c) \/ NextProduct(c) \/ Read(c) \/ ReadNone(c) \/ MarkStatus(c) \/ MarkRefused(c)
        \/ CheckRefused(c) \/ Report(c) \/ Victim(c))
  BY <1>0, <1>r, <1>d DEF Advisory, NextProduct, Read, ReadNone, MarkStatus, MarkRefused,
     CheckRefused, Report, Victim, AtWork
<1> QED
  BY <1>c, <1>f, <1>g, <1>h, <1>i, <1>j, <1>k, <1>q DEF Statement

\* A request starts from the last version there is.
LEMMA RequestAttempts ==
  ASSUME TypeInv, LineInv, NEW c \in Clients, Request(c)
  PROVE  AttemptsOf(c)'
<1>1. ASSUME NEW j, NEW q, StartWith(c, j, q), q # "gaveUp", j.op # "upsert"
      PROVE  AttemptsOf(c)'
  <2>1. pc'[c] = q /\ job'[c] = j
    BY <1>1, StartOwn DEF TypeInv
  <2> QED
    BY <1>1, <2>1 DEF AttemptsOf
<1>2. ASSUME NEW p \in Yarns, NEW t \in 1..3, StartUpsert(c, p, t)
      PROVE  AttemptsOf(c)'
  <2> DEFINE u == CalcTypes[t]
             n == LastVersion(p, u)
             j == [NoJob EXCEPT !.op = "upsert", !.todo = <<p>>, !.t = t, !.base = n]
             q == FirstPoint(t, "supersede")
  <2>0. p \in Products /\ u \in Types
    BY TypesByNumber DEF Products
  <2>1. n \in Nat
    BY <2>0 DEF LastVersion, TypeInv, TypeOK, Active, History, Row
  <2>2. q \in {"check", "supersede"}
    BY DEF FirstPoint
  <2>3. j.op = "upsert" /\ j.todo = <<p>> /\ j.t = t /\ j.base = n /\ j.attempt = 1
    BY DEF NoJob
  <2>4. StartWith(c, j, q)
    BY <1>2 DEF StartUpsert
  <2>5. pc'[c] = q /\ job'[c] = j /\ cost' = cost
    <3> HIDE DEF j, q
    <3> QED
      BY <2>4, StartOwn DEF TypeInv, StartWith
  <2>6. Reached(p, u, n)
    <3> HIDE DEF u
    <3> QED
      BY <2>0, <2>1, ReachedLast
  <2>7. /\ ProdOf(c)' = p /\ TypeOf(c)' = u /\ (Target(c) - 1)' = n
    <3> HIDE DEF j, n
    <3> QED
      BY <2>1, <2>3, <2>5 DEF ProdOf, TypeOf, Target
  <2> HIDE DEF u, n, j, q
  <2>8. Reached(ProdOf(c), TypeOf(c), Target(c) - 1)'
    BY <2>5, <2>6, <2>7 DEF Reached, History
  <2> QED
    BY <2>2, <2>5, <2>8 DEF AttemptsOf
<1>3. ASSUME NEW r \in cost, NEW t \in 1..3, NEW op \in {"verify", "approve"},
             StartMark(c, r, t, op)
      PROVE  AttemptsOf(c)'
  <2> DEFINE j == [NoJob EXCEPT !.op = op, !.todo = <<r.prod>>, !.t = t, !.seen = r.version]
             q == FirstPoint(t, "mark")
  <2>1. StartWith(c, j, q) /\ j.op # "upsert" /\ q # "gaveUp"
    BY <1>3 DEF StartMark, NoJob, FirstPoint
  <2> HIDE DEF j, q
  <2> QED
    BY <1>1, <2>1
<1>4. ASSUME NEW s, NEW op \in {"batch", "push"}, StartGroup(c, op, s)
      PROVE  AttemptsOf(c)'
  <2> DEFINE j == [NoJob EXCEPT !.op = op, !.todo = s]
  <2>1. StartWith(c, j, "advisory") /\ j.op # "upsert"
    BY <1>4 DEF StartGroup, NoJob
  <2> HIDE DEF j
  <2> QED
    BY <1>1, <2>1
<1> QED
  BY <1>2, <1>3, <1>4 DEF Request

\* A request keeps its kind until it ends.
LEMMA StatementOp ==
  ASSUME TypeInv, NEW c \in Clients, Statement(c)
  PROVE  job'[c].op = job[c].op \/ job'[c] = NoJob
<1>0. TypeOK /\ job[c] \in Job /\ job \in [Clients -> Job]
  BY DEF TypeInv, TypeOK
<1>1. ASSUME NEW p, Advance(c, p) PROVE job'[c].op = job[c].op
  BY <1>0, <1>1 DEF Advance, NextProductOf, Job
<1>2. ASSUME Rollback(c) PROVE job'[c] = NoJob
  BY <1>0, <1>2, RollbackOwn
<1>3. ASSUME RollbackProduct(c) PROVE job'[c].op = job[c].op
  BY <1>0, <1>3 DEF RollbackProduct, NextProductOf, Job
<1>4. CASE Fail(c) \/ Report(c) \/ CheckRefused(c) \/ ReadNone(c) \/ MarkRefused(c) \/ Victim(c)
  BY <1>2, <1>3, <1>4 DEF Fail, Report, CheckRefused, ReadNone, MarkRefused, Victim
<1>5. CASE Advisory(c) \/ NextProduct(c) \/ Check(c)
  BY <1>5 DEF Advisory, NextProduct, Check
<1>6. CASE SupersedeNone(c) \/ Supersede(c) \/ Resume(c) \/ Retry(c) \/ Read(c)
  BY <1>0, <1>6 DEF SupersedeNone, Supersede, Resume, Retry, Read, Job
<1>7. CASE Insert(c) \/ MarkStatus(c)
  BY <1>1, <1>7 DEF Insert, MarkStatus
<1>8. CASE GiveUp(c)
  BY <1>3, <1>8 DEF GiveUp
<1>9. CASE Commit(c)
  BY <1>0, <1>9 DEF Commit
<1> QED
  BY <1>4, <1>5, <1>6, <1>7, <1>8, <1>9 DEF Statement

LEMMA AttemptsStep == TypeInv /\ LineInv /\ AttemptsInv /\ [Next]_vars => AttemptsInv'
<1> SUFFICES ASSUME TypeInv, LineInv, AttemptsInv, [Next]_vars, NEW d \in Clients
             PROVE  AttemptsOf(d)'
  BY DEF AttemptsInv
<1>0. TypeInv'
  BY TypeStep
<1>1. ASSUME NEW c \in Clients, Request(c) \/ Statement(c) \/ Abort(c)
      PROVE  AttemptsOf(d)'
  <2>1. CASE d # c
    <3>1. OwnOnly(c)
      BY <1>1, RequestOwn, StatementOwn, RollbackOwn DEF Abort, TypeInv
    <3> QED
      BY <2>1, <3>1, AttemptsOthers
  <2>2. CASE d = c /\ Request(c)
    BY <2>2, RequestAttempts
  <2>3. ASSUME d = c, pc'[c] = "idle"
        PROVE  AttemptsOf(d)'
    BY <2>3 DEF AttemptsOf
  <2>4. CASE d = c /\ (Abort(c) \/ Commit(c))
    <3>1. pc'[c] = "idle"
      BY <2>4, RollbackOwn DEF Abort, Commit, Goto, TypeInv, TypeOK
    <3> QED
      BY <2>3, <2>4, <3>1
  <2>5. CASE d = c /\ Statement(c) /\ ~Commit(c) /\ job'[c].op = "upsert"
    BY <2>3, <2>5, UpsertStep, StatementOp DEF NoJob
  <2>6. CASE d = c /\ job'[c].op # "upsert"
    <3>1. pc'[c] # "gaveUp"
      BY <1>0, <2>6 DEF TypeInv, AtWork
    <3> QED
      BY <2>6, <3>1 DEF AttemptsOf
  <2> QED
    BY <1>1, <2>1, <2>2, <2>4, <2>5, <2>6
<1>2. CASE LockPeriod \/ UnlockPeriod \/ UNCHANGED vars
  <2>1. UNCHANGED <<cost, pc, job>>
    BY <1>2 DEF LockPeriod, UnlockPeriod, vars
  <2> QED
    BY <2>1 DEF AttemptsInv, AttemptsOf, Reached, History, ProdOf, TypeOf, Target
<1> QED
  BY <1>1, <1>2 DEF Next

LEMMA AttemptsInit == Init => AttemptsInv
  BY DEF Init, AttemptsInv, AttemptsOf, NoJob

\* An upsert that gives up was overtaken by another commit at every attempt.
THEOREM GaveUpsLostToOthers == Spec => []GaveUpToOthers
<1>1. TypeInv /\ LineInv /\ AttemptsInv => GaveUpToOthers
  <2> SUFFICES ASSUME TypeInv, LineInv, AttemptsInv, NEW c \in Clients, pc[c] = "gaveUp"
               PROVE  LastVersion(ProdOf(c), TypeOf(c)) >= job[c].base + MaxAttempts
    BY DEF GaveUpToOthers
  <2>1. ProdOf(c) \in Products /\ TypeOf(c) \in Types
    BY KeyAtType DEF TypeInv, AttemptsInv, AttemptsOf
  <2>2. Reached(ProdOf(c), TypeOf(c), job[c].base + MaxAttempts)
    BY DEF AttemptsInv, AttemptsOf
  <2>3. job[c].base + MaxAttempts \in Nat
    BY TargetType, BoundsNat
  <2> QED
    BY <2>1, <2>2, <2>3, ReachedLast
<1> QED
  BY TypeInit, TypeStep, LineInit, LineStep, AttemptsInit, AttemptsStep, <1>1, PTL DEF Spec
=============================================================================

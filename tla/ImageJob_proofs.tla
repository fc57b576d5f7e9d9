--------------------------- MODULE ImageJob_proofs ---------------------------
(***************************************************************************)
(* Proofs about one image job, for any number of instances, executions and *)
(* cancel requests, any price and any number of crashes.  What the money   *)
(* and the conversation promise is proved of a job that is executed once:  *)
(* two executions of one job, which OneExecution shows to be possible,     *)
(* reserve and refund under the same generation.                           *)
(***************************************************************************)
EXTENDS ImageJobProperties, TLAPS

-----------------------------------------------------------------------------
(* Types.  The price left for the balance is never negative because the    *)
(* subscription is never charged more than the price.                      *)

SubWithinPrice == \A e \in Execs : ex[e].sub <= Requested

TypeInv == TypeOK /\ SubWithinPrice

\* An execution with its own share of the invariant.
GoodExec == { r \in Execution : r.sub <= Requested }

LEMMA ExecTyped ==
  TypeInv <=> /\ row \in Row /\ gen \in GenStatus
              /\ held \in [Wallets -> Nat] /\ back \in [Wallets -> Nat]
              /\ \A w \in Wallets : back[w] <= held[w]
              /\ ex \in [Execs -> GoodExec]
              /\ active \in [Instances -> Execs \cup {NoOne}]
              /\ cx \in [Cancels -> Cancellation]
              /\ rc \in [Instances -> Reconciliation]
              /\ crashes \in 0 .. MaxCrashes
BY DEF TypeInv, TypeOK, SubWithinPrice, GoodExec

LEMMA SavedRow ==
  ASSUME TypeInv, NEW j \in Job
  PROVE  Saved(j) \in Row /\ Prepared(j) \in Job
<1>1. HasUpstreamSent(j) \in BOOLEAN
  BY DEF HasUpstreamSent, Job
<1>2. Prepared(j) \in Job
  BY <1>1 DEF Prepared, Job
<1>3. row.job.sent \in BOOLEAN
  BY DEF TypeInv, TypeOK, Row, Job
<1>4. [Prepared(j) EXCEPT !.sent = Prepared(j).sent \/ row.job.sent] \in Job
  BY <1>2, <1>3 DEF Job
<1> QED BY <1>2, <1>4 DEF Saved, Row

LEMMA EndingTyped ==
  ASSUME NEW r \in GoodExec, NEW s \in Status, NEW n \in GenStatus \cup {"skip"},
         NEW b \in BOOLEAN
  PROVE  Ending(r, s, n, b) \in GoodExec
<1>1. r.mem \in Job /\ r \in Execution /\ r.sub <= Requested
  BY DEF GoodExec, Execution
<1> DEFINE m == [r.mem EXCEPT !.status = s, !.stage = "ended", !.lease = "none"]
<1>2. m \in Job
  BY <1>1 DEF Job, Stage
<1>3. Ending(r, s, n, b)
        = [r EXCEPT !.pc = "record", !.note = n, !.bound = b, !.mem = m]
  BY <1>1 DEF Ending, Execution, Job
<1> HIDE DEF m
<1> QED BY <1>1, <1>2, <1>3 DEF GoodExec, Execution, ExecPc

\* A step of one execution that leaves the ledger and the rest alone.
LEMMA ExecStepTyped ==
  ASSUME TypeInv, NEW e \in Execs, NEW r \in GoodExec, Step(e, r),
         row' \in Row, gen' \in GenStatus, UNCHANGED <<cx, rc, crashes>>,
         held' \in [Wallets -> Nat], back' \in [Wallets -> Nat],
         \A w \in Wallets : back'[w] <= held'[w],
         active' \in [Instances -> Execs \cup {NoOne}]
  PROVE  TypeInv'
BY ExecTyped DEF Step, TypeInv, TypeOK, SubWithinPrice, GoodExec

LEMMA RefundTyped ==
  ASSUME TypeInv, NEW n \in Nat, NEW w \in Wallets,
         \/ RefundUpTo(n) \/ RefundWallet(w, n) \/ RefundAllOf(w),
         UNCHANGED held
  PROVE  /\ held' \in [Wallets -> Nat] /\ back' \in [Wallets -> Nat]
         /\ \A v \in Wallets : back'[v] <= held'[v]
<1>1. /\ held \in [Wallets -> Nat] /\ back \in [Wallets -> Nat]
      /\ \A v \in Wallets : back[v] <= held[v]
  BY DEF TypeInv, TypeOK
<1>2. \A v \in Wallets : Refundable(v) \in Nat /\ Refundable(v) = held[v] - back[v]
  BY <1>1 DEF Refundable
<1>3. CASE RefundUpTo(n)
  <2> DEFINE b == Least(n, Refundable("bal"))
             s == Least(n - b, Refundable("sub"))
  <2>1. b \in Nat /\ b <= Refundable("bal") /\ n - b \in Nat
    BY <1>2 DEF Least, Wallets
  <2>2. s \in Nat /\ s <= Refundable("sub")
    BY <1>2, <2>1 DEF Least, Wallets
  <2>3. back' = [back EXCEPT !["bal"] = @ + b, !["sub"] = @ + s]
    BY <1>3 DEF RefundUpTo
  <2> HIDE DEF b, s
  <2> QED BY <1>1, <1>2, <2>1, <2>2, <2>3 DEF Wallets
<1>4. CASE RefundWallet(w, n)
  <2>1. Least(n, Refundable(w)) \in Nat /\ Least(n, Refundable(w)) <= Refundable(w)
    BY <1>2 DEF Least
  <2> QED BY <1>1, <1>2, <1>4, <2>1 DEF RefundWallet
<1>5. CASE RefundAllOf(w)
  BY <1>1, <1>5 DEF RefundAllOf
<1> QED BY <1>3, <1>4, <1>5

\* ... and one that leaves everything else alone.
LEMMA QuietStepTyped ==
  ASSUME TypeInv, NEW e \in Execs, NEW r \in GoodExec, Step(e, r),
         UNCHANGED <<row, gen, ledger, active, cx, rc, crashes>>
  PROVE  TypeInv'
<1>1. UNCHANGED <<row, gen, held, back, active, cx, rc, crashes>>
  BY DEF ledger
<1> QED BY <1>1, ExecStepTyped DEF TypeInv, TypeOK

LEMMA ExecOf ==
  ASSUME TypeInv, NEW e \in Execs
  PROVE  ex[e] \in GoodExec /\ row.job \in Job
BY ExecTyped DEF Row

\* Records of an execution that moves on, carries another copy of the row,
\* saves it, or ends.
LEMMA MoveTyped ==
  ASSUME NEW x \in GoodExec, NEW p \in ExecPc
  PROVE  [x EXCEPT !.pc = p] \in GoodExec
BY DEF GoodExec, Execution

LEMMA CarryTyped ==
  ASSUME NEW x \in GoodExec, NEW j \in Job
  PROVE  [x EXCEPT !.mem = j] \in GoodExec
BY DEF GoodExec, Execution

LEMMA CarryMoveTyped ==
  ASSUME NEW x \in GoodExec, NEW j \in Job, NEW p \in ExecPc
  PROVE  [x EXCEPT !.mem = j, !.pc = p] \in GoodExec
BY DEF GoodExec, Execution

LEMMA SaveTyped ==
  ASSUME NEW x \in GoodExec, NEW j \in Job, NEW q \in ExecRet
  PROVE  [x EXCEPT !.mem = j, !.pc = "get", !.ret = q] \in GoodExec
BY DEF GoodExec, Execution, ExecPc

LEMMA GetTyped ==
  ASSUME NEW x \in GoodExec, NEW q \in ExecRet
  PROVE  [x EXCEPT !.pc = "get", !.ret = q] \in GoodExec
BY DEF GoodExec, Execution, ExecPc

LEMMA ChargedTyped ==
  ASSUME NEW x \in GoodExec, NEW s \in Nat, s <= Requested
  PROVE  /\ [x EXCEPT !.sub = s, !.pc = "get", !.ret = "checkReserved"]
              \in GoodExec
         /\ [x EXCEPT !.sub = s, !.pc = "reserveBal"] \in GoodExec
BY DEF GoodExec, Execution, ExecPc, ExecRet

LEMMA UnheardTyped ==
  ASSUME NEW x \in GoodExec
  PROVE  [x EXCEPT !.pc = "undoSub", !.unheard = TRUE] \in GoodExec
BY DEF GoodExec, Execution, ExecPc

LEMMA CancelledTyped ==
  ASSUME NEW x \in GoodExec
  PROVE  Cancelled(x) \in GoodExec
BY EndingTyped DEF Cancelled, Status, GenStatus

LEMMA FailedTyped ==
  ASSUME NEW x \in GoodExec, NEW b \in BOOLEAN
  PROVE  /\ Ending(x, "failed", "failed", b) \in GoodExec
         /\ Ending(x, "failed", "skip", b) \in GoodExec
BY EndingTyped DEF Status, GenStatus

LEMMA StartTyped == ASSUME TypeInv, NEW e \in Execs, Start(e) PROVE TypeInv'
<1>1. [ex[e] EXCEPT !.pc = "precheck"] \in GoodExec
  BY ExecOf, MoveTyped DEF ExecPc
<1>2. /\ Ending(ex[e], "failed", "skip", FALSE) \in GoodExec
      /\ Ending(ex[e], "failed", "failed", FALSE) \in GoodExec
  BY ExecOf, FailedTyped
<1>3. active' \in [Instances -> Execs \cup {NoOne}]
  BY ExecTyped DEF Start
<1>4. /\ row' \in Row /\ gen' \in GenStatus /\ UNCHANGED <<cx, rc, crashes>>
      /\ held' \in [Wallets -> Nat] /\ back' \in [Wallets -> Nat]
      /\ \A w \in Wallets : back'[w] <= held'[w]
  BY DEF Start, ledger, TypeInv, TypeOK
<1>5. \E r \in GoodExec : Step(e, r)
  BY <1>1, <1>2 DEF Start
<1> QED BY <1>3, <1>4, <1>5, ExecStepTyped

LEMMA QueuedJob ==
  ASSUME NEW m \in Job
  PROVE  [m EXCEPT !.status = "queued", !.stage = "queued"] \in Job
BY DEF Job, Status, Stage

LEMMA RunningJob ==
  ASSUME NEW m \in Job
  PROVE  [m EXCEPT !.status = "running", !.stage = "running", !.lease = "ahead"]
           \in Job
BY DEF Job, Status, Stage

LEMMA PrecheckTyped == ASSUME TypeInv, NEW e \in Execs, Precheck(e) PROVE TypeInv'
<1> DEFINE j == [ex[e].mem EXCEPT !.status = "queued", !.stage = "queued"]
<1>0. ex[e].mem \in Job
  BY ExecOf DEF GoodExec, Execution
<1>1. j \in Job
  BY <1>0, QueuedJob
<1>2. Cancelled(ex[e]) \in GoodExec
  BY ExecOf, CancelledTyped
<1>3. Cancelled([ex[e] EXCEPT !.mem = row.job]) \in GoodExec
  BY ExecOf, CarryTyped, CancelledTyped
<1>4. [ex[e] EXCEPT !.mem = j, !.pc = "get", !.ret = "placeQueued"] \in GoodExec
  BY <1>1, ExecOf, SaveTyped DEF ExecRet
<1>5. \E r \in GoodExec : Step(e, r)
  BY <1>2, <1>3, <1>4 DEF Precheck, SaveThen
<1> QED BY <1>5, QuietStepTyped DEF Precheck

LEMMA PlaceQueuedTyped ==
  ASSUME TypeInv, NEW e \in Execs, PlaceQueued(e) PROVE TypeInv'
<1>1. [ex[e] EXCEPT !.pc = "admission"] \in GoodExec
  BY ExecOf, MoveTyped DEF ExecPc
<1> QED BY <1>1, ExecStepTyped
  DEF PlaceQueued, ledger, TypeInv, TypeOK, GenStatus

LEMMA AdmissionTyped == ASSUME TypeInv, NEW e \in Execs, Admission(e) PROVE TypeInv'
<1>1. [ex[e] EXCEPT !.pc = "saveRunning"] \in GoodExec
  BY ExecOf, MoveTyped DEF ExecPc
<1>2. Ending(ex[e], "failed", "failed", FALSE) \in GoodExec
  BY ExecOf, FailedTyped
<1>3. Cancelled(ex[e]) \in GoodExec
  BY ExecOf, CancelledTyped
<1>4. \E r \in GoodExec : Step(e, r)
  BY <1>1, <1>2, <1>3 DEF Admission
<1> QED BY <1>4, QuietStepTyped DEF Admission

LEMMA SaveRunningTyped ==
  ASSUME TypeInv, NEW e \in Execs, SaveRunning(e) PROVE TypeInv'
<1> DEFINE x == ex[e]
           j == [x.mem EXCEPT !.status = "running", !.stage = "running",
                              !.lease = "ahead"]
<1>0. x \in GoodExec /\ x.mem \in Job
  BY ExecOf DEF GoodExec, Execution
<1>1. j \in Job
  BY <1>0, RunningJob
<1>2. Prepared(j) \in Job /\ Saved(j) \in Row
  BY <1>1, SavedRow
<1>3. UNCHANGED <<gen, held, back, active, cx, rc, crashes>>
  BY DEF SaveRunning, ledger
<1>4. CASE /\ row' = Saved(j)
           /\ Step(e, [x EXCEPT !.mem = Prepared(j), !.beat = TRUE,
                                !.pc = "checkRunning"])
  <2>1. [x EXCEPT !.mem = Prepared(j), !.beat = TRUE, !.pc = "checkRunning"]
          \in GoodExec
    BY <1>0, <1>1, <1>2 DEF GoodExec, Execution, ExecPc
  <2> QED BY <1>2, <1>3, <1>4, <2>1, ExecStepTyped DEF TypeInv, TypeOK
<1>5. CASE /\ Step(e, Ending([x EXCEPT !.mem = j], "failed", "failed", TRUE))
           /\ UNCHANGED row
  <2>1. Ending([x EXCEPT !.mem = j], "failed", "failed", TRUE) \in GoodExec
    BY <1>0, <1>1, CarryTyped, FailedTyped
  <2> QED BY <1>3, <1>5, <2>1, ExecStepTyped DEF TypeInv, TypeOK
<1> QED BY <1>4, <1>5 DEF SaveRunning

LEMMA CheckRunningTyped ==
  ASSUME TypeInv, NEW e \in Execs, CheckRunning(e) PROVE TypeInv'
<1>1. Cancelled([ex[e] EXCEPT !.mem = row.job]) \in GoodExec
  BY ExecOf, CarryTyped, CancelledTyped
<1>2. [ex[e] EXCEPT !.pc = "placeRunning"] \in GoodExec
  BY ExecOf, MoveTyped DEF ExecPc
<1>3. \E r \in GoodExec : Step(e, r)
  BY <1>1, <1>2 DEF CheckRunning
<1> QED BY <1>3, QuietStepTyped DEF CheckRunning

LEMMA PlaceRunningTyped ==
  ASSUME TypeInv, NEW e \in Execs, PlaceRunning(e) PROVE TypeInv'
<1>1. [ex[e] EXCEPT !.pc = "reserveSub"] \in GoodExec
  BY ExecOf, MoveTyped DEF ExecPc
<1> QED BY <1>1, ExecStepTyped
  DEF PlaceRunning, ledger, TypeInv, TypeOK, GenStatus

LEMMA ReserveSubTyped ==
  ASSUME TypeInv, NEW e \in Execs, ReserveSub(e) PROVE TypeInv'
<1>1. Ending(ex[e], "failed", "failed", TRUE) \in GoodExec
  BY ExecOf, FailedTyped
<1>2. \A s \in {0, 1, Requested} :
        /\ s \in Nat
        /\ [ex[e] EXCEPT !.sub = s, !.pc = "get", !.ret = "checkReserved"]
             \in GoodExec
        /\ [ex[e] EXCEPT !.sub = s, !.pc = "reserveBal"] \in GoodExec
  <2>1. \A s \in {0, 1, Requested} : s \in Nat /\ s <= Requested
    BY ImageJobAssumption
  <2> QED BY <2>1, ExecOf, ChargedTyped
<1>3. \E r \in GoodExec : Step(e, r)
  BY <1>1, <1>2 DEF ReserveSub
<1>4. /\ held' \in [Wallets -> Nat] /\ back' \in [Wallets -> Nat]
      /\ \A w \in Wallets : back'[w] <= held'[w]
  <2>1. /\ held \in [Wallets -> Nat] /\ back \in [Wallets -> Nat]
        /\ \A w \in Wallets : back[w] <= held[w]
    BY DEF TypeInv, TypeOK
  <2>2. \/ held' = held
        \/ \E s \in Nat : held' = [held EXCEPT !["sub"] = @ + s]
    BY <1>2 DEF ReserveSub
  <2> QED BY <2>1, <2>2 DEF ReserveSub, Wallets
<1> QED BY <1>3, <1>4, ExecStepTyped DEF ReserveSub, TypeInv, TypeOK

LEMMA ReserveBalTyped ==
  ASSUME TypeInv, NEW e \in Execs, ReserveBal(e) PROVE TypeInv'
<1>1. /\ [ex[e] EXCEPT !.pc = "reserveReply"] \in GoodExec
      /\ [ex[e] EXCEPT !.pc = "undoSub"] \in GoodExec
  BY ExecOf, MoveTyped DEF ExecPc
<1>2. \E r \in GoodExec : Step(e, r)
  BY <1>1 DEF ReserveBal
<1>3. Requested - ex[e].sub \in Nat
  BY ExecOf, ImageJobAssumption DEF GoodExec, Execution
<1>4. /\ held' \in [Wallets -> Nat] /\ back' \in [Wallets -> Nat]
      /\ \A w \in Wallets : back'[w] <= held'[w]
  <2>1. /\ held \in [Wallets -> Nat] /\ back \in [Wallets -> Nat]
        /\ \A w \in Wallets : back[w] <= held[w]
    BY DEF TypeInv, TypeOK
  <2>2. \/ held' = held
        \/ \E s \in Nat : held' = [held EXCEPT !["bal"] = @ + s]
    BY <1>3 DEF ReserveBal
  <2> QED BY <2>1, <2>2 DEF ReserveBal, Wallets
<1> QED BY <1>2, <1>4, ExecStepTyped DEF ReserveBal, TypeInv, TypeOK

LEMMA ReserveReplyTyped ==
  ASSUME TypeInv, NEW e \in Execs, ReserveReply(e) PROVE TypeInv'
<1>1. /\ [ex[e] EXCEPT !.pc = "get", !.ret = "checkReserved"] \in GoodExec
      /\ [ex[e] EXCEPT !.pc = "undoSub", !.unheard = TRUE] \in GoodExec
  BY ExecOf, GetTyped, UnheardTyped DEF ExecRet
<1>2. \E r \in GoodExec : Step(e, r)
  BY <1>1 DEF ReserveReply
<1> QED BY <1>2, QuietStepTyped DEF ReserveReply

LEMMA UndoSubTyped == ASSUME TypeInv, NEW e \in Execs, UndoSub(e) PROVE TypeInv'
<1>1. Ending(ex[e], "failed", "failed", TRUE) \in GoodExec
  BY ExecOf, FailedTyped
<1>2. ex[e].sub \in Nat /\ "sub" \in Wallets
  BY ExecOf DEF GoodExec, Execution, Wallets
<1>3. /\ held' \in [Wallets -> Nat] /\ back' \in [Wallets -> Nat]
      /\ \A w \in Wallets : back'[w] <= held'[w]
  BY <1>2, RefundTyped DEF UndoSub
<1> QED BY <1>1, <1>3, ExecStepTyped DEF UndoSub, TypeInv, TypeOK

LEMMA CheckReservedTyped ==
  ASSUME TypeInv, NEW e \in Execs, CheckReserved(e) PROVE TypeInv'
<1>1. Dispatching(ex[e].mem) \in Job
  BY ExecOf DEF Dispatching, GoodExec, Execution, Job, Stage
<1>2. [ex[e] EXCEPT !.mem = row.job, !.pc = "refundCancel"] \in GoodExec
  BY ExecOf, CarryMoveTyped DEF ExecPc
<1>3. [ex[e] EXCEPT !.mem = Dispatching(ex[e].mem), !.pc = "get",
                    !.ret = "checkDispatch"] \in GoodExec
  BY <1>1, ExecOf, SaveTyped DEF ExecRet
<1>4. \E r \in GoodExec : Step(e, r)
  BY <1>2, <1>3 DEF CheckReserved, SaveThen
<1> QED BY <1>4, QuietStepTyped DEF CheckReserved

LEMMA CheckDispatchTyped ==
  ASSUME TypeInv, NEW e \in Execs, CheckDispatch(e) PROVE TypeInv'
<1>1. [ex[e] EXCEPT !.mem = row.job, !.pc = "refundCancel"] \in GoodExec
  BY ExecOf, CarryMoveTyped DEF ExecPc
<1>2. [ex[e] EXCEPT !.pc = "upstream"] \in GoodExec
  BY ExecOf, MoveTyped DEF ExecPc
<1>3. \E r \in GoodExec : Step(e, r)
  BY <1>1, <1>2 DEF CheckDispatch
<1> QED BY <1>3, QuietStepTyped DEF CheckDispatch

LEMMA RefundCancelTyped ==
  ASSUME TypeInv, NEW e \in Execs, RefundCancel(e) PROVE TypeInv'
<1>1. Cancelled(ex[e]) \in GoodExec
  BY ExecOf, CancelledTyped
<1>2. Requested \in Nat /\ "bal" \in Wallets
  BY ImageJobAssumption DEF Wallets
<1>3. /\ held' \in [Wallets -> Nat] /\ back' \in [Wallets -> Nat]
      /\ \A w \in Wallets : back'[w] <= held'[w]
  BY <1>2, RefundTyped DEF RefundCancel
<1> QED BY <1>1, <1>3, ExecStepTyped DEF RefundCancel, TypeInv, TypeOK

LEMMA SentTyped ==
  ASSUME NEW x \in GoodExec
  PROVE  [x EXCEPT !.started = TRUE, !.mem.sent = TRUE,
                   !.mem.stage = "upstream", !.pc = "get", !.ret = "call"]
           \in GoodExec
<1> DEFINE m == [x.mem EXCEPT !.sent = TRUE, !.stage = "upstream"]
<1>1. x.mem \in Job /\ x \in Execution
  BY DEF GoodExec, Execution
<1>2. m \in Job
  BY <1>1 DEF Job, Stage
<1>3. [x EXCEPT !.started = TRUE, !.mem.sent = TRUE,
                !.mem.stage = "upstream", !.pc = "get", !.ret = "call"]
        = [x EXCEPT !.started = TRUE, !.mem = m, !.pc = "get", !.ret = "call"]
  BY <1>1 DEF Execution, Job
<1> HIDE DEF m
<1> QED BY <1>2, <1>3 DEF GoodExec, Execution, ExecPc, ExecRet

LEMMA UpstreamTyped ==
  ASSUME TypeInv, NEW e \in Execs, Upstream(e) PROVE TypeInv'
<1>1. [ex[e] EXCEPT !.started = TRUE, !.mem.sent = TRUE,
                    !.mem.stage = "upstream", !.pc = "get", !.ret = "call"]
        \in GoodExec
  BY ExecOf, SentTyped
<1>2. [ex[e] EXCEPT !.pc = "call"] \in GoodExec
  BY ExecOf, MoveTyped DEF ExecPc
<1>3. \E r \in GoodExec : Step(e, r)
  BY <1>1, <1>2 DEF Upstream
<1> QED BY <1>3, QuietStepTyped DEF Upstream

LEMMA AnswerTyped ==
  ASSUME NEW x \in GoodExec, NEW n \in Nat, NEW p \in ExecPc
  PROVE  [x EXCEPT !.images = n, !.pc = p] \in GoodExec
BY DEF GoodExec, Execution

LEMMA FailoverTyped ==
  ASSUME NEW x \in GoodExec
  PROVE  [x EXCEPT !.failover = TRUE, !.pc = "get", !.ret = "upstream"]
           \in GoodExec
BY DEF GoodExec, Execution, ExecPc, ExecRet

LEMMA CallTyped == ASSUME TypeInv, NEW e \in Execs, Call(e) PROVE TypeInv'
<1>1. \A n \in Nat : [ex[e] EXCEPT !.images = n, !.pc = "after"] \in GoodExec
  BY ExecOf, AnswerTyped DEF ExecPc
<1>2. [ex[e] EXCEPT !.failover = TRUE, !.pc = "get", !.ret = "upstream"]
        \in GoodExec
  BY ExecOf, FailoverTyped
<1>3. \A n \in 1 .. Requested + 1 : n \in Nat
  BY ImageJobAssumption
<1>4. \E r \in GoodExec : Step(e, r)
  BY <1>1, <1>2, <1>3 DEF Call
<1> QED BY <1>4, QuietStepTyped DEF Call

LEMMA AfterTyped == ASSUME TypeInv, NEW e \in Execs, After(e) PROVE TypeInv'
<1> DEFINE x == ex[e]
<1>1. [x EXCEPT !.mem = row.job] \in GoodExec
  BY ExecOf, CarryTyped
<1>2. \A y \in GoodExec : /\ Cancelled(y) \in GoodExec
                          /\ [y EXCEPT !.pc = "refundCancel"] \in GoodExec
                          /\ [y EXCEPT !.pc = "refundFailed"] \in GoodExec
                          /\ [y EXCEPT !.pc = "settle"] \in GoodExec
  BY CancelledTyped, MoveTyped DEF ExecPc
<1>3. [x EXCEPT !.mem = row.job, !.pc = "exit"] \in GoodExec
  BY ExecOf, CarryMoveTyped DEF ExecPc
<1>4. x \in GoodExec
  BY ExecOf
<1>5. \E r \in GoodExec : Step(e, r)
  BY <1>1, <1>2, <1>3, <1>4 DEF After
<1> QED BY <1>5, QuietStepTyped DEF After

LEMMA RefundFailedTyped ==
  ASSUME TypeInv, NEW e \in Execs, RefundFailed(e) PROVE TypeInv'
<1>1. Ending(ex[e], "failed", "failed", TRUE) \in GoodExec
  BY ExecOf, FailedTyped
<1>2. Requested \in Nat /\ "bal" \in Wallets
  BY ImageJobAssumption DEF Wallets
<1>3. CASE RefundUpTo(Requested)
  <2>1. /\ held' \in [Wallets -> Nat] /\ back' \in [Wallets -> Nat]
        /\ \A w \in Wallets : back'[w] <= held'[w]
    BY <1>2, <1>3, RefundTyped DEF RefundFailed
  <2> QED BY <1>1, <2>1, ExecStepTyped DEF RefundFailed, TypeInv, TypeOK
<1>4. CASE UNCHANGED back
  BY <1>1, <1>4, ExecStepTyped DEF RefundFailed, TypeInv, TypeOK
<1> QED BY <1>3, <1>4 DEF RefundFailed

LEMMA SettleTyped == ASSUME TypeInv, NEW e \in Execs, Settle(e) PROVE TypeInv'
<1> DEFINE x == ex[e]
<1>1. x \in GoodExec /\ x.images \in Nat /\ Requested \in Nat
  BY ExecOf, ImageJobAssumption DEF GoodExec, Execution
<1>2. /\ [x EXCEPT !.pc = "checkSettled"] \in GoodExec
      /\ [x EXCEPT !.images = Requested, !.pc = "checkSettled"] \in GoodExec
  BY <1>1, MoveTyped, AnswerTyped DEF ExecPc
<1>3. \E r \in GoodExec : Step(e, r)
  BY <1>2 DEF Settle
<1>4. /\ held \in [Wallets -> Nat] /\ back \in [Wallets -> Nat]
      /\ \A w \in Wallets : back[w] <= held[w]
      /\ row \in Row /\ gen \in GenStatus
      /\ active \in [Instances -> Execs \cup {NoOne}]
  BY DEF TypeInv, TypeOK
<1>5. UNCHANGED <<row, gen, active, cx, rc, crashes>>
  BY DEF Settle
<1>6. \/ UNCHANGED ledger
      \/ /\ \E n \in Nat : RefundUpTo(n)
         /\ UNCHANGED held
      \/ /\ \E w \in Wallets, n \in Nat : held' = [held EXCEPT ![w] = @ + n]
         /\ UNCHANGED back
  <2>1. x.images < Requested => Missing(x.images) \in Nat
    BY <1>1 DEF Missing
  <2>2. x.images > Requested => x.images - Requested \in Nat
    BY <1>1
  <2> QED BY <2>1, <2>2 DEF Settle, ledger
<1>7. /\ held' \in [Wallets -> Nat] /\ back' \in [Wallets -> Nat]
      /\ \A w \in Wallets : back'[w] <= held'[w]
  <2>1. CASE UNCHANGED ledger
    BY <1>4, <2>1 DEF ledger
  <2>2. CASE (\E n \in Nat : RefundUpTo(n)) /\ UNCHANGED held
    <3>1. "bal" \in Wallets
      BY DEF Wallets
    <3> QED BY <2>2, <3>1, RefundTyped
  <2>3. CASE /\ \E w \in Wallets, n \in Nat : held' = [held EXCEPT ![w] = @ + n]
             /\ UNCHANGED back
    BY <1>4, <2>3
  <2> QED BY <1>6, <2>1, <2>2, <2>3
<1> QED BY <1>3, <1>4, <1>5, <1>7, ExecStepTyped

LEMMA CheckSettledTyped ==
  ASSUME TypeInv, NEW e \in Execs, CheckSettled(e) PROVE TypeInv'
<1>1. Cancelled(ex[e]) \in GoodExec
  BY ExecOf, CancelledTyped
<1>2. Ending(ex[e], "succeeded", "succeeded", TRUE) \in GoodExec
  BY ExecOf, EndingTyped DEF Status, GenStatus
<1>3. \E r \in GoodExec : Step(e, r)
  BY <1>1, <1>2 DEF CheckSettled
<1> QED BY <1>3, QuietStepTyped DEF CheckSettled

LEMMA RecordTyped == ASSUME TypeInv, NEW e \in Execs, Record(e) PROVE TypeInv'
<1>1. [ex[e] EXCEPT !.pc = "get", !.ret = "exit"] \in GoodExec
  BY ExecOf, GetTyped DEF ExecRet
<1>2. ex[e].note \in GenStatus \cup {"skip"}
  BY ExecOf DEF GoodExec, Execution
<1>3. gen' \in GenStatus
  BY <1>2 DEF Record, TypeInv, TypeOK
<1> QED BY <1>1, <1>3, ExecStepTyped DEF Record, ledger, TypeInv, TypeOK

LEMMA SaveGetTyped == ASSUME TypeInv, NEW e \in Execs, SaveGet(e) PROVE TypeInv'
<1>1. ex[e].ret \in ExecPc
  BY ExecOf DEF GoodExec, Execution, ExecRet, ExecPc
<1>2. [ex[e] EXCEPT !.mem = row.job, !.pc = ex[e].ret] \in GoodExec
  BY <1>1, ExecOf, CarryMoveTyped
<1>3. [ex[e] EXCEPT !.pc = "put"] \in GoodExec
  BY ExecOf, MoveTyped DEF ExecPc
<1>4. \E r \in GoodExec : Step(e, r)
  BY <1>2, <1>3 DEF SaveGet
<1> QED BY <1>4, QuietStepTyped DEF SaveGet

LEMMA SavePutTyped == ASSUME TypeInv, NEW e \in Execs, SavePut(e) PROVE TypeInv'
<1>1. ex[e].ret \in ExecPc /\ ex[e].mem \in Job
  BY ExecOf DEF GoodExec, Execution, ExecRet, ExecPc
<1>2. Saved(ex[e].mem) \in Row /\ Prepared(ex[e].mem) \in Job
  BY <1>1, SavedRow
<1>3. [ex[e] EXCEPT !.mem = Prepared(ex[e].mem), !.pc = ex[e].ret] \in GoodExec
  BY <1>1, <1>2, ExecOf, CarryMoveTyped
<1> QED BY <1>2, <1>3, ExecStepTyped DEF SavePut, ledger, TypeInv, TypeOK

LEMMA NoJobTyped == NoJob \in Job
BY DEF NoJob, Job, Status, Stage

LEMMA OverTyped ==
  ASSUME NEW x \in GoodExec, NEW p \in ExecPc
  PROVE  Over(x, p) \in GoodExec
<1>1. x \in Execution
  BY DEF GoodExec
<1>2. Over(x, p) \in Execution
  BY <1>1, NoJobTyped DEF Over, Execution, ExecRet
<1>3. Over(x, p).sub = 0 /\ 0 <= Requested
  BY <1>1, ImageJobAssumption DEF Over, Execution
<1> QED BY <1>2, <1>3 DEF GoodExec

LEMMA ClaimedTyped ==
  ASSUME NEW x \in GoodExec, NEW i \in Instances, NEW j \in Job
  PROVE  [x EXCEPT !.pc = "start", !.host = i, !.mem = j] \in GoodExec
BY DEF GoodExec, Execution, ExecPc

LEMMA ExitTyped == ASSUME TypeInv, NEW e \in Execs, Exit(e) PROVE TypeInv'
<1>1. Over(ex[e], "done") \in GoodExec
  BY ExecOf, OverTyped DEF ExecPc
<1>2. active' \in [Instances -> Execs \cup {NoOne}]
  BY DEF Exit, TypeInv, TypeOK
<1> QED BY <1>1, <1>2, ExecStepTyped DEF Exit, ledger, TypeInv, TypeOK

LEMMA ClaimTyped ==
  ASSUME TypeInv, NEW e \in Execs, NEW i \in Instances, Claim(e, i)
  PROVE  TypeInv'
<1> DEFINE r == [ex[e] EXCEPT !.pc = "start", !.host = i, !.mem = NoJob]
<1>1. r \in GoodExec
  BY ExecOf, ClaimedTyped, NoJobTyped
<1>2. [row.job EXCEPT !.stage = "claimed", !.lease = "ahead"] \in Job
  BY ExecOf DEF Job, Stage
<1>3. row' \in Row
  BY <1>2 DEF Claim, Row
<1> QED BY <1>1, <1>3, ExecStepTyped DEF Claim, ledger, TypeInv, TypeOK

\* Every step of an execution keeps the types.
LEMMA ExecTypes ==
  ASSUME TypeInv, NEW e \in Execs, ExecStep(e)
  PROVE  TypeInv'
BY StartTyped, PrecheckTyped, PlaceQueuedTyped, AdmissionTyped,
   SaveRunningTyped, CheckRunningTyped, PlaceRunningTyped, ReserveSubTyped,
   ReserveBalTyped, ReserveReplyTyped, UndoSubTyped, CheckReservedTyped,
   CheckDispatchTyped, RefundCancelTyped, UpstreamTyped, CallTyped, AfterTyped,
   RefundFailedTyped, SettleTyped, CheckSettledTyped, RecordTyped,
   SaveGetTyped, SavePutTyped, ExitTyped
DEF ExecStep

\* A step of one cancel request.
LEMMA CancelMoveTyped ==
  ASSUME TypeInv, NEW c \in Cancels, NEW r \in Cancellation, CancelMove(c, r),
         row' \in Row, gen' \in GenStatus, UNCHANGED <<active, rc, crashes>>,
         held' \in [Wallets -> Nat], back' \in [Wallets -> Nat],
         \A w \in Wallets : back'[w] <= held'[w],
         ex' \in [Execs -> GoodExec]
  PROVE  TypeInv'
BY ExecTyped
DEF CancelMove, TypeInv, TypeOK, SubWithinPrice, GoodExec

LEMMA CancelOf ==
  ASSUME TypeInv, NEW c \in Cancels
  PROVE  /\ cx[c] \in Cancellation /\ cx[c].item \in Job
         /\ row \in Row /\ row.job \in Job /\ gen \in GenStatus
         /\ held \in [Wallets -> Nat] /\ back \in [Wallets -> Nat]
         /\ \A w \in Wallets : back[w] <= held[w]
         /\ ex \in [Execs -> GoodExec]
BY ExecTyped DEF Row, Cancellation

LEMMA CancelRecordTyped ==
  ASSUME NEW r \in Cancellation, NEW j \in Job,
         NEW p \in {"get", "put", "refund", "refundSub", "snapshot", "signal",
                    "final", "mark", "done"}
  PROVE  /\ [r EXCEPT !.pc = p] \in Cancellation
         /\ [r EXCEPT !.item = j, !.pc = p] \in Cancellation
BY DEF Cancellation

LEMMA CancelBeforeTyped ==
  ASSUME TypeInv, NEW c \in Cancels, NEW i \in Instances, CancelBefore(c, i)
  PROVE  TypeInv'
<1>1. BeforeUpstream(row.job) \in BOOLEAN
  BY DEF BeforeUpstream
<1>2. \A r \in Cancellation, b \in BOOLEAN :
        [r EXCEPT !.pc = "get", !.host = i, !.early = b] \in Cancellation
  BY DEF Cancellation
<1>3. [cx[c] EXCEPT !.pc = "get", !.host = i, !.early = BeforeUpstream(row.job)]
        \in Cancellation
  BY <1>1, <1>2, CancelOf
<1> QED BY <1>3, CancelOf, CancelMoveTyped DEF CancelBefore, ledger

LEMMA CancelGetTyped ==
  ASSUME TypeInv, NEW c \in Cancels, CancelGet(c)
  PROVE  TypeInv'
<1>1. /\ [row.job EXCEPT !.status = "cancelled", !.stage = "ended"] \in Job
      /\ [row.job EXCEPT !.status = "cancel_requested",
                         !.stage = "cancel_requested"] \in Job
  BY CancelOf DEF Job, Status, Stage
<1>2. \A j \in Job : /\ [cx[c] EXCEPT !.item = j, !.pc = "refund"] \in Cancellation
                     /\ [cx[c] EXCEPT !.item = j, !.pc = "put"] \in Cancellation
  BY CancelOf, CancelRecordTyped
<1>3. \E r \in Cancellation : CancelMove(c, r)
  BY <1>1, <1>2, CancelOf DEF CancelGet
<1> QED BY <1>3, CancelOf, CancelMoveTyped DEF CancelGet, ledger

LEMMA CancelSaveTyped ==
  ASSUME TypeInv, NEW c \in Cancels,
         CancelPut(c) \/ CancelSnapshot(c) \/ CancelFinal(c)
  PROVE  TypeInv'
<1>1. Saved(cx[c].item) \in Row /\ Prepared(cx[c].item) \in Job
  BY CancelOf, SavedRow
<1>2. [cx[c] EXCEPT !.item = Prepared(cx[c].item), !.pc = "refund"] \in Cancellation
  BY <1>1, CancelOf, CancelRecordTyped
<1>3. [cx[c] EXCEPT !.pc = "signal"] \in Cancellation
      /\ [cx[c] EXCEPT !.pc = "mark"] \in Cancellation
  BY CancelOf, CancelRecordTyped
<1>4. \E r \in Cancellation : CancelMove(c, r)
  BY <1>2, <1>3 DEF CancelPut, CancelSnapshot, CancelFinal
<1>5. row' \in Row /\ UNCHANGED <<gen, ledger, ex, active, rc, crashes>>
  BY <1>1 DEF CancelPut, CancelSnapshot, CancelFinal
<1> QED BY <1>4, <1>5, CancelOf, CancelMoveTyped DEF ledger

LEMMA CancelRefundsTyped ==
  ASSUME TypeInv, NEW c \in Cancels, CancelRefund(c) \/ CancelRefundSub(c)
  PROVE  TypeInv'
<1>1. /\ [cx[c] EXCEPT !.pc = "refundSub"] \in Cancellation
      /\ [cx[c] EXCEPT !.pc = "signal"] \in Cancellation
      /\ [cx[c] EXCEPT !.pc = "snapshot"] \in Cancellation
  BY CancelOf, CancelRecordTyped
<1>2. \E r \in Cancellation : CancelMove(c, r)
  BY <1>1 DEF CancelRefund, CancelRefundSub
<1>3. UNCHANGED <<row, gen, held, ex, active, rc, crashes>>
  BY DEF CancelRefund, CancelRefundSub
<1>4. (\E w \in Wallets : RefundAllOf(w)) \/ UNCHANGED back
  BY DEF CancelRefund, CancelRefundSub, Wallets
<1>5. /\ held' \in [Wallets -> Nat] /\ back' \in [Wallets -> Nat]
      /\ \A w \in Wallets : back'[w] <= held'[w]
  <2>1. CASE UNCHANGED back
    BY <1>3, <2>1, CancelOf
  <2>2. CASE \E w \in Wallets : RefundAllOf(w)
    BY <1>3, <2>2, CancelOf DEF RefundAllOf
  <2> QED BY <1>4, <2>1, <2>2
<1> QED BY <1>2, <1>3, <1>5, CancelOf, CancelMoveTyped

LEMMA CancelSignalTyped ==
  ASSUME TypeInv, NEW c \in Cancels, CancelSignal(c)
  PROVE  TypeInv'
<1> DEFINE j == [cx[c].item EXCEPT !.status = "cancelled", !.stage = "ended"]
<1>1. j \in Job
  BY CancelOf DEF Job, Status, Stage
<1>2. [cx[c] EXCEPT !.item.status = "cancelled", !.item.stage = "ended",
                    !.pc = "final"] = [cx[c] EXCEPT !.item = j, !.pc = "final"]
  BY CancelOf DEF Cancellation, Job
<1>3. [cx[c] EXCEPT !.item = j, !.pc = "final"] \in Cancellation
  BY <1>1, CancelOf, CancelRecordTyped
<1>4. [cx[c] EXCEPT !.pc = "mark"] \in Cancellation
  BY CancelOf, CancelRecordTyped
<1>5. \E r \in Cancellation : CancelMove(c, r)
  BY <1>2, <1>3, <1>4 DEF CancelSignal
<1>6. \A x \in GoodExec : [x EXCEPT !.live = FALSE] \in GoodExec
  BY DEF GoodExec, Execution
<1>7. ex' \in [Execs -> GoodExec]
  BY <1>6, CancelOf DEF CancelSignal
<1> QED BY <1>5, <1>7, CancelOf, CancelMoveTyped DEF CancelSignal, ledger

LEMMA AnsweredTyped ==
  ASSUME NEW r \in Cancellation
  PROVE  Answered(r) \in Cancellation
<1>1. [r.item EXCEPT !.lease = "none"] \in Job
  BY DEF Cancellation, Job
<1>2. Answered(r) = [r EXCEPT !.item = [r.item EXCEPT !.lease = "none"],
                              !.pc = "done"]
  BY DEF Answered, Cancellation, Job
<1> QED BY <1>1, <1>2, CancelRecordTyped

LEMMA CancelMarkTyped ==
  ASSUME TypeInv, NEW c \in Cancels, CancelMark(c)
  PROVE  TypeInv'
<1>1. Answered(cx[c]) \in Cancellation
  BY CancelOf, AnsweredTyped
<1>2. gen' \in GenStatus
  BY CancelOf DEF CancelMark, MarkGeneration, GenStatus
<1> QED BY <1>1, <1>2, CancelOf, CancelMoveTyped DEF CancelMark, ledger

\* Every step of a cancel request keeps the types.
LEMMA CancelTypes ==
  ASSUME TypeInv, NEW c \in Cancels, CancelStep(c)
  PROVE  TypeInv'
BY CancelGetTyped, CancelSaveTyped, CancelRefundsTyped, CancelSignalTyped,
   CancelMarkTyped
DEF CancelStep

\* Every step of the reconciler keeps the types.
LEMMA ReconcileTypes ==
  ASSUME TypeInv, NEW i \in Instances, ReconcileList(i) \/ ReconcileStep(i)
  PROVE  TypeInv'
<1>1. /\ row \in Row /\ row.job \in Job /\ gen \in GenStatus
      /\ held \in [Wallets -> Nat] /\ back \in [Wallets -> Nat]
      /\ \A w \in Wallets : back[w] <= held[w]
      /\ rc \in [Instances -> Reconciliation] /\ rc[i] \in Reconciliation
  BY DEF TypeInv, TypeOK, Row
<1>2. rc' \in [Instances -> Reconciliation]
  <2>1. ASSUME NEW r \in Reconciliation, PassMove(i, r)
        PROVE  rc' \in [Instances -> Reconciliation]
    BY <1>1, <2>1 DEF PassMove
  <2>2. CASE ReconcileList(i)
    <3>1. RefundsStale(row.job) \in BOOLEAN /\ StaleFinal(row.job) \in {"failed", "cancelled"}
      BY DEF RefundsStale, StaleFinal
    <3>2. [pc |-> "refund", refunds |-> RefundsStale(row.job),
           final |-> StaleFinal(row.job)] \in Reconciliation
      BY <3>1 DEF Reconciliation
    <3>3. [Reconciler EXCEPT !.pc = "update"] \in Reconciliation
      BY DEF Reconciler, Reconciliation
    <3> QED BY <2>1, <2>2, <3>2, <3>3 DEF ReconcileList
  <2>3. CASE ReconcileStep(i)
    <3>1. /\ Reconciler \in Reconciliation
          /\ \A p \in {"refundSub", "mark", "update"} :
               [rc[i] EXCEPT !.pc = p] \in Reconciliation
      BY <1>1 DEF Reconciler, Reconciliation
    <3> QED BY <2>1, <2>3, <3>1
      DEF ReconcileStep, ReconcileRefund, ReconcileRefundSub, ReconcileMark, ReconcileUpdate
  <2> QED BY <2>2, <2>3
<1>3. CASE ReconcileList(i)
  BY <1>2, <1>3 DEF ReconcileList, ledger, TypeInv, TypeOK, SubWithinPrice
<1>4. CASE ReconcileRefund(i) \/ ReconcileRefundSub(i)
  <2>1. (\E w \in Wallets : RefundAllOf(w)) \/ UNCHANGED back
    BY <1>4 DEF ReconcileRefund, ReconcileRefundSub, Wallets
  <2>2. back' \in [Wallets -> Nat] /\ \A w \in Wallets : back'[w] <= held[w]
    BY <1>1, <2>1 DEF RefundAllOf
  <2> QED BY <1>2, <1>4, <2>2
    DEF ReconcileRefund, ReconcileRefundSub, TypeInv, TypeOK, SubWithinPrice
<1>5. CASE ReconcileMark(i)
  <2>1. rc[i].final \in GenStatus
    BY <1>1 DEF Reconciliation, GenStatus
  <2>2. gen' \in GenStatus
    BY <1>1, <1>5, <2>1 DEF ReconcileMark, MarkGeneration
  <2> QED BY <1>2, <1>5, <2>2
    DEF ReconcileMark, ledger, TypeInv, TypeOK, SubWithinPrice
<1>6. CASE ReconcileUpdate(i)
  <2>1. StaleFinal(row.job) \in Status
    BY DEF StaleFinal, Status
  <2>2. [row.job EXCEPT !.status = StaleFinal(row.job), !.stage = "ended",
                        !.lease = "none"] \in Job
    BY <1>1, <2>1 DEF Job, Stage
  <2>3. row' \in Row
    BY <1>1, <1>6, <2>2 DEF ReconcileUpdate, Row
  <2> QED BY <1>2, <1>6, <2>3
    DEF ReconcileUpdate, ledger, TypeInv, TypeOK, SubWithinPrice
<1> QED BY <1>3, <1>4, <1>5, <1>6 DEF ReconcileStep

LEMMA BehindTyped ==
  ASSUME NEW j \in Job
  PROVE  [j EXCEPT !.lease = Behind(@)] \in Job
<1>1. Behind(j.lease) \in {"none", "ahead", "behind"}
  BY DEF Behind, Job
<1> QED BY <1>1 DEF Job

LEMMA ForgottenTyped ==
  ASSUME TypeInv
  PROVE  Forgotten \in [Execs -> GoodExec]
<1>1. ASSUME NEW x \in GoodExec
      PROVE  [x EXCEPT !.mem.lease = Behind(@)] \in GoodExec
  <2>1. x.mem \in Job
    BY DEF GoodExec, Execution
  <2>2. [x EXCEPT !.mem.lease = Behind(@)]
          = [x EXCEPT !.mem = [x.mem EXCEPT !.lease = Behind(@)]]
    BY <2>1 DEF GoodExec, Execution, Job
  <2> QED BY <2>1, <2>2, BehindTyped, CarryTyped
<1> QED BY <1>1, ExecOf DEF Forgotten

\* Heartbeats, the passing of time and crashes keep the types.
LEMMA TimeTypes ==
  ASSUME TypeInv, Heartbeat \/ LeaseOver \/ RowAges
  PROVE  TypeInv'
<1>1. row \in Row /\ row.job \in Job
  BY DEF TypeInv, TypeOK, Row
<1>2. /\ [row.job EXCEPT !.lease = "ahead"] \in Job
      /\ [row.job EXCEPT !.lease = Behind(@)] \in Job
  BY <1>1, BehindTyped DEF Job
<1>3. \A j \in Job, d \in {"no", "due"} : [job |-> j, due |-> d] \in Row
  BY DEF Row
<1>4. row' \in Row
  <2>1. row.due \in {"no", "due"}
    BY <1>1 DEF Row
  <2>2. CASE Heartbeat
    BY <1>2, <1>3, <2>2 DEF Heartbeat
  <2>3. CASE LeaseOver
    BY <1>2, <1>3, <2>1, <2>3 DEF LeaseOver
  <2>4. CASE RowAges
    BY <1>2, <1>3, <2>4 DEF RowAges
  <2> QED BY <2>2, <2>3, <2>4
<1>5. ex' \in [Execs -> GoodExec]
  BY ForgottenTyped, ExecTyped DEF Heartbeat, LeaseOver, RowAges
<1>6. UNCHANGED <<gen, held, back, active, cx, rc, crashes>>
  BY DEF Heartbeat, LeaseOver, RowAges, ledger
<1> QED BY <1>4, <1>5, <1>6, ExecTyped
  DEF TypeInv, TypeOK, SubWithinPrice, GoodExec

LEMMA CrashTypes ==
  ASSUME TypeInv, NEW i \in Instances, Crash(i)
  PROVE  TypeInv'
<1>1. ex' \in [Execs -> GoodExec]
  <2>1. \A e \in Execs : Over(ex[e], "dead") \in GoodExec /\ ex[e] \in GoodExec
    BY ExecOf, OverTyped DEF ExecPc
  <2> QED BY <2>1 DEF Crash
<1>2. cx' \in [Cancels -> Cancellation]
  <2>1. \A c \in Cancels : Answered(cx[c]) \in Cancellation
                           /\ cx[c] \in Cancellation
    BY CancelOf, AnsweredTyped
  <2> QED BY <2>1 DEF Crash
<1>3. active' \in [Instances -> Execs \cup {NoOne}]
  BY DEF Crash, TypeInv, TypeOK
<1>4. crashes' \in 0 .. MaxCrashes
  BY ImageJobAssumption DEF Crash, TypeInv, TypeOK
<1>5. UNCHANGED <<row, gen, held, back>> /\ rc' \in [Instances -> Reconciliation]
  BY DEF Crash, PassMove, Reconciler, Reconciliation, ledger, TypeInv, TypeOK
<1> QED BY <1>1, <1>2, <1>3, <1>4, <1>5, ExecTyped
  DEF TypeInv, TypeOK, SubWithinPrice, GoodExec

LEMMA InitTypes == Init => TypeInv
<1> SUFFICES ASSUME Init PROVE TypeInv
  OBVIOUS
<1>1. Idle \in Execution /\ Idle.sub <= Requested
  BY NoJobTyped, ImageJobAssumption
  DEF Idle, Execution, ExecPc, ExecRet
<1>2. ex \in [Execs -> GoodExec]
  BY <1>1 DEF Init, GoodExec
<1>3. cx \in [Cancels -> Cancellation]
  BY NoJobTyped DEF Init, NewCancel, Cancellation
<1>4. row \in Row /\ gen \in GenStatus /\ rc \in [Instances -> Reconciliation]
  BY NoJobTyped DEF Init, Row, GenStatus, Reconciler, Reconciliation
<1>5. crashes \in 0 .. MaxCrashes
  BY ImageJobAssumption DEF Init
<1> QED BY <1>2, <1>3, <1>4, <1>5, ExecTyped DEF Init

LEMMA NextTypes == TypeInv /\ [Next]_vars => TypeInv'
<1> SUFFICES ASSUME TypeInv, [Next]_vars PROVE TypeInv'
  OBVIOUS
<1>1. CASE Claims
  BY <1>1, ClaimTyped DEF Claims
<1>2. CASE \E e \in Execs : ExecStep(e)
  BY <1>2, ExecTypes
<1>3. CASE CancelArrives
  BY <1>3, CancelBeforeTyped DEF CancelArrives
<1>4. CASE \E c \in Cancels : CancelStep(c)
  BY <1>4, CancelTypes
<1>5. CASE \E i \in Instances : ReconcileList(i) \/ ReconcileStep(i)
  BY <1>5, ReconcileTypes
<1>6. CASE Heartbeat \/ LeaseOver \/ RowAges
  BY <1>6, TimeTypes
<1>7. CASE \E i \in Instances : Crash(i)
  BY <1>7, CrashTypes
<1>8. CASE UNCHANGED vars
  BY <1>8 DEF vars, TypeInv, TypeOK, SubWithinPrice
<1> QED BY <1>1, <1>2, <1>3, <1>4, <1>5, <1>6, <1>7, <1>8 DEF Next, Rest

LEMMA TypesHold == Spec => []TypeInv
<1> QED BY InitTypes, NextTypes, PTL DEF Spec

\* Rows, executions, requests and ledger entries are well formed, and no
\* wallet ever gets back more than was reserved from it
\* (executeProviderImageGenerate, handleCancelBusinessImageJob,
\* reconcileStaleBusinessImageJobs).
THEOREM TypeCorrect == Spec => []TypeOK
<1>1. TypeInv => TypeOK
  BY DEF TypeInv
<1> QED BY <1>1, TypesHold, PTL

-----------------------------------------------------------------------------
(* The mark "sent upstream".  Copies of the row travel: executions and     *)
(* cancel requests read it, change it and write it back later.  As long as *)
(* nobody has called the provider no copy is marked; and an execution with *)
(* images to deliver has called.                                           *)

Clean(j) == ~HasUpstreamSent(j)

Earned(x) == x.images > 0 \/ x.pc \in {"settle", "checkSettled"} => x.started

CopiesClean ==
  /\ Clean(row.job)
  /\ \A e \in Execs : Clean(ex[e].mem)
  /\ \A c \in Cancels : Clean(cx[c].item)

SentInv == TypeInv /\ (\A e \in Execs : Earned(ex[e])) /\ (Called \/ CopiesClean)

LEMMA CleanJobs ==
  ASSUME NEW j \in Job, Clean(j)
  PROVE  /\ j.sent = FALSE /\ j.stage # "upstream" /\ j.status # "succeeded"
         /\ Clean(Prepared(j))
         /\ ~row.job.sent => Clean(Saved(j).job)
<1>1. j.sent = FALSE /\ j.stage # "upstream" /\ j.status # "succeeded"
  BY DEF Clean, HasUpstreamSent, Job
<1>2. /\ Prepared(j).sent = FALSE /\ Prepared(j).stage = j.stage
      /\ Prepared(j).status = j.status /\ Prepared(j) \in [status: Status,
           stage: Stage, sent: BOOLEAN, lease: {"none", "ahead", "behind"}]
  BY <1>1 DEF Prepared, HasUpstreamSent, Job
<1> QED BY <1>1, <1>2 DEF Clean, HasUpstreamSent, Saved

LEMMA EndingFacts ==
  ASSUME NEW x \in GoodExec, NEW s, NEW n, NEW b
  PROVE  /\ Ending(x, s, n, b).started = x.started
         /\ Ending(x, s, n, b).images = x.images
         /\ Ending(x, s, n, b).pc = "record"
         /\ Ending(x, s, n, b).mem.status = s
         /\ Ending(x, s, n, b).mem.stage = "ended"
         /\ Ending(x, s, n, b).mem.sent = x.mem.sent
BY DEF Ending, GoodExec, Execution, Job

\* What a step of an execution keeps: what it has called, what it has
\* earned, and the cleanness of the row and of its own copy.
Keeps(e) ==
  /\ \A d \in Execs \ {e} : ex'[d] = ex[d]
  /\ ex[e].started => ex'[e].started
  /\ Earned(ex[e]) => Earned(ex'[e])
  /\ ~ex'[e].started /\ Earned(ex[e]) /\ Clean(row.job) /\ Clean(ex[e].mem)
       => Clean(row'.job) /\ Clean(ex'[e].mem)

\* A record that has called and earned no more than x, and whose copy is
\* clean when that of x and the row are.
Plain(x, r) ==
  /\ r.started = x.started /\ r.images = x.images
  /\ r.pc \notin {"settle", "checkSettled"}
  /\ Clean(row.job) /\ Clean(x.mem) => Clean(r.mem)

LEMMA PlainStep ==
  ASSUME TypeInv, NEW e \in Execs, NEW r, Step(e, r), Plain(ex[e], r),
         UNCHANGED row
  PROVE  Keeps(e)
BY ExecTyped DEF Step, Plain, Keeps, Earned

LEMMA PlainMove ==
  ASSUME NEW x \in GoodExec, NEW p \in ExecPc \ {"settle", "checkSettled"}
  PROVE  Plain(x, [x EXCEPT !.pc = p])
BY DEF Plain, GoodExec, Execution

LEMMA PlainGet ==
  ASSUME NEW x \in GoodExec, NEW q
  PROVE  Plain(x, [x EXCEPT !.pc = "get", !.ret = q])
BY DEF Plain, GoodExec, Execution

LEMMA PlainSave ==
  ASSUME NEW x \in GoodExec, NEW q, NEW j,
         Clean(row.job) /\ Clean(x.mem) => Clean(j)
  PROVE  Plain(x, [x EXCEPT !.mem = j, !.pc = "get", !.ret = q])
BY DEF Plain, GoodExec, Execution

LEMMA PlainCarry ==
  ASSUME NEW x \in GoodExec, NEW p \in ExecPc \ {"settle", "checkSettled"}
  PROVE  Plain(x, [x EXCEPT !.mem = row.job, !.pc = p])
BY DEF Plain, GoodExec, Execution

LEMMA PlainEnding ==
  ASSUME NEW x \in GoodExec, NEW s, s # "succeeded", NEW n, NEW b
  PROVE  Plain(x, Ending(x, s, n, b))
<1>1. x.mem \in Job
  BY DEF GoodExec, Execution
<1>2. Clean(x.mem) => Clean(Ending(x, s, n, b).mem)
  BY <1>1, EndingFacts DEF Clean, HasUpstreamSent
<1> QED BY <1>2, EndingFacts DEF Plain

LEMMA PlainCancelled ==
  ASSUME TypeInv, NEW x \in GoodExec
  PROVE  Plain(x, Cancelled(x)) /\ Plain(x, Cancelled([x EXCEPT !.mem = row.job]))
<1> DEFINE y == [x EXCEPT !.mem = row.job]
<1>1. Plain(x, Cancelled(x))
  BY PlainEnding DEF Cancelled
<1>2. y \in GoodExec
  BY CarryTyped DEF TypeInv, TypeOK, Row
<1>3. Plain(y, Cancelled(y))
  BY <1>2, PlainEnding DEF Cancelled
<1>4. y.started = x.started /\ y.images = x.images /\ y.mem = row.job
  BY DEF GoodExec, Execution
<1> HIDE DEF y
<1>5. Plain(x, Cancelled(y))
  BY <1>3, <1>4 DEF Plain
<1> QED BY <1>1, <1>5 DEF y

LEMMA StartKeeps == ASSUME TypeInv, NEW e \in Execs, Start(e) PROVE Keeps(e)
<1>1. Plain(ex[e], [ex[e] EXCEPT !.pc = "precheck"])
  BY ExecOf, PlainMove DEF ExecPc
<1>2. \A n : Plain(ex[e], Ending(ex[e], "failed", n, FALSE))
  BY ExecOf, PlainEnding
<1>3. \E r : Step(e, r) /\ Plain(ex[e], r)
  BY <1>1, <1>2 DEF Start
<1> QED BY <1>3, PlainStep DEF Start

LEMMA PrecheckKeeps == ASSUME TypeInv, NEW e \in Execs, Precheck(e) PROVE Keeps(e)
<1> DEFINE j == [ex[e].mem EXCEPT !.status = "queued", !.stage = "queued"]
<1>1. Clean(ex[e].mem) => Clean(j)
  BY ExecOf DEF GoodExec, Execution, Job, Clean, HasUpstreamSent
<1>2. Plain(ex[e], Cancelled(ex[e]))
      /\ Plain(ex[e], Cancelled([ex[e] EXCEPT !.mem = row.job]))
  BY ExecOf, PlainCancelled
<1>3. Plain(ex[e], [ex[e] EXCEPT !.mem = j, !.pc = "get", !.ret = "placeQueued"])
  BY <1>1, ExecOf, PlainSave
<1>4. \E r : Step(e, r) /\ Plain(ex[e], r)
  BY <1>2, <1>3 DEF Precheck, SaveThen
<1> QED BY <1>4, PlainStep DEF Precheck

LEMMA AdmissionKeeps == ASSUME TypeInv, NEW e \in Execs, Admission(e) PROVE Keeps(e)
<1>1. Plain(ex[e], [ex[e] EXCEPT !.pc = "saveRunning"])
  BY ExecOf, PlainMove DEF ExecPc
<1>2. Plain(ex[e], Ending(ex[e], "failed", "failed", FALSE))
  BY ExecOf, PlainEnding
<1>3. Plain(ex[e], Cancelled(ex[e]))
  BY ExecOf, PlainCancelled
<1>4. \E r : Step(e, r) /\ Plain(ex[e], r)
  BY <1>1, <1>2, <1>3 DEF Admission
<1> QED BY <1>4, PlainStep DEF Admission

LEMMA PlaceKeeps ==
  ASSUME TypeInv, NEW e \in Execs, PlaceQueued(e) \/ PlaceRunning(e)
  PROVE  Keeps(e)
<1>1. Plain(ex[e], [ex[e] EXCEPT !.pc = "admission"])
      /\ Plain(ex[e], [ex[e] EXCEPT !.pc = "reserveSub"])
  BY ExecOf, PlainMove DEF ExecPc
<1> QED BY <1>1, PlainStep DEF PlaceQueued, PlaceRunning

LEMMA CheckKeeps ==
  ASSUME TypeInv, NEW e \in Execs,
         CheckRunning(e) \/ CheckReserved(e) \/ CheckDispatch(e)
  PROVE  Keeps(e)
<1>1. Plain(ex[e], Cancelled([ex[e] EXCEPT !.mem = row.job]))
  BY ExecOf, PlainCancelled
<1>2. Plain(ex[e], [ex[e] EXCEPT !.mem = row.job, !.pc = "refundCancel"])
  BY ExecOf, PlainCarry DEF ExecPc
<1>3. Plain(ex[e], [ex[e] EXCEPT !.pc = "placeRunning"])
      /\ Plain(ex[e], [ex[e] EXCEPT !.pc = "upstream"])
  BY ExecOf, PlainMove DEF ExecPc
<1>4. Clean(ex[e].mem) => Clean(Dispatching(ex[e].mem))
  BY ExecOf DEF GoodExec, Execution, Job, Clean, HasUpstreamSent, Dispatching
<1>5. Plain(ex[e], [ex[e] EXCEPT !.mem = Dispatching(ex[e].mem), !.pc = "get",
                                 !.ret = "checkDispatch"])
  BY <1>4, ExecOf, PlainSave
<1>6. \E r : Step(e, r) /\ Plain(ex[e], r)
  BY <1>1, <1>2, <1>3, <1>5
  DEF CheckRunning, CheckReserved, CheckDispatch, SaveThen
<1> QED BY <1>6, PlainStep DEF CheckRunning, CheckReserved, CheckDispatch

LEMMA ReserveKeeps ==
  ASSUME TypeInv, NEW e \in Execs,
         ReserveSub(e) \/ ReserveBal(e) \/ ReserveReply(e)
  PROVE  Keeps(e)
<1> DEFINE x == ex[e]
<1>1. ASSUME NEW y \in GoodExec, NEW s
      PROVE  /\ Plain(y, [y EXCEPT !.sub = s, !.pc = "get", !.ret = "checkReserved"])
             /\ Plain(y, [y EXCEPT !.sub = s, !.pc = "reserveBal"])
             /\ Plain(y, [y EXCEPT !.pc = "undoSub", !.unheard = TRUE])
  BY DEF Plain, GoodExec, Execution
<1>2. x \in GoodExec
  BY ExecOf
<1>3. Plain(x, Ending(x, "failed", "failed", TRUE))
  BY <1>2, PlainEnding
<1>4. Plain(x, [x EXCEPT !.pc = "reserveReply"])
      /\ Plain(x, [x EXCEPT !.pc = "undoSub"])
  BY <1>2, PlainMove DEF ExecPc
<1>5. Plain(x, [x EXCEPT !.pc = "get", !.ret = "checkReserved"])
  BY <1>2, PlainGet
<1>6. \E r : Step(e, r) /\ Plain(x, r)
  BY <1>1, <1>2, <1>3, <1>4, <1>5 DEF ReserveSub, ReserveBal, ReserveReply
<1> QED BY <1>6, PlainStep DEF ReserveSub, ReserveBal, ReserveReply

LEMMA RefundKeeps ==
  ASSUME TypeInv, NEW e \in Execs,
         UndoSub(e) \/ RefundCancel(e) \/ RefundFailed(e)
  PROVE  Keeps(e)
<1>1. Plain(ex[e], Ending(ex[e], "failed", "failed", TRUE))
  BY ExecOf, PlainEnding
<1>2. Plain(ex[e], Cancelled(ex[e]))
  BY ExecOf, PlainCancelled
<1>3. \E r : Step(e, r) /\ Plain(ex[e], r)
  BY <1>1, <1>2 DEF UndoSub, RefundCancel, RefundFailed
<1> QED BY <1>3, PlainStep DEF UndoSub, RefundCancel, RefundFailed

LEMMA UpstreamKeeps == ASSUME TypeInv, NEW e \in Execs, Upstream(e) PROVE Keeps(e)
<1>1. CASE Step(e, [ex[e] EXCEPT !.pc = "call"])
  <2>1. Plain(ex[e], [ex[e] EXCEPT !.pc = "call"])
    BY ExecOf, PlainMove DEF ExecPc
  <2> QED BY <1>1, <2>1, PlainStep DEF Upstream
<1>2. CASE Step(e, [ex[e] EXCEPT
             !.started = TRUE, !.mem.sent = TRUE, !.mem.stage = "upstream",
             !.pc = "get", !.ret = "call"])
  <2>1. ex'[e].started = TRUE /\ \A d \in Execs \ {e} : ex'[d] = ex[d]
    BY <1>2, ExecTyped, ExecOf DEF Step, GoodExec, Execution
  <2> QED BY <2>1 DEF Keeps, Earned
<1> QED BY <1>1, <1>2 DEF Upstream

LEMMA CallKeeps == ASSUME TypeInv, NEW e \in Execs, Call(e) PROVE Keeps(e)
<1> DEFINE x == ex[e]
<1>1. x \in GoodExec
  BY ExecOf
<1>2. CASE x.started /\ \E n \in 1 .. Requested + 1 :
             Step(e, [x EXCEPT !.images = n, !.pc = "after"])
  <2>1. ex'[e].started = TRUE /\ \A d \in Execs \ {e} : ex'[d] = ex[d]
    BY <1>1, <1>2, ExecTyped DEF Step, GoodExec, Execution
  <2> QED BY <2>1 DEF Keeps, Earned
<1>3. CASE Step(e, [x EXCEPT !.images = 0, !.pc = "after"])
  <2> DEFINE r == [x EXCEPT !.images = 0, !.pc = "after"]
  <2>1. r.started = x.started /\ r.images = 0 /\ r.pc = "after" /\ r.mem = x.mem
    BY <1>1 DEF GoodExec, Execution
  <2>2. ex'[e] = r /\ \A d \in Execs \ {e} : ex'[d] = ex[d]
    BY <1>3, ExecTyped DEF Step
  <2>3. UNCHANGED row
    BY DEF Call
  <2> HIDE DEF r
  <2> QED BY <2>1, <2>2, <2>3 DEF Keeps, Earned
<1>4. CASE Step(e, [x EXCEPT !.failover = TRUE, !.pc = "get", !.ret = "upstream"])
  <2>1. Plain(x, [x EXCEPT !.failover = TRUE, !.pc = "get", !.ret = "upstream"])
    BY <1>1 DEF Plain, GoodExec, Execution
  <2> QED BY <1>4, <2>1, PlainStep DEF Call
<1> QED BY <1>2, <1>3, <1>4 DEF Call

LEMMA AfterKeeps == ASSUME TypeInv, NEW e \in Execs, After(e) PROVE Keeps(e)
<1> DEFINE x == ex[e]
           y == [x EXCEPT !.mem = row.job]
<1>1. x \in GoodExec /\ y \in GoodExec
  BY ExecOf, CarryTyped
<1>2. CASE x.images > 0 /\ Step(e, [x EXCEPT !.pc = "settle"])
  <2>1. ex'[e] = [x EXCEPT !.pc = "settle"]
        /\ \A d \in Execs \ {e} : ex'[d] = ex[d]
    BY <1>2, ExecTyped DEF Step
  <2>2. ex'[e].started = x.started /\ ex'[e].images = x.images
        /\ ex'[e].mem = x.mem
    BY <1>1, <2>1 DEF GoodExec, Execution
  <2> QED BY <1>2, <2>1, <2>2 DEF Keeps, Earned, After
<1>3. Plain(x, Cancelled(x)) /\ Plain(x, Cancelled(y))
  BY <1>1, PlainCancelled
<1>4. Plain(x, [x EXCEPT !.pc = "refundCancel"])
      /\ Plain(x, [x EXCEPT !.pc = "refundFailed"])
  BY <1>1, PlainMove DEF ExecPc
<1>5. Plain(x, [x EXCEPT !.mem = row.job, !.pc = "exit"])
  BY <1>1, PlainCarry DEF ExecPc
<1>6. Plain(x, [y EXCEPT !.pc = "refundCancel"])
  BY <1>1 DEF Plain, GoodExec, Execution
<1>7. \/ x.images > 0 /\ Step(e, [x EXCEPT !.pc = "settle"])
      \/ \E r : Step(e, r) /\ Plain(x, r)
  BY <1>3, <1>4, <1>5, <1>6 DEF After
<1>8. CASE \E r : Step(e, r) /\ Plain(x, r)
  BY <1>8, PlainStep DEF After
<1> QED BY <1>2, <1>7, <1>8

LEMMA SettleKeeps ==
  ASSUME TypeInv, NEW e \in Execs, Settle(e) \/ CheckSettled(e) PROVE Keeps(e)
<1> DEFINE x == ex[e]
<1>1. x.pc \in {"settle", "checkSettled"} /\ x \in GoodExec
  BY ExecOf DEF Settle, CheckSettled, At
<1>2. \E r : Step(e, r) /\ r.started = x.started
  <2>1. /\ [x EXCEPT !.pc = "checkSettled"].started = x.started
        /\ [x EXCEPT !.images = Requested, !.pc = "checkSettled"].started
             = x.started
    BY <1>1 DEF GoodExec, Execution
  <2>2. /\ Cancelled(x).started = x.started
        /\ Ending(x, "succeeded", "succeeded", TRUE).started = x.started
    <3>1. \A s, n, b : Ending(x, s, n, b).started = x.started
      BY <1>1, EndingFacts
    <3> HIDE DEF x
    <3> QED BY <3>1, Zenon DEF Cancelled
  <2>3. CASE Settle(e)
    <3>1. \/ Step(e, [x EXCEPT !.pc = "checkSettled"])
          \/ Step(e, [x EXCEPT !.images = Requested, !.pc = "checkSettled"])
      BY <2>3 DEF Settle
    <3> QED BY <2>1, <3>1
  <2>4. CASE CheckSettled(e)
    BY <2>2, <2>4 DEF CheckSettled
  <2> QED BY <2>3, <2>4
<1>3. ex'[e].started = x.started /\ \A d \in Execs \ {e} : ex'[d] = ex[d]
  BY <1>2, ExecTyped DEF Step
<1> QED BY <1>1, <1>3 DEF Keeps, Earned

LEMMA RecordKeeps ==
  ASSUME TypeInv, NEW e \in Execs, Record(e) \/ SaveGet(e) PROVE Keeps(e)
<1>1. Plain(ex[e], [ex[e] EXCEPT !.pc = "get", !.ret = "exit"])
  BY ExecOf, PlainGet
<1>2. ex[e].ret \in ExecPc \ {"settle", "checkSettled"}
  BY ExecOf DEF GoodExec, Execution, ExecRet, ExecPc
<1>3. Plain(ex[e], [ex[e] EXCEPT !.mem = row.job, !.pc = ex[e].ret])
  BY <1>2, ExecOf, PlainCarry
<1>4. Plain(ex[e], [ex[e] EXCEPT !.pc = "put"])
  BY ExecOf, PlainMove DEF ExecPc
<1>5. \E r : Step(e, r) /\ Plain(ex[e], r)
  BY <1>1, <1>3, <1>4 DEF Record, SaveGet
<1> QED BY <1>5, PlainStep DEF Record, SaveGet

\* A step that saves the row: the copy that is saved is clean.
LEMMA SaveKeeps ==
  ASSUME TypeInv, NEW e \in Execs, NEW j \in Job, NEW b \in BOOLEAN,
         NEW p \in ExecPc \ {"settle", "checkSettled"},
         Clean(ex[e].mem) => Clean(j), row' = Saved(j),
         Step(e, [ex[e] EXCEPT !.mem = Prepared(j), !.beat = b, !.pc = p])
  PROVE  Keeps(e)
<1> DEFINE r == [ex[e] EXCEPT !.mem = Prepared(j), !.beat = b, !.pc = p]
<1>1. r.started = ex[e].started /\ r.images = ex[e].images
      /\ r.pc = p /\ r.mem = Prepared(j)
  BY ExecOf DEF GoodExec, Execution
<1>2. ex'[e] = r /\ \A d \in Execs \ {e} : ex'[d] = ex[d]
  BY ExecTyped DEF Step
<1>3. Clean(row.job) => ~row.job.sent
  BY DEF Clean, HasUpstreamSent
<1>4. Clean(row.job) /\ Clean(ex[e].mem) => Clean(Saved(j).job) /\ Clean(r.mem)
  BY <1>1, <1>3, CleanJobs
<1> HIDE DEF r
<1> QED BY <1>1, <1>2, <1>4 DEF Keeps, Earned

LEMMA SaveRunningKeeps ==
  ASSUME TypeInv, NEW e \in Execs, SaveRunning(e) PROVE Keeps(e)
<1> DEFINE x == ex[e]
           j == [x.mem EXCEPT !.status = "running", !.stage = "running",
                              !.lease = "ahead"]
           y == [x EXCEPT !.mem = j]
<1>1. x \in GoodExec /\ j \in Job /\ (Clean(x.mem) => Clean(j))
  <2>1. x \in GoodExec /\ x.mem \in Job
    BY ExecOf DEF GoodExec, Execution
  <2>2. j \in Job /\ j.sent = x.mem.sent /\ j.stage = "running"
        /\ j.status = "running"
    BY <2>1 DEF Job, Status, Stage
  <2> QED BY <2>1, <2>2 DEF Clean, HasUpstreamSent
<1>2. CASE /\ row' = Saved(j)
           /\ Step(e, [x EXCEPT !.mem = Prepared(j), !.beat = TRUE,
                                !.pc = "checkRunning"])
  <2> HIDE DEF j
  <2> QED BY <1>1, <1>2, SaveKeeps DEF ExecPc
<1>3. CASE Step(e, Ending(y, "failed", "failed", TRUE)) /\ UNCHANGED row
  <2>1. y \in GoodExec /\ y.started = x.started /\ y.images = x.images
        /\ y.mem = j
    BY <1>1, CarryTyped DEF GoodExec, Execution
  <2> HIDE DEF y, j
  <2>2. Plain(y, Ending(y, "failed", "failed", TRUE))
    BY <2>1, PlainEnding
  <2>3. Plain(x, Ending(y, "failed", "failed", TRUE))
    BY <1>1, <2>1, <2>2 DEF Plain
  <2> QED BY <1>3, <2>3, PlainStep
<1> QED BY <1>2, <1>3 DEF SaveRunning

LEMMA SavePutKeeps == ASSUME TypeInv, NEW e \in Execs, SavePut(e) PROVE Keeps(e)
<1> DEFINE x == ex[e]
<1>1. x.mem \in Job /\ x.ret \in ExecPc \ {"settle", "checkSettled"}
      /\ x.beat \in BOOLEAN
  BY ExecOf DEF GoodExec, Execution, ExecRet, ExecPc
<1>2. [x EXCEPT !.mem = Prepared(x.mem), !.pc = x.ret]
        = [x EXCEPT !.mem = Prepared(x.mem), !.beat = x.beat, !.pc = x.ret]
  BY ExecOf DEF GoodExec, Execution
<1> QED BY <1>1, <1>2, SaveKeeps DEF SavePut

LEMMA NoJobClean == Clean(NoJob)
BY DEF Clean, HasUpstreamSent, NoJob

LEMMA OverPlain ==
  ASSUME NEW x \in GoodExec, NEW p \in ExecPc \ {"settle", "checkSettled"}
  PROVE  Plain(x, Over(x, p))
BY NoJobClean DEF Plain, Over, GoodExec, Execution

LEMMA ExitKeeps == ASSUME TypeInv, NEW e \in Execs, Exit(e) PROVE Keeps(e)
<1>1. Plain(ex[e], Over(ex[e], "done"))
  BY ExecOf, OverPlain DEF ExecPc
<1> QED BY <1>1, PlainStep DEF Exit

LEMMA ExecKeeps ==
  ASSUME TypeInv, NEW e \in Execs, ExecStep(e)
  PROVE  Keeps(e)
BY StartKeeps, PrecheckKeeps, AdmissionKeeps, PlaceKeeps, CheckKeeps,
   SaveRunningKeeps, ReserveKeeps, RefundKeeps, UpstreamKeeps, CallKeeps,
   AfterKeeps, SettleKeeps, RecordKeeps, SavePutKeeps, ExitKeeps
DEF ExecStep

LEMMA ClaimKeeps ==
  ASSUME TypeInv, NEW e \in Execs, NEW i \in Instances, Claim(e, i)
  PROVE  Keeps(e)
<1> DEFINE x == ex[e]
           r == [x EXCEPT !.pc = "start", !.host = i, !.mem = NoJob]
           j == [row.job EXCEPT !.stage = "claimed", !.lease = "ahead"]
<1>1. r.started = x.started /\ r.images = x.images /\ r.pc = "start"
      /\ r.mem = NoJob
  BY ExecOf DEF GoodExec, Execution
<1>2. ex'[e] = r /\ \A d \in Execs \ {e} : ex'[d] = ex[d]
  BY ExecTyped DEF Claim, Step
<1>3. row'.job = j
  BY DEF Claim
<1>4. Clean(row.job) => Clean(j)
  BY ExecOf DEF Job, Clean, HasUpstreamSent
<1> HIDE DEF r, j
<1> QED BY <1>1, <1>2, <1>3, <1>4, NoJobClean DEF Keeps, Earned

LEMMA SentOfExec ==
  ASSUME SentInv, TypeInv', NEW e \in Execs, Keeps(e), UNCHANGED cx
  PROVE  SentInv'
<1>1. \A d \in Execs : Earned(ex[d])'
  BY DEF Keeps, SentInv, Earned
<1>2. Called => Called'
  BY DEF Called, Keeps
<1>3. CopiesClean /\ ~Called' => CopiesClean'
  <2> SUFFICES ASSUME CopiesClean, ~Called' PROVE CopiesClean'
    OBVIOUS
  <2>1. Clean(row'.job) /\ Clean(ex'[e].mem)
    BY DEF Called, Keeps, SentInv, CopiesClean
  <2>2. \A d \in Execs : Clean(ex'[d].mem)
    BY <2>1 DEF Keeps, CopiesClean
  <2>3. \A c \in Cancels : Clean(cx'[c].item)
    BY DEF CopiesClean
  <2> QED BY <2>1, <2>2, <2>3 DEF CopiesClean, Clean, HasUpstreamSent
<1> QED BY <1>1, <1>2, <1>3 DEF SentInv

\* Steps of the others: no execution calls or earns, clean copies stay clean.
LEMMA SentOfOthers ==
  ASSUME SentInv, TypeInv',
         \A e \in Execs : /\ ex'[e].started = ex[e].started
                          /\ Earned(ex[e]) => Earned(ex'[e]),
         CopiesClean => CopiesClean'
  PROVE  SentInv'
BY DEF SentInv, Called, Earned

LEMMA CleanRow ==
  ASSUME CopiesClean
  PROVE  /\ ~row.job.sent
         /\ \A c \in Cancels : CopiesClean => Clean(cx[c].item)
BY DEF CopiesClean, Clean, HasUpstreamSent

\* What a cancel request reads, changes and writes back is clean as well.
LEMMA CancelClean ==
  ASSUME TypeInv, NEW c \in Cancels, CopiesClean,
         CancelStep(c) \/ \E i \in Instances : CancelBefore(c, i)
  PROVE  /\ Clean(row'.job) /\ Clean(cx'[c].item)
         /\ \A b \in Cancels \ {c} : cx'[b] = cx[b]
<1> DEFINE r == cx[c]
<1>1. /\ r \in Cancellation /\ r.item \in Job /\ row.job \in Job
      /\ cx \in [Cancels -> Cancellation]
      /\ Clean(r.item) /\ Clean(row.job) /\ ~row.job.sent
  BY CancelOf, CleanRow DEF CopiesClean, TypeInv, TypeOK
<1>2. /\ Clean(Saved(r.item).job) /\ Clean(Prepared(r.item))
  BY <1>1, CleanJobs
<1>3. ASSUME NEW s, CancelMove(c, s)
      PROVE  cx'[c] = s /\ \A b \in Cancels \ {c} : cx'[b] = cx[b]
  BY <1>1, <1>3 DEF CancelMove
<1>4. ASSUME NEW j, NEW p, CancelMove(c, [r EXCEPT !.item = j, !.pc = p])
      PROVE  cx'[c].item = j /\ \A b \in Cancels \ {c} : cx'[b] = cx[b]
  <2>1. [r EXCEPT !.item = j, !.pc = p].item = j
    BY <1>1 DEF Cancellation
  <2> QED BY <1>3, <1>4, <2>1
<1>5. ASSUME NEW p, CancelMove(c, [r EXCEPT !.pc = p])
      PROVE  cx'[c].item = r.item /\ \A b \in Cancels \ {c} : cx'[b] = cx[b]
  <2>1. [r EXCEPT !.pc = p].item = r.item
    BY <1>1 DEF Cancellation
  <2> QED BY <1>3, <1>5, <2>1
<1>6. CASE \E i \in Instances : CancelBefore(c, i)
  <2>1. PICK i \in Instances :
          CancelMove(c, [r EXCEPT !.pc = "get", !.host = i,
                                  !.early = BeforeUpstream(row.job)])
    BY <1>6 DEF CancelBefore
  <2>2. [r EXCEPT !.pc = "get", !.host = i,
                  !.early = BeforeUpstream(row.job)].item = r.item
    BY <1>1 DEF Cancellation
  <2>3. row' = row
    BY <1>6 DEF CancelBefore
  <2> QED BY <1>1, <1>3, <2>1, <2>2, <2>3
<1>7. CASE CancelGet(c)
  <2> DEFINE n == IF row.job.status = "queued"
                  THEN [row.job EXCEPT !.status = "cancelled", !.stage = "ended"]
                  ELSE [row.job EXCEPT !.status = "cancel_requested",
                                       !.stage = "cancel_requested"]
  <2>1. Clean(n)
    BY <1>1 DEF Job, Clean, HasUpstreamSent
  <2>2. \/ CancelMove(c, [r EXCEPT !.item = row.job, !.pc = "refund"])
        \/ CancelMove(c, [r EXCEPT !.item = n, !.pc = "put"])
    BY <1>7 DEF CancelGet
  <2>3. row' = row
    BY <1>7 DEF CancelGet
  <2> HIDE DEF n
  <2>4. CASE CancelMove(c, [r EXCEPT !.item = row.job, !.pc = "refund"])
    <3>1. cx'[c].item = row.job /\ \A b \in Cancels \ {c} : cx'[b] = cx[b]
      BY <1>4, <2>4
    <3> QED BY <1>1, <2>3, <3>1
  <2>5. CASE CancelMove(c, [r EXCEPT !.item = n, !.pc = "put"])
    <3>1. cx'[c].item = n /\ \A b \in Cancels \ {c} : cx'[b] = cx[b]
      BY <1>4, <2>5
    <3> QED BY <1>1, <2>1, <2>3, <3>1
  <2> QED BY <2>2, <2>4, <2>5
<1>8. CASE CancelPut(c)
  <2>1. CancelMove(c, [r EXCEPT !.item = Prepared(r.item), !.pc = "refund"])
        /\ row' = Saved(r.item)
    BY <1>8 DEF CancelPut
  <2>2. cx'[c].item = Prepared(r.item)
        /\ \A b \in Cancels \ {c} : cx'[b] = cx[b]
    BY <1>4, <2>1
  <2> QED BY <1>2, <2>1, <2>2
<1>9. CASE \/ CancelRefund(c) \/ CancelRefundSub(c)
           \/ CancelSnapshot(c) \/ CancelFinal(c)
  <2>1. \/ CancelMove(c, [r EXCEPT !.pc = "refundSub"])
        \/ CancelMove(c, [r EXCEPT !.pc = "snapshot"])
        \/ CancelMove(c, [r EXCEPT !.pc = "signal"])
        \/ CancelMove(c, [r EXCEPT !.pc = "mark"])
    BY <1>9 DEF CancelRefund, CancelRefundSub, CancelSnapshot, CancelFinal
  <2>2. cx'[c].item = r.item /\ \A b \in Cancels \ {c} : cx'[b] = cx[b]
    BY <1>5, <2>1
  <2>3. row' = row \/ row' = Saved(r.item)
    BY <1>9 DEF CancelRefund, CancelRefundSub, CancelSnapshot, CancelFinal
  <2> QED BY <1>1, <1>2, <2>2, <2>3
<1>10. CASE CancelSignal(c)
  <2> DEFINE j == [r.item EXCEPT !.status = "cancelled", !.stage = "ended"]
  <2>1. Clean(j)
    BY <1>1 DEF Job, Clean, HasUpstreamSent
  <2>2. [r EXCEPT !.item.status = "cancelled", !.item.stage = "ended",
                  !.pc = "final"] = [r EXCEPT !.item = j, !.pc = "final"]
    BY <1>1 DEF Cancellation, Job
  <2>3. \/ CancelMove(c, [r EXCEPT !.item = j, !.pc = "final"])
        \/ CancelMove(c, [r EXCEPT !.pc = "mark"])
    BY <1>10, <2>2 DEF CancelSignal
  <2>4. row' = row
    BY <1>10 DEF CancelSignal
  <2> HIDE DEF j
  <2>5. CASE CancelMove(c, [r EXCEPT !.item = j, !.pc = "final"])
    <3>1. cx'[c].item = j /\ \A b \in Cancels \ {c} : cx'[b] = cx[b]
      BY <1>4, <2>5
    <3> QED BY <1>1, <2>1, <2>4, <3>1
  <2>6. CASE CancelMove(c, [r EXCEPT !.pc = "mark"])
    <3>1. cx'[c].item = r.item /\ \A b \in Cancels \ {c} : cx'[b] = cx[b]
      BY <1>5, <2>6
    <3> QED BY <1>1, <2>4, <3>1
  <2> QED BY <2>3, <2>5, <2>6
<1>11. CASE CancelMark(c)
  <2> DEFINE j == [r.item EXCEPT !.lease = "none"]
  <2>1. Clean(j)
    BY <1>1 DEF Job, Clean, HasUpstreamSent
  <2>2. Answered(r) = [r EXCEPT !.item = j, !.pc = "done"]
    BY <1>1 DEF Answered, Cancellation, Job
  <2>3. CancelMove(c, [r EXCEPT !.item = j, !.pc = "done"]) /\ row' = row
    BY <1>11, <2>2 DEF CancelMark
  <2> HIDE DEF j
  <2>4. cx'[c].item = j /\ \A b \in Cancels \ {c} : cx'[b] = cx[b]
    BY <1>4, <2>3
  <2> QED BY <1>1, <2>1, <2>3, <2>4
<1> QED BY <1>6, <1>7, <1>8, <1>9, <1>10, <1>11 DEF CancelStep

LEMMA SentOfCancel ==
  ASSUME SentInv, TypeInv', NEW c \in Cancels,
         CancelStep(c) \/ \E i \in Instances : CancelBefore(c, i)
  PROVE  SentInv'
<1>1. \A e \in Execs : /\ ex'[e].started = ex[e].started
                       /\ ex'[e].images = ex[e].images
                       /\ ex'[e].pc = ex[e].pc
                       /\ ex'[e].mem = ex[e].mem
  <2>1. UNCHANGED ex \/ \E t : ex' = [ex EXCEPT ![t].live = FALSE]
    BY DEF CancelStep, CancelBefore, CancelGet, CancelPut, CancelRefund,
      CancelRefundSub, CancelSnapshot, CancelSignal, CancelFinal, CancelMark
  <2>2. \A x \in GoodExec :
          /\ [x EXCEPT !.live = FALSE].started = x.started
          /\ [x EXCEPT !.live = FALSE].images = x.images
          /\ [x EXCEPT !.live = FALSE].pc = x.pc
          /\ [x EXCEPT !.live = FALSE].mem = x.mem
    BY DEF GoodExec, Execution
  <2>3. ex \in [Execs -> GoodExec]
    BY ExecTyped DEF SentInv
  <2>4. CASE UNCHANGED ex
    BY <2>4
  <2>5. CASE \E t : ex' = [ex EXCEPT ![t].live = FALSE]
    <3> SUFFICES ASSUME NEW e \in Execs
                 PROVE  /\ ex'[e].started = ex[e].started
                        /\ ex'[e].images = ex[e].images
                        /\ ex'[e].pc = ex[e].pc
                        /\ ex'[e].mem = ex[e].mem
      OBVIOUS
    <3>1. ex'[e] = ex[e] \/ ex'[e] = [ex[e] EXCEPT !.live = FALSE]
      BY <2>3, <2>5
    <3>2. ex[e] \in GoodExec
      BY <2>3
    <3> QED BY <2>2, <3>1, <3>2
  <2> QED BY <2>1, <2>4, <2>5
<1>2. CopiesClean => CopiesClean'
  <2> SUFFICES ASSUME CopiesClean PROVE CopiesClean'
    OBVIOUS
  <2>1. /\ Clean(row'.job) /\ Clean(cx'[c].item)
        /\ \A b \in Cancels \ {c} : cx'[b] = cx[b]
    BY CancelClean DEF SentInv
  <2>2. \A b \in Cancels : Clean(cx'[b].item)
    BY <2>1 DEF CopiesClean
  <2>3. \A e \in Execs : Clean(ex'[e].mem)
    BY <1>1 DEF CopiesClean
  <2> QED BY <2>1, <2>2, <2>3 DEF CopiesClean, Clean, HasUpstreamSent
<1>3. \A e \in Execs : Earned(ex[e]) => Earned(ex'[e])
  BY <1>1 DEF Earned
<1> QED BY <1>1, <1>2, <1>3, SentOfOthers

LEMMA SentOfReconcile ==
  ASSUME SentInv, TypeInv', NEW i \in Instances,
         ReconcileList(i) \/ ReconcileStep(i)
  PROVE  SentInv'
<1>1. ex' = ex /\ cx' = cx
  BY DEF ReconcileList, ReconcileStep, ReconcileRefund, ReconcileRefundSub,
    ReconcileMark, ReconcileUpdate
<1>2. row \in Row /\ row.job \in Job
  BY DEF SentInv, TypeInv, TypeOK, Row
<1>3. \/ row'.job = row.job
      \/ row'.job = [row.job EXCEPT !.status = StaleFinal(row.job),
                                    !.stage = "ended", !.lease = "none"]
  BY <1>2 DEF ReconcileList, ReconcileStep, ReconcileRefund,
    ReconcileRefundSub, ReconcileMark, ReconcileUpdate, Row
<1>4. Clean(row.job) => Clean(row'.job)
  BY <1>2, <1>3 DEF Clean, HasUpstreamSent, StaleFinal, Job
<1>5. CopiesClean => CopiesClean'
  BY <1>1, <1>4 DEF CopiesClean, Clean, HasUpstreamSent
<1> QED BY <1>1, <1>5, SentOfOthers

LEMMA SentOfTime ==
  ASSUME SentInv, TypeInv', Heartbeat \/ LeaseOver \/ RowAges
  PROVE  SentInv'
<1>1. row \in Row /\ row.job \in Job
  BY DEF SentInv, TypeInv, TypeOK, Row
<1>2. \A j \in Job : \A l : Clean(j) => Clean([j EXCEPT !.lease = l])
  BY DEF Clean, HasUpstreamSent, Job
<1>3. \/ row'.job = [row.job EXCEPT !.lease = "ahead"]
      \/ row'.job = [row.job EXCEPT !.lease = Behind(row.job.lease)]
  BY DEF Heartbeat, LeaseOver, RowAges
<1>4. Clean(row.job) => Clean(row'.job)
  BY <1>1, <1>2, <1>3
<1>5. ASSUME NEW e \in Execs
      PROVE  /\ ex'[e].started = ex[e].started /\ ex'[e].images = ex[e].images
             /\ ex'[e].pc = ex[e].pc
             /\ Clean(ex[e].mem) => Clean(ex'[e].mem)
  <2> DEFINE x == ex[e]
             y == [x EXCEPT !.mem.lease = Behind(@)]
  <2>1. x \in GoodExec /\ x.mem \in Job
    BY ExecOf DEF SentInv, GoodExec, Execution
  <2>2. /\ y.started = x.started /\ y.images = x.images /\ y.pc = x.pc
        /\ y.mem = [x.mem EXCEPT !.lease = Behind(x.mem.lease)]
    BY <2>1 DEF GoodExec, Execution, Job
  <2>3. ex'[e] = x \/ ex'[e] = y
    BY DEF Heartbeat, LeaseOver, RowAges, Forgotten
  <2> HIDE DEF x, y
  <2>4. Clean(x.mem) => Clean(y.mem)
    BY <1>2, <2>1, <2>2
  <2> QED BY <2>2, <2>3, <2>4 DEF x
<1>6. CopiesClean => CopiesClean'
  <2>1. UNCHANGED cx
    BY DEF Heartbeat, LeaseOver, RowAges
  <2> QED BY <1>4, <1>5, <2>1 DEF CopiesClean, Clean, HasUpstreamSent
<1> QED BY <1>5, <1>6, SentOfOthers DEF Earned

LEMMA SentOfCrash ==
  ASSUME SentInv, TypeInv', NEW i \in Instances, Crash(i)
  PROVE  SentInv'
<1>1. ASSUME NEW e \in Execs
      PROVE  /\ ex'[e].started = ex[e].started
             /\ Earned(ex[e]) => Earned(ex'[e])
             /\ CopiesClean => Clean(ex'[e].mem)
  <2>1. Plain(ex[e], Over(ex[e], "dead"))
    BY ExecOf, OverPlain DEF SentInv, ExecPc
  <2>2. ex'[e] = ex[e] \/ ex'[e] = Over(ex[e], "dead")
    BY DEF Crash
  <2> QED BY <2>1, <2>2 DEF Plain, Earned, CopiesClean
<1>2. ASSUME NEW c \in Cancels, CopiesClean
      PROVE  Clean(cx'[c].item)
  <2> DEFINE r == cx[c]
  <2>1. r \in Cancellation /\ r.item \in Job /\ Clean(r.item)
    BY <1>2, CancelOf DEF SentInv, CopiesClean
  <2>2. Answered(r).item = [r.item EXCEPT !.lease = "none"]
    BY <2>1 DEF Answered, Cancellation, Job
  <2>3. Clean([r.item EXCEPT !.lease = "none"])
    BY <2>1 DEF Clean, HasUpstreamSent, Job
  <2>4. cx'[c] = r \/ cx'[c] = Answered(r)
    BY DEF Crash
  <2> HIDE DEF r
  <2> QED BY <2>1, <2>2, <2>3, <2>4
<1>3. CopiesClean => CopiesClean'
  BY <1>1, <1>2 DEF Crash, CopiesClean, Clean, HasUpstreamSent
<1> QED BY <1>1, <1>3, SentOfOthers

LEMMA InitSent == Init => SentInv
<1> SUFFICES ASSUME Init PROVE SentInv
  OBVIOUS
<1>1. \A e \in Execs : Earned(ex[e])
  BY DEF Init, Idle, Earned
<1>2. CopiesClean
  BY NoJobClean DEF Init, CopiesClean, Idle, NewCancel
<1> QED BY <1>1, <1>2, InitTypes DEF SentInv

LEMMA NextSent == SentInv /\ [Next]_vars => SentInv'
<1> SUFFICES ASSUME SentInv, [Next]_vars PROVE SentInv'
  OBVIOUS
<1>1. TypeInv /\ TypeInv'
  BY NextTypes DEF SentInv
<1>2. CASE Claims
  <2>1. PICK e \in Execs, i \in Instances : Claim(e, i)
    BY <1>2 DEF Claims
  <2>2. UNCHANGED cx
    BY <2>1 DEF Claim
  <2> QED BY <1>1, <2>1, <2>2, ClaimKeeps, SentOfExec
<1>3. CASE \E e \in Execs : ExecStep(e)
  <2>1. PICK e \in Execs : ExecStep(e)
    BY <1>3
  <2>2. UNCHANGED cx
    BY <2>1 DEF ExecStep, Start, Precheck, PlaceQueued, Admission, SaveRunning,
      CheckRunning, PlaceRunning, ReserveSub, ReserveBal, ReserveReply,
      UndoSub, CheckReserved, CheckDispatch, RefundCancel, Upstream, Call,
      After, RefundFailed, Settle, CheckSettled, Record, SaveGet, SavePut, Exit
  <2> QED BY <1>1, <2>1, <2>2, ExecKeeps, SentOfExec
<1>4. CASE CancelArrives
  BY <1>1, <1>4, SentOfCancel DEF CancelArrives
<1>5. CASE \E c \in Cancels : CancelStep(c)
  BY <1>1, <1>5, SentOfCancel
<1>6. CASE \E i \in Instances : ReconcileList(i) \/ ReconcileStep(i)
  BY <1>1, <1>6, SentOfReconcile
<1>7. CASE Heartbeat \/ LeaseOver \/ RowAges
  BY <1>1, <1>7, SentOfTime
<1>8. CASE \E i \in Instances : Crash(i)
  BY <1>1, <1>8, SentOfCrash
<1>9. CASE UNCHANGED vars
  BY <1>1, <1>9 DEF vars, SentInv, Earned, Called, CopiesClean, Clean,
    HasUpstreamSent
<1> QED BY <1>2, <1>3, <1>4, <1>5, <1>6, <1>7, <1>8, <1>9 DEF Next, Rest

\* The row is marked as sent only when some execution has called the
\* provider, wherever copies of the row have been kept and written back, and
\* whoever crashed in between (saveJob, RequestCancel, markUpstreamStarted).
THEOREM SentIsTrue == Spec => []SentMeansCalled
<1>1. SentInv => SentMeansCalled
  BY DEF SentInv, CopiesClean, Clean, SentMeansCalled
<1> QED BY <1>1, InitSent, NextSent, PTL DEF Spec

-----------------------------------------------------------------------------
(* A job that is executed once.  What a step of the execution does to its  *)
(* record, field by field.                                                 *)

Alone(e) == \A d \in Execs : d = e

\* Only its place, its copy of the job and what it is going to write change.
Carries(v, w) ==
  /\ w.live = v.live /\ w.beat = v.beat /\ w.started = v.started
  /\ w.failover = v.failover /\ w.sub = v.sub /\ w.images = v.images
  /\ w.unheard = v.unheard

Goes(v, w, p) ==
  Carries(v, w) /\ w.pc = p /\ w.ret = v.ret /\ w.mem = v.mem
Takes(v, w, p, j) ==
  Carries(v, w) /\ w.pc = p /\ w.ret = v.ret /\ w.mem = j
Saves(v, w, q, j) ==
  Carries(v, w) /\ w.pc = "get" /\ w.ret = q /\ w.mem = j
Ends(v, w, s, n, b) ==
  /\ Carries(v, w) /\ w.pc = "record" /\ w.ret = v.ret
  /\ w.mem.status = s /\ w.mem.lease = "none" /\ w.note = n /\ w.bound = b

Quietly == UNCHANGED <<row, gen, held, back, cx, rc, crashes>>

LEMMA MoveDoes ==
  ASSUME TypeInv, NEW e \in Execs, NEW p, Step(e, [ex[e] EXCEPT !.pc = p])
  PROVE  Goes(ex[e], ex'[e], p) /\ ex'[e].note = ex[e].note /\ ex'[e].bound = ex[e].bound
BY ExecTyped DEF Step, Goes, Carries, GoodExec, Execution

LEMMA TakeDoes ==
  ASSUME TypeInv, NEW e \in Execs, NEW p, NEW j, Step(e, [ex[e] EXCEPT !.mem = j, !.pc = p])
  PROVE  Takes(ex[e], ex'[e], p, j)
BY ExecTyped DEF Step, Takes, Carries, GoodExec, Execution

LEMMA SaveDoes ==
  ASSUME TypeInv, NEW e \in Execs, NEW q, NEW j, SaveThen(e, j, q)
  PROVE  Saves(ex[e], ex'[e], q, j)
BY ExecTyped DEF SaveThen, Step, Saves, Carries, GoodExec, Execution

LEMMA GetDoes ==
  ASSUME TypeInv, NEW e \in Execs, NEW q, Step(e, [ex[e] EXCEPT !.pc = "get", !.ret = q])
  PROVE  Saves(ex[e], ex'[e], q, ex[e].mem)
         /\ ex'[e].note = ex[e].note /\ ex'[e].bound = ex[e].bound
BY ExecTyped DEF Step, Saves, Carries, GoodExec, Execution

LEMMA EndDoes ==
  ASSUME TypeInv, NEW e \in Execs, NEW s, NEW n, NEW b, Step(e, Ending(ex[e], s, n, b))
  PROVE  Ends(ex[e], ex'[e], s, n, b)
BY ExecTyped DEF Step, Ends, Ending, Carries, GoodExec, Execution, Job

LEMMA EndOfTakenDoes ==
  ASSUME TypeInv, NEW e \in Execs, NEW j \in Job, NEW s, NEW n, NEW b,
         Step(e, Ending([ex[e] EXCEPT !.mem = j], s, n, b))
  PROVE  Ends(ex[e], ex'[e], s, n, b)
BY ExecTyped DEF Step, Ends, Ending, Carries, GoodExec, Execution, Job

LEMMA CancelDoes ==
  ASSUME TypeInv, NEW e \in Execs,
         Step(e, Cancelled(ex[e])) \/ Step(e, Cancelled([ex[e] EXCEPT !.mem = row.job]))
  PROVE  Ends(ex[e], ex'[e], "cancelled", "cancelled", FALSE)
BY EndDoes, EndOfTakenDoes, ExecOf DEF Cancelled

\* Steps that change nothing but the execution.
LEMMA StartDoes ==
  ASSUME TypeInv, NEW e \in Execs, Start(e)
  PROVE  /\ Quietly /\ ex[e].pc = "start"
         /\ \/ Goes(ex[e], ex'[e], "precheck")
            \/ \E n \in {"skip", "failed"} : Ends(ex[e], ex'[e], "failed", n, FALSE)
BY MoveDoes, EndDoes DEF Start, At, Quietly, ledger

LEMMA PrecheckDoes ==
  ASSUME TypeInv, NEW e \in Execs, Precheck(e)
  PROVE  /\ Quietly /\ ex[e].pc = "precheck"
         /\ \/ /\ ~ex[e].live \/ row.job.status \in CancelStatus
               /\ Ends(ex[e], ex'[e], "cancelled", "cancelled", FALSE)
            \/ /\ ex[e].live /\ row.job.status \notin CancelStatus
               /\ Saves(ex[e], ex'[e], "placeQueued", ex'[e].mem)
               /\ ex'[e].mem.status = "queued" /\ ex'[e].mem.lease = ex[e].mem.lease
<1> DEFINE j == [ex[e].mem EXCEPT !.status = "queued", !.stage = "queued"]
<1>1. j.status = "queued" /\ j.lease = ex[e].mem.lease
  BY ExecOf DEF GoodExec, Execution, Job
<1>2. CASE SaveThen(e, j, "placeQueued")
  <2> HIDE DEF j
  <2>1. Saves(ex[e], ex'[e], "placeQueued", j) BY <1>2, SaveDoes
  <2> QED BY <1>1, <1>2, <2>1, CancelDoes DEF Precheck, At, Quietly, ledger, Saves, j
<1>3. CASE ~SaveThen(e, j, "placeQueued")
  BY <1>3, CancelDoes DEF Precheck, At, Quietly, ledger
<1> QED BY <1>2, <1>3

LEMMA PlaceDoes ==
  ASSUME TypeInv, NEW e \in Execs, PlaceQueued(e) \/ PlaceRunning(e)
  PROVE  /\ UNCHANGED <<row, held, back, cx, rc, crashes>>
         /\ \/ /\ ex[e].pc = "placeQueued" /\ Goes(ex[e], ex'[e], "admission")
               /\ gen' = "queued"
            \/ /\ ex[e].pc = "placeRunning" /\ Goes(ex[e], ex'[e], "reserveSub")
               /\ gen' = IF ex[e].live THEN "running" ELSE gen
BY MoveDoes DEF PlaceQueued, PlaceRunning, At, ledger

LEMMA AdmissionDoes ==
  ASSUME TypeInv, NEW e \in Execs, Admission(e)
  PROVE  /\ Quietly /\ ex[e].pc = "admission"
         /\ \/ Goes(ex[e], ex'[e], "saveRunning")
            \/ ex[e].live /\ Ends(ex[e], ex'[e], "failed", "failed", FALSE)
            \/ ~ex[e].live /\ Ends(ex[e], ex'[e], "cancelled", "cancelled", FALSE)
BY MoveDoes, EndDoes, CancelDoes DEF Admission, At, Quietly, ledger

LEMMA ChecksDo ==
  ASSUME TypeInv, NEW e \in Execs, CheckRunning(e) \/ CheckReserved(e) \/ CheckDispatch(e)
  PROVE  /\ Quietly
         /\ \/ /\ row.job.status \in CancelStatus
               /\ \/ /\ ex[e].pc = "checkRunning"
                     /\ Ends(ex[e], ex'[e], "cancelled", "cancelled", FALSE)
                  \/ /\ ex[e].pc \in {"checkReserved", "checkDispatch"}
                     /\ Takes(ex[e], ex'[e], "refundCancel", row.job)
            \/ /\ row.job.status \notin CancelStatus
               /\ \/ /\ ex[e].pc = "checkRunning"
                     /\ Goes(ex[e], ex'[e], "placeRunning")
                  \/ /\ ex[e].pc = "checkReserved"
                     /\ Saves(ex[e], ex'[e], "checkDispatch", ex'[e].mem)
                     /\ ex'[e].mem.status = ex[e].mem.status
                     /\ ex'[e].mem.lease = ex[e].mem.lease
                  \/ /\ ex[e].pc = "checkDispatch"
                     /\ Goes(ex[e], ex'[e], "upstream")
<1> DEFINE j == Dispatching(ex[e].mem)
<1>1. j.status = ex[e].mem.status /\ j.lease = ex[e].mem.lease
  BY ExecOf DEF GoodExec, Execution, Job, Dispatching
<1>2. CASE CheckReserved(e) /\ row.job.status \notin CancelStatus
  <2> HIDE DEF j
  <2>1. SaveThen(e, j, "checkDispatch") /\ Quietly /\ ex[e].pc = "checkReserved"
    BY <1>2 DEF CheckReserved, Quietly, At, ledger, j
  <2>2. Saves(ex[e], ex'[e], "checkDispatch", j) BY <2>1, SaveDoes
  <2> QED BY <1>1, <1>2, <2>1, <2>2 DEF Saves
<1>3. CASE CheckReserved(e) /\ row.job.status \in CancelStatus
  BY <1>3, TakeDoes DEF CheckReserved, Quietly, At, ledger
<1>4. CASE CheckDispatch(e)
  BY <1>4, TakeDoes, MoveDoes DEF CheckDispatch, Quietly, At, ledger
<1>5. CASE CheckRunning(e)
  BY <1>5, CancelDoes, MoveDoes DEF CheckRunning, Quietly, At, ledger
<1> QED BY <1>2, <1>3, <1>4, <1>5

LEMMA ReserveReplyDoes ==
  ASSUME TypeInv, NEW e \in Execs, ReserveReply(e)
  PROVE  /\ Quietly /\ ex[e].pc = "reserveReply"
         /\ \/ ex[e].live /\ Saves(ex[e], ex'[e], "checkReserved", ex[e].mem)
            \/ /\ ~ex[e].live /\ ex'[e].unheard /\ ex'[e].pc = "undoSub"
               /\ ex'[e].live = ex[e].live /\ ex'[e].beat = ex[e].beat
               /\ ex'[e].started = ex[e].started /\ ex'[e].failover = ex[e].failover
               /\ ex'[e].sub = ex[e].sub /\ ex'[e].images = ex[e].images
               /\ ex'[e].ret = ex[e].ret /\ ex'[e].mem = ex[e].mem
<1>1. CASE ex[e].live BY <1>1, GetDoes DEF ReserveReply, At, Quietly, ledger
<1>2. CASE ~ex[e].live
  <2> DEFINE r == [ex[e] EXCEPT !.pc = "undoSub", !.unheard = TRUE]
  <2>1. /\ ex[e].pc = "reserveReply" /\ Quietly /\ ex'[e] = r
    BY <1>2, ExecTyped DEF ReserveReply, At, Quietly, ledger, Step
  <2>2. ex[e] \in Execution BY ExecOf DEF GoodExec
  <2> QED BY <1>2, <2>1, <2>2 DEF Execution
<1> QED BY <1>1, <1>2

LEMMA UpstreamDoes ==
  ASSUME TypeInv, NEW e \in Execs, Upstream(e)
  PROVE  /\ Quietly /\ ex[e].pc = "upstream"
         /\ \/ Goes(ex[e], ex'[e], "call")
            \/ /\ ~ex[e].started /\ ex'[e].started
               /\ ex'[e].pc = "get" /\ ex'[e].ret = "call"
               /\ ex'[e].live = ex[e].live /\ ex'[e].beat = ex[e].beat
               /\ ex'[e].unheard = ex[e].unheard /\ ex'[e].failover = ex[e].failover
               /\ ex'[e].sub = ex[e].sub /\ ex'[e].images = ex[e].images
               /\ ex'[e].mem.status = ex[e].mem.status
               /\ ex'[e].mem.lease = ex[e].mem.lease
<1>1. CASE Step(e, [ex[e] EXCEPT !.pc = "call"])
  BY <1>1, MoveDoes DEF Upstream, At, Quietly, ledger
<1>2. CASE ~Step(e, [ex[e] EXCEPT !.pc = "call"])
  <2> DEFINE r == [ex[e] EXCEPT !.started = TRUE, !.mem.sent = TRUE, !.mem.stage = "upstream",
                                !.pc = "get", !.ret = "call"]
  <2>1. /\ ex[e].pc = "upstream" /\ Quietly /\ ex'[e] = r /\ ~ex[e].started
    BY <1>2, ExecTyped DEF Upstream, At, Quietly, ledger, Step
  <2>2. ex[e] \in Execution BY ExecOf DEF GoodExec
  <2> DEFINE m == [ex[e].mem EXCEPT !.sent = TRUE, !.stage = "upstream"]
  <2>3. ex'[e] = [ex[e] EXCEPT !.started = TRUE, !.mem = m, !.pc = "get", !.ret = "call"]
    BY <2>1, <2>2 DEF Execution, Job
  <2>4. m.status = ex[e].mem.status /\ m.lease = ex[e].mem.lease
    BY <2>2 DEF Execution, Job
  <2> HIDE DEF m
  <2> QED BY <2>1, <2>2, <2>3, <2>4 DEF Execution
<1> QED BY <1>1, <1>2

LEMMA CallDoes ==
  ASSUME TypeInv, NEW e \in Execs, Call(e)
  PROVE  /\ Quietly /\ ex[e].pc = "call"
         /\ ex'[e].live = ex[e].live /\ ex'[e].beat = ex[e].beat
         /\ ex'[e].unheard = ex[e].unheard /\ ex'[e].started = ex[e].started
         /\ ex'[e].sub = ex[e].sub /\ ex'[e].mem = ex[e].mem
         /\ \/ /\ ex[e].live /\ ex[e].started /\ ex'[e].pc = "after"
               /\ ex'[e].images \in 1..Requested + 1 /\ ex'[e].ret = ex[e].ret
               /\ ex'[e].failover = ex[e].failover
            \/ /\ ex'[e].pc = "after" /\ ex'[e].images = 0 /\ ex'[e].ret = ex[e].ret
               /\ ex'[e].failover = ex[e].failover
            \/ /\ ex[e].live /\ ex'[e].failover /\ ex'[e].images = ex[e].images
               /\ ex'[e].pc = "get" /\ ex'[e].ret = "upstream"
<1> DEFINE x == ex[e]
<1>1. x \in Execution /\ Quietly /\ x.pc = "call"
  BY ExecOf DEF GoodExec, Call, At, Quietly, ledger
<1>2. \/ x.live /\ x.started
         /\ \E n \in 1 .. Requested + 1 : ex'[e] = [x EXCEPT !.images = n, !.pc = "after"]
      \/ ex'[e] = [x EXCEPT !.images = 0, !.pc = "after"]
      \/ x.live /\ ex'[e] = [x EXCEPT !.failover = TRUE, !.pc = "get", !.ret = "upstream"]
  BY ExecTyped DEF Call, At, Step
<1> HIDE DEF x
<1>3. CASE x.live /\ x.started
           /\ \E n \in 1 .. Requested + 1 : ex'[e] = [x EXCEPT !.images = n, !.pc = "after"]
  <2>1. PICK n \in 1 .. Requested + 1 : ex'[e] = [x EXCEPT !.images = n, !.pc = "after"]
    BY <1>3
  <2> QED BY <1>1, <1>3, <2>1 DEF x, Execution
<1>4. CASE ex'[e] = [x EXCEPT !.images = 0, !.pc = "after"]
  BY <1>1, <1>4 DEF x, Execution
<1>5. CASE x.live /\ ex'[e] = [x EXCEPT !.failover = TRUE, !.pc = "get", !.ret = "upstream"]
  BY <1>1, <1>5 DEF x, Execution
<1> QED BY <1>2, <1>3, <1>4, <1>5

LEMMA AfterDoes ==
  ASSUME TypeInv, NEW e \in Execs, After(e)
  PROVE  /\ Quietly /\ ex[e].pc = "after"
         /\ \/ /\ row.job.status \in CancelStatus \/ (ex[e].images = 0 /\ ~ex[e].live)
               /\ \/ /\ ex[e].started
                     /\ Ends(ex[e], ex'[e], "cancelled", "cancelled", FALSE)
                  \/ /\ ~ex[e].started
                     /\ \/ /\ row.job.status \in CancelStatus
                           /\ Takes(ex[e], ex'[e], "refundCancel", row.job)
                        \/ Takes(ex[e], ex'[e], "refundCancel", ex[e].mem)
            \/ /\ row.job.status \in Final \ CancelStatus
               /\ Takes(ex[e], ex'[e], "exit", row.job)
            \/ /\ row.job.status \notin CancelStatus \cup Final
               /\ ex[e].images = 0 /\ (ex[e].live \/ ex[e].started)
               /\ Goes(ex[e], ex'[e], "refundFailed")
            \/ /\ row.job.status \notin CancelStatus \cup Final /\ ex[e].images > 0
               /\ Goes(ex[e], ex'[e], "settle")
<1> DEFINE y == [ex[e] EXCEPT !.mem = row.job]
<1>0. /\ Quietly /\ ex[e].pc = "after" BY DEF After, At, Quietly, ledger
<1>1. [y EXCEPT !.pc = "refundCancel"] = [ex[e] EXCEPT !.mem = row.job, !.pc = "refundCancel"]
  BY ExecOf DEF GoodExec, Execution
<1>2. CASE row.job.status \in CancelStatus
  <2>1. CASE ex[e].started BY <1>0, <1>2, <2>1, CancelDoes DEF After
  <2>2. CASE ~ex[e].started
    <3>1. Step(e, [ex[e] EXCEPT !.mem = row.job, !.pc = "refundCancel"])
      BY <1>1, <1>2, <2>2 DEF After, CancelStatus, Final
    <3> QED BY <1>0, <1>2, <2>2, <3>1, TakeDoes
  <2> QED BY <2>1, <2>2
<1>3. CASE row.job.status \in Final \ CancelStatus
  BY <1>0, <1>3, TakeDoes DEF After
<1>4. CASE row.job.status \notin CancelStatus \cup Final
  <2>1. CASE ex[e].images = 0 /\ ~ex[e].live
    <3>1. CASE ex[e].started
      <4>1. Step(e, Cancelled(ex[e])) \/ Step(e, [ex[e] EXCEPT !.pc = "refundFailed"])
        BY <1>4, <2>1, <3>1 DEF After
      <4>2. CASE Step(e, Cancelled(ex[e])) BY <1>0, <2>1, <3>1, <4>2, CancelDoes
      <4>3. CASE Step(e, [ex[e] EXCEPT !.pc = "refundFailed"])
        BY <1>0, <1>4, <2>1, <3>1, <4>3, MoveDoes
      <4> QED BY <4>1, <4>2, <4>3
    <3>2. CASE ~ex[e].started
      <4>1. Goes(ex[e], ex'[e], "refundCancel") BY <1>4, <2>1, <3>2, MoveDoes DEF After
      <4> QED BY <1>0, <2>1, <3>2, <4>1 DEF Goes, Takes
    <3> QED BY <3>1, <3>2
  <2>2. CASE ~(ex[e].images = 0 /\ ~ex[e].live)
    <3>1. ex[e].images \in Nat BY ExecOf DEF GoodExec, Execution
    <3> QED BY <1>0, <1>4, <2>2, <3>1, MoveDoes DEF After
  <2> QED BY <2>1, <2>2
<1> QED BY <1>2, <1>3, <1>4

LEMMA CheckSettledDoes ==
  ASSUME TypeInv, NEW e \in Execs, CheckSettled(e)
  PROVE  /\ Quietly /\ ex[e].pc = "checkSettled"
         /\ \/ /\ row.job.status \in CancelStatus
               /\ Ends(ex[e], ex'[e], "cancelled", "cancelled", FALSE)
            \/ /\ row.job.status \notin CancelStatus
               /\ Ends(ex[e], ex'[e], "succeeded", "succeeded", TRUE)
BY CancelDoes, EndDoes DEF CheckSettled, At, Quietly, ledger

LEMMA RecordDoes ==
  ASSUME TypeInv, NEW e \in Execs, Record(e)
  PROVE  /\ UNCHANGED <<row, held, back, cx, rc, crashes>> /\ ex[e].pc = "record"
         /\ gen' = IF ex[e].note = "skip" \/ (ex[e].bound /\ ~ex[e].live)
                   THEN gen ELSE ex[e].note
         /\ Saves(ex[e], ex'[e], "exit", ex[e].mem)
BY GetDoes DEF Record, At, ledger

LEMMA SaveGetDoes ==
  ASSUME TypeInv, NEW e \in Execs, SaveGet(e)
  PROVE  /\ Quietly /\ ex[e].pc = "get"
         /\ \/ /\ row.job.status \in Final /\ ex[e].mem.status \notin Final
               /\ Takes(ex[e], ex'[e], ex[e].ret, row.job)
            \/ /\ ~(row.job.status \in Final /\ ex[e].mem.status \notin Final)
               /\ Goes(ex[e], ex'[e], "put")
BY MoveDoes, TakeDoes DEF SaveGet, At, Quietly, ledger, Preserve

LEMMA ExitDoes ==
  ASSUME TypeInv, NEW e \in Execs, Exit(e)
  PROVE  /\ Quietly /\ ex[e].pc = "exit"
         /\ ex'[e].pc = "done" /\ ex'[e].mem = NoJob /\ ex'[e].ret = "exit" /\ ~ex'[e].beat
         /\ ex'[e].live = ex[e].live /\ ex'[e].started = ex[e].started
         /\ ex'[e].failover = ex[e].failover /\ ex'[e].images = ex[e].images
         /\ ex'[e].unheard = ex[e].unheard
BY ExecTyped DEF Exit, At, Quietly, ledger, Step, Over, GoodExec, Execution

\* Steps that save the row.
LEMMA SavedDoes ==
  ASSUME TypeInv, NEW j \in Job
  PROVE  /\ Saved(j).job.status = j.status
         /\ Saved(j).due = IF j.status = "running" /\ j.lease = "behind" THEN "due" ELSE "no"
         /\ Saved(j).job.lease \in {j.lease, "none"}
         /\ j.status \notin {"queued", "running"} => Saved(j).job.lease = "none"
         /\ Prepared(j).status = j.status /\ Prepared(j).lease \in {j.lease, "none"}
         /\ j.status = "running" => Prepared(j).lease = j.lease
<1>1. /\ Prepared(j).status = j.status /\ Prepared(j).lease \in {j.lease, "none"}
      /\ j.status \notin {"queued", "running"} => Prepared(j).lease = "none"
      /\ j.status = "running" => Prepared(j).lease = j.lease
  BY DEF Prepared, Job
<1>2. Prepared(j) \in Job BY SavedRow
<1> QED BY <1>1, <1>2 DEF Saved, Job

LEMMA SaveRunningDoes ==
  ASSUME TypeInv, NEW e \in Execs, SaveRunning(e)
  PROVE  /\ UNCHANGED <<gen, held, back, cx, rc, crashes>> /\ ex[e].pc = "saveRunning"
         /\ \/ /\ row'.job.status = "running" /\ row'.due = "no" /\ row'.job.lease # "behind"
               /\ ex'[e].pc = "checkRunning" /\ ex'[e].ret = ex[e].ret
               /\ ex'[e].mem.status = "running" /\ ex'[e].mem.lease = "ahead"
               /\ ex'[e].beat /\ ex'[e].live = ex[e].live
               /\ ex'[e].started = ex[e].started /\ ex'[e].failover = ex[e].failover
               /\ ex'[e].sub = ex[e].sub /\ ex'[e].images = ex[e].images
               /\ ex'[e].unheard = ex[e].unheard
            \/ row' = row /\ Ends(ex[e], ex'[e], "failed", "failed", TRUE)
<1> DEFINE x == ex[e]
           j == [x.mem EXCEPT !.status = "running", !.stage = "running", !.lease = "ahead"]
<1>1. x \in Execution /\ x.mem \in Job BY ExecOf DEF GoodExec, Execution
<1>2. j \in Job /\ j.status = "running" /\ j.lease = "ahead" BY <1>1 DEF Job, Status, Stage
<1>3. UNCHANGED <<gen, held, back, cx, rc, crashes>> /\ x.pc = "saveRunning"
  BY DEF SaveRunning, At, ledger
<1>4. \/ row' = Saved(j) /\ Step(e, [x EXCEPT !.mem = Prepared(j), !.beat = TRUE,
                                              !.pc = "checkRunning"])
      \/ row' = row /\ Step(e, Ending([x EXCEPT !.mem = j], "failed", "failed", TRUE))
  BY DEF SaveRunning
<1> HIDE DEF j
<1>5. CASE row' = Saved(j) /\ Step(e, [x EXCEPT !.mem = Prepared(j), !.beat = TRUE,
                                                !.pc = "checkRunning"])
  <2>1. ex'[e] = [x EXCEPT !.mem = Prepared(j), !.beat = TRUE, !.pc = "checkRunning"]
    BY <1>5, ExecTyped DEF Step
  <2>2. /\ Prepared(j).status = "running" /\ Prepared(j).lease = "ahead"
        /\ row'.job.status = "running" /\ row'.due = "no" /\ row'.job.lease # "behind"
    BY <1>2, <1>5, SavedDoes
  <2> HIDE DEF x
  <2> QED BY <1>1, <1>3, <2>1, <2>2 DEF x, Execution
<1>6. CASE row' = row /\ Step(e, Ending([x EXCEPT !.mem = j], "failed", "failed", TRUE))
  BY <1>2, <1>3, <1>6, EndOfTakenDoes
<1> QED BY <1>4, <1>5, <1>6

LEMMA SavePutDoes ==
  ASSUME TypeInv, NEW e \in Execs, SavePut(e)
  PROVE  /\ UNCHANGED <<gen, held, back, cx, rc, crashes>> /\ ex[e].pc = "put"
         /\ row' = Saved(ex[e].mem)
         /\ Takes(ex[e], ex'[e], ex[e].ret, Prepared(ex[e].mem))
         /\ ex[e].mem \in Job
BY TakeDoes, ExecOf DEF SavePut, At, ledger, GoodExec, Execution

LEMMA ClaimDoes ==
  ASSUME TypeInv, NEW e \in Execs, NEW i \in Instances, Claim(e, i)
  PROVE  /\ UNCHANGED <<gen, held, back, cx, rc, crashes>>
         /\ ex[e].pc = "idle" /\ row.job.status = "queued"
         /\ row'.job.status = "queued" /\ row'.due = "no" /\ row'.job.lease = "ahead"
         /\ Takes(ex[e], ex'[e], "start", NoJob)
<1>1. row \in Row /\ row.job \in Job /\ ex[e] \in Execution
  BY ExecTyped, ExecOf DEF GoodExec
<1>2. ex'[e] = [ex[e] EXCEPT !.pc = "start", !.host = i, !.mem = NoJob]
  BY ExecTyped DEF Claim, Step
<1>3. Takes(ex[e], ex'[e], "start", NoJob)
  BY <1>1, <1>2 DEF Takes, Carries, Execution
<1> QED BY <1>1, <1>3 DEF Claim, Claimable, At, ledger, Job

-----------------------------------------------------------------------------
(* Refunds.                                                                *)

\* Whatever is refunded, no wallet gets more and none is overdrawn.
Less == /\ held' = held
        /\ \A w \in Wallets : Refundable(w)' \in 0..Refundable(w)

LEMMA Owed ==
  ASSUME TypeInv
  PROVE  /\ \A w \in Wallets : Refundable(w) \in Nat /\ held[w] \in Nat /\ back[w] \in Nat
         /\ \A w \in Wallets : Refundable(w) = held[w] - back[w]
         /\ Outstanding = Refundable("sub") + Refundable("bal") /\ Outstanding \in Nat
         /\ Outstanding = held["sub"] + held["bal"] - back["sub"] - back["bal"]
<1>1. /\ held \in [Wallets -> Nat] /\ back \in [Wallets -> Nat]
      /\ \A w \in Wallets : back[w] <= held[w]
  BY DEF TypeInv, TypeOK
<1>2. \A w \in Wallets : Refundable(w) = held[w] - back[w] BY DEF Refundable
<1>3. \A w \in Wallets : Refundable(w) \in Nat BY <1>1, <1>2
<1> HIDE DEF Refundable
<1> QED BY <1>1, <1>2, <1>3 DEF Outstanding, Wallets

LEMMA RefundUpToDoes ==
  ASSUME TypeInv, NEW n \in Nat, RefundUpTo(n), held' = held
  PROVE  /\ Less
         /\ Outstanding' = IF n <= Outstanding THEN Outstanding - n ELSE 0
<1> DEFINE b == Least(n, Refundable("bal"))
           s == Least(n - b, Refundable("sub"))
<1>1. /\ held \in [Wallets -> Nat] /\ back \in [Wallets -> Nat]
      /\ Refundable("bal") \in Nat /\ Refundable("sub") \in Nat
      /\ Outstanding = Refundable("sub") + Refundable("bal")
      /\ \A w \in Wallets : Refundable(w) = held[w] - back[w]
  BY Owed DEF TypeInv, TypeOK, Wallets
<1>2. b \in Nat /\ b <= Refundable("bal") /\ n - b \in Nat
      /\ b = IF n <= Refundable("bal") THEN n ELSE Refundable("bal")
  BY <1>1 DEF Least
<1>3. s \in Nat /\ s <= Refundable("sub")
      /\ s = IF n - b <= Refundable("sub") THEN n - b ELSE Refundable("sub")
  BY <1>1, <1>2 DEF Least
<1>4. back' = [back EXCEPT !["bal"] = @ + b, !["sub"] = @ + s] BY DEF RefundUpTo
<1> HIDE DEF b, s
<1>5. /\ back'["bal"] = back["bal"] + b /\ back'["sub"] = back["sub"] + s
  BY <1>1, <1>4 DEF Wallets
<1>6. /\ Refundable("bal")' = Refundable("bal") - b
      /\ Refundable("sub")' = Refundable("sub") - s
  BY <1>1, <1>2, <1>3, <1>5 DEF Refundable, Wallets
<1>7. Outstanding' = Refundable("sub")' + Refundable("bal")' BY DEF Outstanding
<1>8. Less BY <1>1, <1>2, <1>3, <1>6 DEF Less, Wallets
<1> QED BY <1>1, <1>2, <1>3, <1>6, <1>7, <1>8

LEMMA RefundAllOfDoes ==
  ASSUME TypeInv, NEW w \in Wallets, RefundAllOf(w), held' = held
  PROVE  /\ Less /\ Refundable(w)' = 0
         /\ \A u \in Wallets \ {w} : Refundable(u)' = Refundable(u)
<1>1. /\ held \in [Wallets -> Nat] /\ back \in [Wallets -> Nat]
      /\ \A u \in Wallets : Refundable(u) \in Nat
  BY Owed DEF TypeInv, TypeOK
<1>2. back' = [back EXCEPT ![w] = held[w]] BY DEF RefundAllOf
<1>3. Refundable(w)' = 0 BY <1>1, <1>2 DEF Refundable
<1>4. \A u \in Wallets \ {w} : Refundable(u)' = Refundable(u)
  BY <1>1, <1>2 DEF Refundable
<1> QED BY <1>1, <1>3, <1>4 DEF Less

LEMMA RefundWalletDoes ==
  ASSUME TypeInv, NEW n \in Nat, RefundWallet("sub", n), held' = held
  PROVE  /\ Less /\ Refundable("bal")' = Refundable("bal")
         /\ Refundable("sub") <= n => Refundable("sub")' = 0
<1>1. /\ held \in [Wallets -> Nat] /\ back \in [Wallets -> Nat]
      /\ \A u \in Wallets : Refundable(u) \in Nat /\ Refundable(u) = held[u] - back[u]
  BY Owed DEF TypeInv, TypeOK
<1> DEFINE r == Least(n, Refundable("sub"))
<1>2. r \in Nat /\ r <= Refundable("sub") /\ (Refundable("sub") <= n => r = Refundable("sub"))
  BY <1>1 DEF Least, Wallets
<1>3. back' = [back EXCEPT !["sub"] = @ + r] BY DEF RefundWallet
<1> HIDE DEF r
<1>4. Refundable("bal")' = Refundable("bal") /\ Refundable("sub")' = Refundable("sub") - r
  BY <1>1, <1>2, <1>3 DEF Refundable, Wallets
<1> QED BY <1>1, <1>2, <1>4 DEF Less, Wallets

LEMMA ReserveSubDoes ==
  ASSUME TypeInv, NEW e \in Execs, ReserveSub(e)
  PROVE  /\ UNCHANGED <<row, gen, back, cx, rc, crashes>> /\ ex[e].pc = "reserveSub"
         /\ \/ held' = held /\ ~ex[e].live /\ Ends(ex[e], ex'[e], "failed", "failed", TRUE)
            \/ /\ ex[e].live /\ held'["bal"] = held["bal"]
               /\ held'["sub"] = held["sub"] + ex'[e].sub /\ ex'[e].sub \in Nat
               /\ ex'[e].live = ex[e].live /\ ex'[e].beat = ex[e].beat
               /\ ex'[e].started = ex[e].started /\ ex'[e].failover = ex[e].failover
               /\ ex'[e].images = ex[e].images /\ ex'[e].mem = ex[e].mem
               /\ ex'[e].unheard = ex[e].unheard
               /\ \/ /\ ex'[e].pc = "get" /\ ex'[e].ret = "checkReserved"
                     /\ ex'[e].sub = Requested
                  \/ ex'[e].pc = "reserveBal" /\ ex'[e].ret = ex[e].ret
<1> DEFINE x == ex[e]
<1>1. x \in Execution /\ held \in [Wallets -> Nat] BY ExecOf DEF GoodExec, TypeInv, TypeOK
<1>2. UNCHANGED <<row, gen, back, cx, rc, crashes>> /\ x.pc = "reserveSub"
  BY DEF ReserveSub, At, ledger
<1>3. CASE ~x.live BY <1>2, <1>3, EndDoes DEF ReserveSub
<1>4. CASE x.live
  <2>1. PICK s \in {0, 1, Requested} :
          /\ held' = [held EXCEPT !["sub"] = @ + s]
          /\ \/ /\ s = Requested
                /\ ex'[e] = [x EXCEPT !.sub = s, !.pc = "get", !.ret = "checkReserved"]
             \/ ex'[e] = [x EXCEPT !.sub = s, !.pc = "reserveBal"]
    BY <1>4, ExecTyped DEF ReserveSub, Step
  <2>2. s \in Nat BY ImageJobAssumption
  <2>3. held'["bal"] = held["bal"] /\ held'["sub"] = held["sub"] + s
    BY <1>1, <2>1, <2>2 DEF Wallets
  <2> HIDE DEF x
  <2> QED BY <1>1, <1>2, <1>4, <2>1, <2>2, <2>3 DEF x, Execution
<1> QED BY <1>3, <1>4

LEMMA ReserveBalDoes ==
  ASSUME TypeInv, NEW e \in Execs, ReserveBal(e)
  PROVE  /\ UNCHANGED <<row, gen, back, cx, rc, crashes>> /\ ex[e].pc = "reserveBal"
         /\ \/ held' = held /\ Goes(ex[e], ex'[e], "undoSub")
            \/ /\ ex[e].live /\ held'["sub"] = held["sub"]
               /\ held'["bal"] = held["bal"] + (Requested - ex[e].sub)
               /\ Goes(ex[e], ex'[e], "reserveReply")
<1>1. held \in [Wallets -> Nat] BY DEF TypeInv, TypeOK
<1> QED BY <1>1, MoveDoes DEF ReserveBal, At, ledger, Wallets

LEMMA RefundsDo ==
  ASSUME TypeInv, NEW e \in Execs, UndoSub(e) \/ RefundCancel(e) \/ RefundFailed(e)
  PROVE  /\ UNCHANGED <<row, gen, cx, rc, crashes>> /\ Less
         /\ \/ /\ ex[e].pc = "undoSub" /\ Ends(ex[e], ex'[e], "failed", "failed", TRUE)
               /\ Refundable("bal")' = Refundable("bal")
               /\ Refundable("sub") <= ex[e].sub => Refundable("sub")' = 0
            \/ /\ ex[e].pc = "refundCancel"
               /\ Ends(ex[e], ex'[e], "cancelled", "cancelled", FALSE)
               /\ Outstanding <= Requested => Outstanding' = 0
            \/ /\ ex[e].pc = "refundFailed"
               /\ Ends(ex[e], ex'[e], "failed", "failed", TRUE)
               /\ RefundOnFailure /\ Outstanding <= Requested => Outstanding' = 0
<1>0. Requested \in Nat /\ Outstanding \in Nat BY ImageJobAssumption, Owed
<1>1. CASE UndoSub(e)
  <2>1. ex[e].sub \in Nat BY ExecOf DEF GoodExec, Execution
  <2> QED BY <1>1, <2>1, RefundWalletDoes, EndDoes DEF UndoSub, At
<1>2. CASE RefundCancel(e)
  <2>1. RefundUpTo(Requested) /\ held' = held BY <1>2 DEF RefundCancel
  <2>2. Less /\ (Outstanding <= Requested => Outstanding' = 0)
    BY <1>0, <2>1, RefundUpToDoes
  <2> QED BY <1>2, <2>2, CancelDoes DEF RefundCancel, At
<1>3. CASE RefundFailed(e)
  <2>1. held' = held /\ IF RefundOnFailure THEN RefundUpTo(Requested) ELSE back' = back
    BY <1>3 DEF RefundFailed
  <2>2. Less /\ (RefundOnFailure /\ Outstanding <= Requested => Outstanding' = 0)
    <3>1. CASE RefundOnFailure BY <1>0, <2>1, <3>1, RefundUpToDoes
    <3>2. CASE ~RefundOnFailure BY <2>1, <3>2, Owed DEF Less, Refundable
    <3> QED BY <3>1, <3>2
  <2> QED BY <1>3, <2>2, EndDoes DEF RefundFailed, At
<1> QED BY <1>1, <1>2, <1>3

LEMMA SettleDoes ==
  ASSUME TypeInv, NEW e \in Execs, Settle(e)
  PROVE  /\ UNCHANGED <<row, gen, cx, rc, crashes>> /\ ex[e].pc = "settle"
         /\ ex'[e].pc = "checkSettled" /\ ex'[e].ret = ex[e].ret /\ ex'[e].mem = ex[e].mem
         /\ ex'[e].live = ex[e].live /\ ex'[e].beat = ex[e].beat
         /\ ex'[e].started = ex[e].started /\ ex'[e].failover = ex[e].failover
         /\ ex'[e].unheard = ex[e].unheard /\ ex'[e].sub = ex[e].sub
         /\ \/ /\ ex[e].images < Requested /\ ex'[e].images = ex[e].images
               /\ Less
               /\ \/ /\ RefundPartial /\ RefundOnFailure
                     /\ Outstanding' = IF Missing(ex[e].images) <= Outstanding
                                       THEN Outstanding - Missing(ex[e].images) ELSE 0
                  \/ ~(RefundPartial /\ RefundOnFailure) /\ back' = back
            \/ /\ ex[e].images >= Requested /\ ex'[e].images = Requested
               /\ UNCHANGED <<held, back>>
            \/ /\ ex[e].images > Requested /\ ex'[e].images = ex[e].images
               /\ back' = back
               /\ \E w \in Wallets :
                    held' = [held EXCEPT ![w] = @ + (ex[e].images - Requested)]
<1> DEFINE x == ex[e]
<1>1. /\ x \in Execution /\ x.images \in Nat /\ Requested \in Nat
      /\ Outstanding \in Nat
  BY ExecOf, Owed, ImageJobAssumption DEF GoodExec, Execution
<1>2. UNCHANGED <<row, gen, cx, rc, crashes>> /\ x.pc = "settle"
  BY DEF Settle, At, ledger
<1>3. ASSUME Step(e, [x EXCEPT !.pc = "checkSettled"])
      PROVE  Goes(x, ex'[e], "checkSettled")
  BY <1>3, MoveDoes
<1>4. CASE /\ x.images < Requested /\ Step(e, [x EXCEPT !.pc = "checkSettled"])
           /\ held' = held
           /\ IF RefundPartial /\ RefundOnFailure
              THEN RefundUpTo(Missing(x.images)) ELSE back' = back
  <2>1. CASE RefundPartial /\ RefundOnFailure
    <3>1. Missing(x.images) \in Nat BY <1>1, <1>4 DEF Missing
    <3> HIDE DEF Missing
    <3>2. Less /\ Outstanding' = IF Missing(x.images) <= Outstanding
                                 THEN Outstanding - Missing(x.images) ELSE 0
      BY <1>1, <1>4, <2>1, <3>1, RefundUpToDoes
    <3> QED BY <1>2, <1>3, <1>4, <2>1, <3>2 DEF Goes, Carries
  <2>2. CASE ~(RefundPartial /\ RefundOnFailure)
    <3>1. Less BY <1>4, <2>2, Owed DEF Less, Refundable
    <3> QED BY <1>2, <1>3, <1>4, <2>2, <3>1 DEF Goes, Carries
  <2> QED BY <2>1, <2>2
<1>5. CASE /\ x.images = Requested /\ Step(e, [x EXCEPT !.pc = "checkSettled"])
           /\ UNCHANGED ledger
  BY <1>1, <1>2, <1>3, <1>5 DEF Goes, Carries, ledger
<1>6. CASE /\ x.images > Requested /\ Step(e, [x EXCEPT !.pc = "checkSettled"])
           /\ back' = back
           /\ \E w \in Wallets : held' = [held EXCEPT ![w] = @ + (x.images - Requested)]
  BY <1>1, <1>2, <1>3, <1>6 DEF Goes, Carries
<1>7. CASE /\ x.images > Requested /\ UNCHANGED ledger
           /\ Step(e, [x EXCEPT !.images = Requested, !.pc = "checkSettled"])
  <2>1. ex'[e] = [x EXCEPT !.images = Requested, !.pc = "checkSettled"]
    BY <1>7, ExecTyped DEF Step
  <2> QED BY <1>1, <1>2, <1>7, <2>1 DEF Execution, ledger
<1>8. \/ /\ x.images < Requested /\ Step(e, [x EXCEPT !.pc = "checkSettled"])
         /\ held' = held
         /\ IF RefundPartial /\ RefundOnFailure
            THEN RefundUpTo(Missing(x.images)) ELSE back' = back
      \/ /\ x.images = Requested /\ Step(e, [x EXCEPT !.pc = "checkSettled"])
         /\ UNCHANGED ledger
      \/ /\ x.images > Requested /\ Step(e, [x EXCEPT !.pc = "checkSettled"])
         /\ back' = back
         /\ \E w \in Wallets : held' = [held EXCEPT ![w] = @ + (x.images - Requested)]
      \/ /\ x.images > Requested /\ UNCHANGED ledger
         /\ Step(e, [x EXCEPT !.images = Requested, !.pc = "checkSettled"])
  BY DEF Settle
<1> QED BY <1>4, <1>5, <1>6, <1>7, <1>8

-----------------------------------------------------------------------------
(* The course of the execution.  Where it is, how far time can have got:   *)
(* the row becomes stale only while the execution waits, has lost its      *)
(* heartbeat, or has saved a lease that was over.                          *)

\* Where an execution that saves the job goes on
Goal(v) == IF v.pc \in {"get", "put"} THEN v.ret ELSE v.pc

Closing(v) == v.pc = "record" \/ (v.pc \in {"get", "put"} /\ v.ret = "exit")
Out(v) == v.pc \in {"exit", "done", "dead"}

Queueing == {"start", "precheck", "placeQueued"}
Waiting == {"admission", "saveRunning"}
Charging == {"checkRunning", "placeRunning", "reserveSub", "reserveBal", "reserveReply",
             "undoSub", "checkReserved", "checkDispatch"}
Sending == {"upstream", "call", "after", "settle", "checkSettled", "refundCancel",
            "refundFailed"}

\* It may have saved a lease that was over.
Late(v) == Clock /\ v.failover

\* It never waits for long, and what it saves is not stale.
Busy(v) == \/ Goal(v) \in Queueing \cup Charging
           \/ ~Late(v) /\ (Goal(v) = "upstream" \/ (Goal(v) = "call" /\ v.pc # "call"))

\* A running row that is stale is not its own, and it has not failed either.
Course(v, job, due) ==
  /\ Busy(v) => due = "no" /\ job.status # "failed" /\ v.mem.lease # "behind"
  /\ ~Late(v) /\ v.mem.status = "failed" => Closing(v) \/ v.pc = "exit"
  /\ ~v.failover /\ v.beat /\ v.live /\ job.status = "running" => due = "no"
  /\ ~Late(v) /\ v.live /\ v.pc = "call" => job.status # "failed"
  /\ ~Late(v) /\ (v.pc = "settle" \/ (v.pc = "after" /\ v.images > 0)) =>
       job.status # "failed" /\ (job.status = "running" => due = "no")
  /\ Goal(v) \in Charging \cup Sending =>
       v.beat /\ job.status # "queued" /\ v.mem.status # "queued"
  /\ Closing(v) => v.mem.status \in Final
  /\ "succeeded" \in {job.status, v.mem.status} => Closing(v) \/ Out(v)
  /\ v.images > 0 => /\ v.started
                     /\ \/ v.pc \in {"after", "settle", "checkSettled"}
                        \/ Closing(v) \/ Out(v)
  /\ v.pc \in {"settle", "checkSettled"} => v.images > 0
  /\ v.ret = "upstream" => v.failover
  /\ v.pc \in {"idle", "done", "dead"} => ~v.beat
  /\ v.failover => Goal(v) \notin {"idle"} \cup Queueing \cup Waiting \cup Charging
  /\ ~Clock => v.mem.lease # "behind"

RowFits(job, due) ==
  /\ job.status \in Final => due = "no" /\ job.lease = "none"
  /\ ~Clock => due = "no" /\ job.lease # "behind"

\* What is stale while a pass of the reconciler lasts was stale when it began,
\* and is still as it was listed.
PassFits(v, job, due, r) ==
  /\ due # "no" /\ r.pc # "idle" /\ ~Late(v) =>
       r.final = StaleFinal(job) /\ r.refunds = RefundsStale(job)
  /\ ~Clock => r.pc = "idle"

\* A cancel request saves nothing else than a cancellation, and refunds the
\* subscription only after the balance.
RequestFits(r) ==
  /\ r.pc \in {"put", "refundSub", "snapshot", "final"} => r.item.status \in CancelStatus
  /\ r.pc \in {"idle", "get"} => r.item.status = "queued"
  /\ r.pc = "refundSub" => r.early
  /\ ~Clock => r.item.lease # "behind"

CourseInv ==
  /\ RowFits(row.job, row.due)
  /\ \A e \in Execs :
       /\ Course(ex[e], row.job, row.due)
       /\ \A i \in Instances : PassFits(ex[e], row.job, row.due, rc[i])
  /\ \A c \in Cancels : RequestFits(cx[c])

LEMMA CourseKept ==
  ASSUME CourseInv, NEW e \in Execs, Alone(e), UNCHANGED <<row, cx, rc>>,
         ex[e].failover => ex'[e].failover, Course(ex'[e], row.job, row.due)
  PROVE  CourseInv'
BY DEF CourseInv, Alone, Course, RowFits, PassFits, Late, RequestFits

LEMMA ExecFields ==
  ASSUME TypeInv, NEW e \in Execs
  PROVE  /\ ex[e].pc \in ExecPc /\ ex[e].ret \in ExecRet /\ ex[e].images \in Nat
         /\ ex[e].mem \in Job /\ ex[e].mem.status \in Status
         /\ ex[e].mem.lease \in {"none", "ahead", "behind"}
         /\ ex[e].live \in BOOLEAN /\ ex[e].beat \in BOOLEAN /\ ex[e].started \in BOOLEAN
         /\ ex[e].failover \in BOOLEAN /\ ex[e].unheard \in BOOLEAN /\ ex[e].sub \in Nat
         /\ ex[e].sub <= Requested
         /\ row.job.status \in Status /\ row.job.lease \in {"none", "ahead", "behind"}
         /\ row.due \in {"no", "due"}
BY ExecTyped DEF GoodExec, Execution, Job, Row

\* Steps that change nothing else.
LEMMA EndingCourse ==
  ASSUME TypeInv, TypeInv', CourseInv, NEW e \in Execs, Alone(e), UNCHANGED <<row, cx, rc>>,
         NEW s \in Final, NEW n, NEW b, Ends(ex[e], ex'[e], s, n, b)
  PROVE  CourseInv'
<1>1. Course(ex[e], row.job, row.due) BY DEF CourseInv
<1>2. Course(ex'[e], row.job, row.due)
  BY <1>1, ExecFields DEF Course, Ends, Carries, Busy, Goal, Closing, Out, Late, Queueing,
     Waiting, Charging, Sending, Final, ExecRet
<1>3. ex'[e].failover = ex[e].failover BY DEF Ends, Carries
<1> QED BY <1>2, <1>3, CourseKept

LEMMA QueueingCourse ==
  ASSUME TypeInv, TypeInv', CourseInv, NEW e \in Execs, Alone(e),
         Start(e) \/ Precheck(e) \/ PlaceQueued(e) \/ Admission(e)
  PROVE  CourseInv'
<1>0. UNCHANGED <<row, cx, rc>>
  BY StartDoes, PrecheckDoes, PlaceDoes, AdmissionDoes DEF Quietly
<1>1. Course(ex[e], row.job, row.due) BY DEF CourseInv
<1>2. \/ \E s \in Final : \E n, b : Ends(ex[e], ex'[e], s, n, b)
      \/ ex[e].pc = "start" /\ Goes(ex[e], ex'[e], "precheck")
      \/ /\ ex[e].pc = "precheck" /\ Saves(ex[e], ex'[e], "placeQueued", ex'[e].mem)
         /\ ex'[e].mem.status = "queued" /\ ex'[e].mem.lease = ex[e].mem.lease
      \/ ex[e].pc = "placeQueued" /\ Goes(ex[e], ex'[e], "admission")
      \/ ex[e].pc = "admission" /\ Goes(ex[e], ex'[e], "saveRunning")
  BY StartDoes, PrecheckDoes, PlaceDoes, AdmissionDoes DEF Final, PlaceQueued, At
<1>3. CASE \E s \in Final : \E n, b : Ends(ex[e], ex'[e], s, n, b)
  BY <1>0, <1>3, EndingCourse
<1>4. CASE ~\E s \in Final : \E n, b : Ends(ex[e], ex'[e], s, n, b)
  <2>1. Course(ex'[e], row.job, row.due)
    BY <1>1, <1>2, <1>4, ExecFields
    DEF Course, Goes, Saves, Carries, Busy, Goal, Closing, Out, Late, Queueing,
        Waiting, Charging, Sending, Final, ExecRet
  <2>2. ex'[e].failover = ex[e].failover BY <1>2, <1>4 DEF Goes, Saves, Carries
  <2> QED BY <1>0, <2>1, <2>2, CourseKept
<1> QED BY <1>3, <1>4

\* A cancellation that has been read is on its way to the refund.
LEMMA CancelTaken ==
  ASSUME TypeInv, CourseInv, NEW e \in Execs, Alone(e), UNCHANGED <<row, cx, rc>>,
         row.job.status \in CancelStatus,
         \/ ex[e].pc \in {"checkReserved", "checkDispatch"}
         \/ ex[e].pc = "after" /\ ~ex[e].started,
         Takes(ex[e], ex'[e], "refundCancel", row.job)
  PROVE  CourseInv'
<1>1. Course(ex[e], row.job, row.due) /\ (~Clock => row.job.lease # "behind")
  BY DEF CourseInv, RowFits
<1>2. /\ ex'[e].pc = "refundCancel" /\ ex'[e].mem = row.job /\ ex'[e].ret = ex[e].ret
      /\ row.job.status \in {"cancelled", "cancel_requested"}
      /\ Carries(ex[e], ex'[e])
  BY DEF Takes, CancelStatus
<1>3. ex[e].beat /\ ~(ex[e].images > 0)
  BY <1>1, <1>2, ExecFields DEF Course, Goal, Charging, Sending, Closing, Out
<1>4. Course(ex'[e], row.job, row.due)
  BY <1>1, <1>2, <1>3, ExecFields
  DEF Course, Carries, Busy, Goal, Closing, Out, Late, Queueing, Waiting, Charging, Sending
<1> QED BY <1>2, <1>4, CourseKept DEF Carries

LEMMA ChargingCourse ==
  ASSUME TypeInv, TypeInv', CourseInv, NEW e \in Execs, Alone(e),
         \/ CheckRunning(e) \/ PlaceRunning(e) \/ ReserveSub(e) \/ ReserveBal(e)
         \/ ReserveReply(e) \/ CheckReserved(e) \/ CheckDispatch(e)
  PROVE  CourseInv'
<1>1. /\ Course(ex[e], row.job, row.due)
      /\ ~Clock => row.job.lease # "behind"
  BY DEF CourseInv, RowFits
<1>2. CASE CheckRunning(e) \/ CheckReserved(e) \/ CheckDispatch(e)
  <2>1. UNCHANGED <<row, cx, rc>> BY <1>2, ChecksDo DEF Quietly
  <2>2. CASE \E s \in Final : \E n, b : Ends(ex[e], ex'[e], s, n, b)
    BY <2>1, <2>2, EndingCourse
  <2>3. CASE ~\E s \in Final : \E n, b : Ends(ex[e], ex'[e], s, n, b)
    <3>1. CASE row.job.status \in CancelStatus
      <4>1. /\ ex[e].pc \in {"checkReserved", "checkDispatch"}
            /\ Takes(ex[e], ex'[e], "refundCancel", row.job)
        BY <1>2, <2>3, <3>1, ChecksDo DEF Final
      <4> QED BY <1>1, <2>1, <3>1, <4>1, CancelTaken
    <3>2. CASE row.job.status \notin CancelStatus
      <4>1. Course(ex'[e], row.job, row.due)
        BY <1>1, <1>2, <2>3, <3>2, ExecFields, ChecksDo
        DEF Course, Goes, Saves, Carries, Busy, Goal, Closing, Out, Late, Queueing,
            Waiting, Charging, Sending
      <4>2. ex'[e].failover = ex[e].failover
        BY <1>2, <2>3, <3>2, ChecksDo DEF Goes, Saves, Carries
      <4> QED BY <2>1, <4>1, <4>2, CourseKept
    <3> QED BY <3>1, <3>2
  <2> QED BY <2>2, <2>3
<1>3. CASE PlaceRunning(e)
  <2>1. UNCHANGED <<row, cx, rc>> /\ ex[e].pc = "placeRunning" /\ Goes(ex[e], ex'[e], "reserveSub")
    BY <1>3, PlaceDoes DEF PlaceRunning, At
  <2>2. Course(ex'[e], row.job, row.due)
    BY <1>1, <2>1, ExecFields
    DEF Course, Goes, Carries, Busy, Goal, Closing, Out, Late, Queueing, Waiting, Charging, Sending
  <2> QED BY <2>1, <2>2, CourseKept DEF Goes, Carries
<1>4. CASE ReserveSub(e)
  <2>1. UNCHANGED <<row, cx, rc>> BY <1>4, ReserveSubDoes
  <2>2. CASE \E s \in Final : \E n, b : Ends(ex[e], ex'[e], s, n, b)
    BY <2>1, <2>2, EndingCourse
  <2>3. CASE ~\E s \in Final : \E n, b : Ends(ex[e], ex'[e], s, n, b)
    <3>1. Course(ex'[e], row.job, row.due)
      BY <1>1, <1>4, <2>3, ExecFields, ReserveSubDoes
      DEF Course, Busy, Goal, Closing, Out, Late, Queueing, Waiting, Charging, Sending, Final
    <3>2. ex'[e].failover = ex[e].failover BY <1>4, <2>3, ReserveSubDoes DEF Final
    <3> QED BY <2>1, <3>1, <3>2, CourseKept
  <2> QED BY <2>2, <2>3
<1>5. CASE ReserveBal(e) \/ ReserveReply(e)
  <2>1. UNCHANGED <<row, cx, rc>> BY <1>5, ReserveBalDoes, ReserveReplyDoes DEF Quietly
  <2>2. Course(ex'[e], row.job, row.due)
    BY <1>1, <1>5, ExecFields, ReserveBalDoes, ReserveReplyDoes
    DEF Course, Goes, Saves, Carries, Busy, Goal, Closing, Out, Late, Queueing,
        Waiting, Charging, Sending
  <2>3. ex'[e].failover = ex[e].failover
    BY <1>5, ReserveBalDoes, ReserveReplyDoes DEF Goes, Saves, Carries
  <2> QED BY <2>1, <2>2, <2>3, CourseKept
<1> QED BY <1>2, <1>3, <1>4, <1>5

LEMMA SendingCourse ==
  ASSUME TypeInv, TypeInv', CourseInv, NEW e \in Execs, Alone(e),
         \/ UndoSub(e) \/ RefundCancel(e) \/ RefundFailed(e) \/ Upstream(e) \/ Call(e)
         \/ After(e) \/ Settle(e) \/ CheckSettled(e)
  PROVE  CourseInv'
<1>1. /\ Course(ex[e], row.job, row.due)
      /\ row.job.status \in Final => row.job.lease = "none" /\ row.due = "no"
      /\ ~Clock => row.due = "no" /\ row.job.lease # "behind"
  BY DEF CourseInv, RowFits
<1>2. CASE UndoSub(e) \/ RefundCancel(e) \/ RefundFailed(e) \/ CheckSettled(e)
  <2>1. /\ UNCHANGED <<row, cx, rc>>
        /\ \E s \in Final : \E n, b : Ends(ex[e], ex'[e], s, n, b)
    BY <1>2, RefundsDo, CheckSettledDoes DEF Quietly, Final
  <2> QED BY <2>1, EndingCourse
<1>3. CASE Upstream(e)
  <2>1. UNCHANGED <<row, cx, rc>> BY <1>3, UpstreamDoes DEF Quietly
  <2>2. Course(ex'[e], row.job, row.due)
    BY <1>1, <1>3, ExecFields, UpstreamDoes
    DEF Course, Goes, Carries, Busy, Goal, Closing, Out, Late, Queueing, Waiting, Charging, Sending
  <2>3. ex'[e].failover = ex[e].failover BY <1>3, UpstreamDoes DEF Goes, Carries
  <2> QED BY <2>1, <2>2, <2>3, CourseKept
<1>4. CASE Call(e)
  <2>1. UNCHANGED <<row, cx, rc>> BY <1>4, CallDoes DEF Quietly
  <2>2. Course(ex'[e], row.job, row.due)
    BY <1>1, <1>4, ExecFields, CallDoes
    DEF Course, Busy, Goal, Closing, Out, Late, Queueing, Waiting, Charging, Sending
  <2>3. ex[e].failover => ex'[e].failover BY <1>4, CallDoes
  <2> QED BY <2>1, <2>2, <2>3, CourseKept
<1>5. CASE After(e)
  <2>1. UNCHANGED <<row, cx, rc>> BY <1>5, AfterDoes DEF Quietly
  <2>2. CASE \E s \in Final : \E n, b : Ends(ex[e], ex'[e], s, n, b)
    BY <2>1, <2>2, EndingCourse
  <2>3. CASE ~\E s \in Final : \E n, b : Ends(ex[e], ex'[e], s, n, b)
    <3>0. ex[e].pc = "after" BY <1>5, AfterDoes
    <3>1. CASE /\ row.job.status \in CancelStatus /\ ~ex[e].started
               /\ Takes(ex[e], ex'[e], "refundCancel", row.job)
      BY <2>1, <3>0, <3>1, CancelTaken
    <3>2. CASE /\ ex[e].images = 0 \/ ~ex[e].started
               /\ Takes(ex[e], ex'[e], "refundCancel", ex[e].mem)
      <4>1. ex[e].images = 0 BY <1>1, <3>2, ExecFields DEF Course
      <4>2. Course(ex'[e], row.job, row.due)
        BY <1>1, <3>0, <3>2, <4>1, ExecFields
        DEF Course, Takes, Carries, Busy, Goal, Closing, Out, Late, Queueing, Waiting, Charging, Sending
      <4> QED BY <2>1, <3>2, <4>2, CourseKept DEF Takes, Carries
    <3>3. CASE /\ row.job.status \in Final \ CancelStatus
               /\ Takes(ex[e], ex'[e], "exit", row.job)
      <4>1. row.job.status \in {"failed", "succeeded"} /\ row.job.lease = "none"
        BY <1>1, <3>3 DEF Final, CancelStatus
      <4>2. Course(ex'[e], row.job, row.due)
        BY <1>1, <3>0, <3>3, <4>1, ExecFields
        DEF Course, Takes, Carries, Busy, Goal, Closing, Out, Late, Queueing, Waiting, Charging, Sending
      <4> QED BY <2>1, <3>3, <4>2, CourseKept DEF Takes, Carries
    <3>4. CASE /\ row.job.status \notin CancelStatus \cup Final
               /\ \/ Goes(ex[e], ex'[e], "settle") /\ ex[e].images > 0
                  \/ Goes(ex[e], ex'[e], "refundFailed") /\ ex[e].images = 0
      <4>1. Course(ex'[e], row.job, row.due)
        BY <1>1, <3>0, <3>4, ExecFields
        DEF Course, Goes, Carries, Busy, Goal, Closing, Out, Late, Queueing, Waiting, Charging, Sending
      <4> QED BY <2>1, <3>4, <4>1, CourseKept DEF Goes, Carries
    <3> QED BY <1>5, <2>3, <3>1, <3>2, <3>3, <3>4, AfterDoes DEF Final
  <2> QED BY <2>2, <2>3
<1>6. CASE Settle(e)
  <2>1. UNCHANGED <<row, cx, rc>> BY <1>6, SettleDoes
  <2>2. ex'[e].images > 0 BY <1>1, <1>6, SettleDoes, ImageJobAssumption DEF Course
  <2>3. Course(ex'[e], row.job, row.due)
    BY <1>1, <1>6, <2>2, ExecFields, SettleDoes
    DEF Course, Busy, Goal, Closing, Out, Late, Queueing, Waiting, Charging, Sending
  <2>4. ex'[e].failover = ex[e].failover BY <1>6, SettleDoes
  <2> QED BY <2>1, <2>3, <2>4, CourseKept
<1> QED BY <1>2, <1>3, <1>4, <1>5, <1>6

LEMMA SavingCourse ==
  ASSUME TypeInv, TypeInv', CourseInv, NEW e \in Execs, Alone(e),
         Record(e) \/ SaveGet(e) \/ Exit(e)
  PROVE  CourseInv'
<1>0. UNCHANGED <<row, cx, rc>> BY RecordDoes, SaveGetDoes, ExitDoes DEF Quietly
<1>1. /\ Course(ex[e], row.job, row.due)
      /\ row.job.status \in Final => row.job.lease = "none" /\ row.due = "no"
      /\ ~Clock => row.due = "no" /\ row.job.lease # "behind"
  BY DEF CourseInv, RowFits
<1>2. CASE Record(e)
  <2>1. Course(ex'[e], row.job, row.due)
    BY <1>1, <1>2, ExecFields, RecordDoes
    DEF Course, Saves, Carries, Busy, Goal, Closing, Out, Late, Queueing, Waiting, Charging, Sending
  <2> QED BY <1>0, <1>2, <2>1, RecordDoes, CourseKept DEF Saves, Carries
<1>3. CASE SaveGet(e)
  <2>0. ex[e].pc = "get" BY <1>3, SaveGetDoes
  <2>1. CASE /\ ~(row.job.status \in Final /\ ex[e].mem.status \notin Final)
             /\ Goes(ex[e], ex'[e], "put")
    <3>1. Course(ex'[e], row.job, row.due)
      BY <1>1, <2>0, <2>1, ExecFields
      DEF Course, Goes, Carries, Busy, Goal, Closing, Out, Late, Queueing, Waiting, Charging, Sending
    <3> QED BY <1>0, <2>1, <3>1, CourseKept DEF Goes, Carries
  <2>2. CASE /\ row.job.status \in Final /\ ex[e].mem.status \notin Final
             /\ Takes(ex[e], ex'[e], ex[e].ret, row.job)
    <3>1. ~Closing(ex[e]) /\ ~Out(ex[e]) /\ row.job.status # "succeeded"
      BY <1>1, <2>0, <2>2 DEF Course, Out
    <3>2. ex[e].ret \in {"placeQueued", "checkReserved", "checkDispatch", "upstream", "call"}
      BY <2>0, <3>1, ExecFields DEF Closing, ExecRet
    <3>3. ~Late(ex[e]) => row.job.status # "failed"
      BY <1>1, <2>0, <3>2 DEF Course, Busy, Goal, Queueing, Waiting, Charging
    <3>4. /\ row.due = "no" /\ row.job.lease = "none" /\ ex[e].images = 0
          /\ row.job.status \in {"failed", "cancelled"}
      BY <1>1, <2>0, <2>2, <3>1, ExecFields DEF Course, Final
    <3>5. Course(ex'[e], row.job, row.due)
      BY <1>1, <2>0, <2>2, <3>1, <3>2, <3>3, <3>4, ExecFields
      DEF Course, Takes, Carries, Busy, Goal, Closing, Out, Late, Queueing, Waiting, Charging, Sending
    <3> QED BY <1>0, <2>2, <3>5, CourseKept DEF Takes, Carries
  <2> QED BY <1>3, <2>1, <2>2, SaveGetDoes
<1>4. CASE Exit(e)
  <2>1. Course(ex'[e], row.job, row.due)
    BY <1>1, <1>4, ExecFields, ExitDoes
    DEF Course, Busy, Goal, Closing, Out, Late, Queueing, Waiting, Charging, Sending, NoJob
  <2> QED BY <1>0, <1>4, <2>1, ExitDoes, CourseKept
<1> QED BY <1>2, <1>3, <1>4

\* Steps that write the row.
LEMMA RowCourse ==
  ASSUME CourseInv, NEW e \in Execs, Alone(e), UNCHANGED cx,
         RowFits(row'.job, row'.due), Course(ex'[e], row'.job, row'.due),
         \A i \in Instances : PassFits(ex'[e], row'.job, row'.due, rc'[i])
  PROVE  CourseInv'
BY DEF CourseInv, Alone, Course, RowFits, PassFits, RequestFits

LEMMA WritingCourse ==
  ASSUME TypeInv, TypeInv', CourseInv, NEW e \in Execs, Alone(e),
         \/ SaveRunning(e) \/ SavePut(e) \/ \E i \in Instances : Claim(e, i)
  PROVE  CourseInv'
<1>1. /\ Course(ex[e], row.job, row.due) /\ RowFits(row.job, row.due)
      /\ \A i \in Instances : PassFits(ex[e], row.job, row.due, rc[i])
  BY DEF CourseInv
<1>0. ASSUME rc' = rc, row'.due = "no"
      PROVE  \A i \in Instances : PassFits(ex'[e], row'.job, row'.due, rc'[i])
  BY <1>1, <1>0 DEF PassFits
<1>2. CASE SaveRunning(e)
  <2>1. UNCHANGED <<cx, rc>> BY <1>2, SaveRunningDoes
  <2>2. CASE \E s \in Final : \E n, b : row' = row /\ Ends(ex[e], ex'[e], s, n, b)
    BY <2>1, <2>2, EndingCourse
  <2>3. CASE ~\E s \in Final : \E n, b : row' = row /\ Ends(ex[e], ex'[e], s, n, b)
    <3>0. "failed" \in Final BY DEF Final
    <3>1. /\ ex[e].pc = "saveRunning"
          /\ row'.job.status = "running" /\ row'.due = "no" /\ row'.job.lease # "behind"
          /\ ex'[e].pc = "checkRunning" /\ ex'[e].ret = ex[e].ret
          /\ ex'[e].mem.status = "running" /\ ex'[e].mem.lease = "ahead"
          /\ ex'[e].beat /\ ex'[e].live = ex[e].live
          /\ ex'[e].started = ex[e].started /\ ex'[e].failover = ex[e].failover
          /\ ex'[e].images = ex[e].images
      BY <1>2, <2>3, <3>0, SaveRunningDoes
    <3>2. Course(ex'[e], row'.job, row'.due)
      BY <1>1, <3>1, ExecFields
      DEF Course, Busy, Goal, Closing, Out, Late, Queueing, Waiting, Charging, Sending
    <3>3. RowFits(row'.job, row'.due)
      BY <1>1, <2>1, <3>1 DEF RowFits, Final
    <3> QED BY <1>0, <2>1, <3>1, <3>2, <3>3, RowCourse
  <2> QED BY <2>2, <2>3
<1>3. CASE SavePut(e)
  <2>1. /\ UNCHANGED <<cx, rc>> /\ ex[e].pc = "put"
        /\ ex'[e].pc = ex[e].ret /\ ex'[e].ret = ex[e].ret /\ Carries(ex[e], ex'[e])
    BY <1>3, SavePutDoes DEF Takes
  <2>2. /\ row'.job.status = ex[e].mem.status /\ ex'[e].mem.status = ex[e].mem.status
        /\ row'.due = IF ex[e].mem.status = "running" /\ ex[e].mem.lease = "behind"
                      THEN "due" ELSE "no"
        /\ row'.job.lease \in {ex[e].mem.lease, "none"}
        /\ ex'[e].mem.lease \in {ex[e].mem.lease, "none"}
        /\ ex[e].mem.status \in Final => row'.job.lease = "none"
    BY <1>3, SavePutDoes, SavedDoes DEF Takes, Final
  <2>3. RowFits(row'.job, row'.due)
    BY <1>1, <2>1, <2>2 DEF RowFits, Course, Final
  <2>4. CASE ex[e].ret = "exit"
    <3>1. ex[e].mem.status \in Final BY <1>1, <2>1, <2>4 DEF Course, Closing
    <3>2. Course(ex'[e], row'.job, row'.due)
      BY <1>1, <2>1, <2>2, <2>4, <3>1, ExecFields
      DEF Course, Carries, Busy, Goal, Closing, Out, Late, Queueing, Waiting, Charging,
          Sending, Final
    <3>3. row'.due = "no" BY <2>2, <3>1 DEF Final
    <3> QED BY <1>0, <2>1, <2>3, <3>2, <3>3, RowCourse
  <2>5. CASE ex[e].ret # "exit"
    <3>1. ex[e].ret \in {"placeQueued", "checkReserved", "checkDispatch", "upstream", "call"}
      BY <2>5, ExecFields DEF ExecRet
    <3>2. /\ Goal(ex[e]) = ex[e].ret /\ ~Closing(ex[e]) /\ ~Out(ex[e])
          /\ ~Late(ex[e]) => Busy(ex[e])
      BY <2>1, <3>1 DEF Goal, Closing, Out, Busy, Queueing, Charging
    <3>3. ex[e].ret \in {"placeQueued", "checkReserved", "checkDispatch"} => ~ex[e].failover
      BY <1>1, <3>2 DEF Course, Queueing, Charging
    <3>4. ex[e].images = 0 /\ ex[e].mem.status # "succeeded"
      BY <1>1, <2>1, <3>2, ExecFields DEF Course
    <3>5. ~Late(ex[e]) => ex[e].mem.status # "failed" /\ ex[e].mem.lease # "behind"
      BY <1>1, <2>1, <3>2 DEF Course
    <3>6. Course(ex'[e], row'.job, row'.due)
      BY <1>1, <2>1, <2>2, <3>1, <3>2, <3>3, <3>4, <3>5, ExecFields
      DEF Course, Carries, Busy, Goal, Closing, Out, Late, Queueing, Waiting, Charging, Sending
    <3>7. \A i \in Instances : PassFits(ex'[e], row'.job, row'.due, rc'[i])
      BY <1>1, <2>1, <2>2, <3>5 DEF PassFits, Late, Carries
    <3> QED BY <2>1, <2>3, <3>6, <3>7, RowCourse
  <2> QED BY <2>4, <2>5
<1>4. CASE \E i \in Instances : Claim(e, i)
  <2>1. /\ UNCHANGED <<cx, rc>> /\ ex[e].pc = "idle"
        /\ row'.job.status = "queued" /\ row'.due = "no" /\ row'.job.lease = "ahead"
        /\ Takes(ex[e], ex'[e], "start", NoJob)
    BY <1>4, ClaimDoes
  <2>2. RowFits(row'.job, row'.due)
    BY <1>1, <2>1 DEF RowFits, Final
  <2>3. Course(ex'[e], row'.job, row'.due)
    BY <1>1, <2>1, ExecFields
    DEF Course, Takes, Carries, NoJob, Busy, Goal, Closing, Out, Late, Queueing, Waiting,
        Charging, Sending
  <2> QED BY <1>0, <2>1, <2>2, <2>3, RowCourse
<1> QED BY <1>2, <1>3, <1>4

\* What it saves is stale only if it failed over.
LEMMA SavedFresh ==
  ASSUME TypeInv, CourseInv, NEW e \in Execs, SavePut(e)
  PROVE  row'.due = "no" \/ Late(ex[e])
<1>1. /\ ex[e].pc = "put" /\ Course(ex[e], row.job, row.due)
      /\ row'.due = IF ex[e].mem.status = "running" /\ ex[e].mem.lease = "behind"
                    THEN "due" ELSE "no"
  BY SavePutDoes, SavedDoes, ExecFields DEF CourseInv
<1>2. CASE ex[e].ret = "exit" BY <1>1, <1>2 DEF Course, Closing, Final
<1>3. CASE ex[e].ret # "exit"
  <2>1. ~Late(ex[e]) => Busy(ex[e])
    BY <1>1, <1>3, ExecFields DEF ExecRet, Goal, Busy, Queueing, Charging
  <2> QED BY <1>1, <2>1 DEF Course
<1> QED BY <1>2, <1>3

LEMMA ExecCourse ==
  ASSUME TypeInv, TypeInv', CourseInv, NEW e \in Execs, Alone(e),
         ExecStep(e) \/ \E i \in Instances : Claim(e, i)
  PROVE  CourseInv'
BY QueueingCourse, ChargingCourse, SendingCourse, SavingCourse, WritingCourse DEF ExecStep

-----------------------------------------------------------------------------
(* What a step of a cancel request, of the reconciler or of the clock does *)
(* to the rest.                                                            *)

LEMMA RequestDoes ==
  ASSUME TypeInv, NEW c \in Cancels,
         CancelStep(c) \/ \E i \in Instances : CancelBefore(c, i)
  PROVE  UNCHANGED <<held, rc, crashes>> /\ \A d \in Cancels \ {c} : cx'[d] = cx[d]
<1>1. UNCHANGED <<held, rc, crashes>> /\ \E r : CancelMove(c, r)
  BY DEF CancelStep, CancelBefore, CancelGet, CancelPut, CancelRefund, CancelRefundSub,
     CancelSnapshot, CancelSignal, CancelFinal, CancelMark, ledger
<1> QED BY <1>1, ExecTyped DEF CancelMove

LEMMA RequestSaves ==
  ASSUME TypeInv, NEW c \in Cancels, CancelPut(c) \/ CancelSnapshot(c) \/ CancelFinal(c)
  PROVE  /\ UNCHANGED <<gen, back, ex>> /\ row' = Saved(cx[c].item)
         /\ cx'[c].host = cx[c].host /\ cx'[c].early = cx[c].early
         /\ cx'[c].item.status = cx[c].item.status
         /\ cx'[c].item.lease \in {cx[c].item.lease, "none"}
         /\ \/ cx[c].pc = "put" /\ cx'[c].pc = "refund"
            \/ cx[c].pc = "snapshot" /\ cx'[c].pc = "signal"
            \/ cx[c].pc = "final" /\ cx'[c].pc = "mark"
<1> DEFINE p == Prepared(cx[c].item)
<1>0. cx[c] \in Cancellation /\ cx[c].item \in Job /\ cx \in [Cancels -> Cancellation]
  BY CancelOf, ExecTyped
<1>1. p.status = cx[c].item.status /\ p.lease \in {cx[c].item.lease, "none"}
  BY <1>0, SavedDoes
<1> HIDE DEF p
<1>2. CASE CancelPut(c)
  <2>1. cx'[c] = [cx[c] EXCEPT !.item = p, !.pc = "refund"]
    BY <1>0, <1>2 DEF CancelPut, CancelMove, p
  <2> QED BY <1>0, <1>1, <1>2, <2>1 DEF CancelPut, Cancellation, ledger
<1>3. CASE CancelSnapshot(c)
  BY <1>0, <1>3 DEF CancelSnapshot, CancelMove, Cancellation, ledger
<1>4. CASE CancelFinal(c)
  BY <1>0, <1>4 DEF CancelFinal, CancelMove, Cancellation, ledger
<1> QED BY <1>2, <1>3, <1>4

LEMMA RequestReads ==
  ASSUME TypeInv, NEW c \in Cancels,
         CancelGet(c) \/ \E i \in Instances : CancelBefore(c, i)
  PROVE  /\ UNCHANGED <<row, gen, back, ex>>
         /\ \/ /\ cx[c].pc = "idle" /\ cx'[c].pc = "get" /\ cx'[c].item = cx[c].item
               /\ cx'[c].early = BeforeUpstream(row.job)
            \/ /\ cx[c].pc = "get" /\ cx'[c].early = cx[c].early
               /\ cx'[c].item.lease = row.job.lease
               /\ \/ /\ row.job.status \in Final /\ cx'[c].pc = "refund"
                     /\ cx'[c].item = row.job
                  \/ /\ row.job.status \notin Final /\ cx'[c].pc = "put"
                     /\ cx'[c].item.status \in CancelStatus
<1>0. cx[c] \in Cancellation /\ row.job \in Job /\ cx \in [Cancels -> Cancellation]
  BY CancelOf, ExecTyped
<1>1. ASSUME NEW i \in Instances, CancelBefore(c, i)
      PROVE  /\ UNCHANGED <<row, gen, back, ex>>
             /\ cx[c].pc = "idle" /\ cx'[c].pc = "get" /\ cx'[c].item = cx[c].item
             /\ cx'[c].early = BeforeUpstream(row.job)
  BY <1>0, <1>1 DEF CancelBefore, CancelMove, Cancellation, ledger
<1>2. CASE CancelGet(c)
  <2> DEFINE j == IF row.job.status = "queued"
                  THEN [row.job EXCEPT !.status = "cancelled", !.stage = "ended"]
                  ELSE [row.job EXCEPT !.status = "cancel_requested",
                                       !.stage = "cancel_requested"]
  <2>1. j.lease = row.job.lease /\ j.status \in CancelStatus
    BY <1>0 DEF Job, CancelStatus
  <2>2. UNCHANGED <<row, gen, back, ex>> /\ cx[c].pc = "get"
    BY <1>2 DEF CancelGet, ledger
  <2>3. \/ row.job.status \in Final
           /\ cx' = [cx EXCEPT ![c] = [cx[c] EXCEPT !.item = row.job, !.pc = "refund"]]
        \/ row.job.status \notin Final
           /\ cx' = [cx EXCEPT ![c] = [cx[c] EXCEPT !.item = j, !.pc = "put"]]
    BY <1>2 DEF CancelGet, CancelMove
  <2> HIDE DEF j
  <2>4. CASE /\ row.job.status \in Final
             /\ cx' = [cx EXCEPT ![c] = [cx[c] EXCEPT !.item = row.job, !.pc = "refund"]]
    <3>1. cx'[c] = [cx[c] EXCEPT !.item = row.job, !.pc = "refund"] BY <1>0, <2>4
    <3> QED BY <1>0, <2>2, <2>4, <3>1 DEF Cancellation
  <2>5. CASE /\ row.job.status \notin Final
             /\ cx' = [cx EXCEPT ![c] = [cx[c] EXCEPT !.item = j, !.pc = "put"]]
    <3>1. cx'[c] = [cx[c] EXCEPT !.item = j, !.pc = "put"] BY <1>0, <2>5
    <3> QED BY <1>0, <2>1, <2>2, <2>5, <3>1 DEF Cancellation
  <2> QED BY <2>3, <2>4, <2>5
<1> QED BY <1>1, <1>2

LEMMA RequestRefunds ==
  ASSUME TypeInv, NEW c \in Cancels, CancelRefund(c) \/ CancelRefundSub(c)
  PROVE  /\ UNCHANGED <<row, gen, ex>> /\ Less
         /\ cx'[c].early = cx[c].early /\ cx'[c].item = cx[c].item
         /\ \/ /\ cx[c].pc = "refund" /\ cx'[c].pc = "refundSub"
               /\ cx[c].early /\ cx[c].item.status \in CancelStatus
               /\ Refundable("bal")' = 0 /\ Refundable("sub")' = Refundable("sub")
            \/ /\ cx[c].pc = "refund" /\ cx'[c].pc = "signal"
               /\ ~(cx[c].early /\ cx[c].item.status \in CancelStatus)
               /\ back' = back
            \/ /\ cx[c].pc = "refundSub" /\ cx'[c].pc = "snapshot"
               /\ Refundable("sub")' = 0 /\ Refundable("bal")' = Refundable("bal")
<1>0. cx[c] \in Cancellation /\ cx \in [Cancels -> Cancellation]
  BY CancelOf, ExecTyped
<1>1. CASE CancelRefund(c)
  <2>1. UNCHANGED <<row, gen, ex, held>> /\ cx[c].pc = "refund"
    BY <1>1 DEF CancelRefund
  <2>2. CASE cx[c].early /\ cx[c].item.status \in CancelStatus
    <3>1. RefundAllOf("bal") /\ CancelMove(c, [cx[c] EXCEPT !.pc = "refundSub"])
      BY <1>1, <2>2 DEF CancelRefund
    <3>2. /\ Less /\ Refundable("bal")' = 0 /\ Refundable("sub")' = Refundable("sub")
      BY <2>1, <3>1, RefundAllOfDoes DEF Wallets
    <3> QED BY <1>0, <2>1, <2>2, <3>1, <3>2 DEF CancelMove, Cancellation
  <2>3. CASE ~(cx[c].early /\ cx[c].item.status \in CancelStatus)
    <3>1. back' = back /\ CancelMove(c, [cx[c] EXCEPT !.pc = "signal"])
      BY <1>1, <2>3 DEF CancelRefund
    <3>2. Less BY <2>1, <3>1, Owed DEF Less, Refundable
    <3> QED BY <1>0, <2>1, <2>3, <3>1, <3>2 DEF CancelMove, Cancellation
  <2> QED BY <2>2, <2>3
<1>2. CASE CancelRefundSub(c)
  <2>1. /\ UNCHANGED <<row, gen, ex, held>> /\ cx[c].pc = "refundSub"
        /\ RefundAllOf("sub") /\ CancelMove(c, [cx[c] EXCEPT !.pc = "snapshot"])
    BY <1>2 DEF CancelRefundSub
  <2>2. /\ Less /\ Refundable("sub")' = 0 /\ Refundable("bal")' = Refundable("bal")
    BY <2>1, RefundAllOfDoes DEF Wallets
  <2> QED BY <1>0, <2>1, <2>2 DEF CancelMove, Cancellation
<1> QED BY <1>1, <1>2

LEMMA RequestMarks ==
  ASSUME TypeInv, NEW c \in Cancels, CancelMark(c)
  PROVE  /\ UNCHANGED <<row, back, ex>> /\ MarkGeneration("cancelled")
         /\ cx[c].pc = "mark" /\ cx'[c].pc = "done" /\ cx'[c].early = cx[c].early
         /\ cx'[c].item.status = cx[c].item.status /\ cx'[c].item.lease = "none"
<1>0. cx[c] \in Cancellation /\ cx[c].item \in Job /\ cx \in [Cancels -> Cancellation]
  BY CancelOf, ExecTyped
<1>1. cx'[c] = Answered(cx[c]) BY <1>0 DEF CancelMark, CancelMove
<1>2. Answered(cx[c]) = [cx[c] EXCEPT !.pc = "done", !.item = [cx[c].item EXCEPT !.lease = "none"]]
  BY <1>0 DEF Answered, Cancellation, Job
<1>3. [cx[c].item EXCEPT !.lease = "none"].status = cx[c].item.status
      /\ [cx[c].item EXCEPT !.lease = "none"].lease = "none"
  BY <1>0 DEF Job
<1> QED BY <1>0, <1>1, <1>2, <1>3 DEF CancelMark, Cancellation, ledger

LEMMA RequestSignals ==
  ASSUME TypeInv, NEW c \in Cancels, CancelSignal(c), NEW e \in Execs, Alone(e)
  PROVE  /\ UNCHANGED <<row, gen, back>>
         /\ \/ ex'[e] = ex[e]
            \/ /\ ex'[e] = [ex[e] EXCEPT !.live = FALSE]
               /\ cx[c].item.status \in CancelStatus
         /\ cx[c].pc = "signal" /\ cx'[c].early = cx[c].early
         /\ cx'[c].item.lease = cx[c].item.lease
         /\ \/ /\ cx'[c].pc = "final" /\ cx'[c].item.status = "cancelled"
               /\ cx[c].item.status \in CancelStatus
            \/ cx'[c].pc = "mark" /\ cx'[c].item = cx[c].item
<1> DEFINE j == [cx[c].item EXCEPT !.status = "cancelled", !.stage = "ended"]
<1>0. /\ cx[c] \in Cancellation /\ cx[c].item \in Job /\ cx \in [Cancels -> Cancellation]
      /\ ex \in [Execs -> GoodExec]
  BY CancelOf, ExecTyped
<1>1. [cx[c] EXCEPT !.item.status = "cancelled", !.item.stage = "ended", !.pc = "final"]
        = [cx[c] EXCEPT !.item = j, !.pc = "final"]
  BY <1>0 DEF Cancellation, Job
<1>2. j.status = "cancelled" /\ j.lease = cx[c].item.lease BY <1>0 DEF Job
<1>3. \/ ex'[e] = ex[e]
      \/ /\ ex'[e] = [ex[e] EXCEPT !.live = FALSE]
         /\ cx[c].item.status \in CancelStatus
  <2>1. active[cx[c].host] # NoOne =>
          [ex EXCEPT ![active[cx[c].host]].live = FALSE][e] \in {ex[e], [ex[e] EXCEPT !.live = FALSE]}
    BY <1>0 DEF Alone
  <2> QED BY <2>1 DEF CancelSignal
<1>4. \/ CancelMove(c, [cx[c] EXCEPT !.item = j, !.pc = "final"])
         /\ cx[c].item.status \in CancelStatus
      \/ CancelMove(c, [cx[c] EXCEPT !.pc = "mark"])
  BY <1>1 DEF CancelSignal
<1>5. UNCHANGED <<row, gen, back>> /\ cx[c].pc = "signal"
  BY DEF CancelSignal, ledger
<1> HIDE DEF j
<1>6. \/ cx'[c] = [cx[c] EXCEPT !.item = j, !.pc = "final"] /\ cx[c].item.status \in CancelStatus
      \/ cx'[c] = [cx[c] EXCEPT !.pc = "mark"]
  BY <1>0, <1>4 DEF CancelMove
<1> QED BY <1>0, <1>2, <1>3, <1>5, <1>6 DEF Cancellation

LEMMA ReconcileDoes ==
  ASSUME TypeInv, NEW i \in Instances, ReconcileList(i) \/ ReconcileStep(i)
  PROVE  /\ UNCHANGED <<held, ex, cx, crashes>> /\ Less
         /\ \A k \in Instances \ {i} : rc'[k] = rc[k]
         /\ \/ /\ Clock /\ rc[i].pc = "idle" /\ UNCHANGED <<row, gen, back>>
               /\ \/ /\ row.due # "no" /\ rc'[i].pc = "refund"
                     /\ rc'[i].refunds = RefundsStale(row.job)
                     /\ rc'[i].final = StaleFinal(row.job)
                  \/ /\ row.due = "no" /\ rc'[i].pc = "update"
                     /\ rc'[i].final = "failed"
            \/ /\ rc[i].pc = "refund" /\ rc'[i].pc = "refundSub"
               /\ rc'[i].refunds = rc[i].refunds /\ rc'[i].final = rc[i].final
               /\ UNCHANGED <<row, gen>>
               /\ IF rc[i].refunds
                  THEN Refundable("bal")' = 0 /\ Refundable("sub")' = Refundable("sub")
                  ELSE back' = back
            \/ /\ rc[i].pc = "refundSub" /\ rc'[i].pc = "mark"
               /\ rc'[i].refunds = rc[i].refunds /\ rc'[i].final = rc[i].final
               /\ UNCHANGED <<row, gen>>
               /\ IF rc[i].refunds
                  THEN Refundable("sub")' = 0 /\ Refundable("bal")' = Refundable("bal")
                  ELSE back' = back
            \/ /\ rc[i].pc = "mark" /\ rc'[i].pc = "update"
               /\ rc'[i].refunds = rc[i].refunds /\ rc'[i].final = rc[i].final
               /\ UNCHANGED <<row, back>> /\ MarkGeneration(rc[i].final)
            \/ /\ rc[i].pc = "update" /\ rc'[i].pc = "idle" /\ rc'[i].final = "failed"
               /\ UNCHANGED <<gen, back>>
               /\ IF row.due # "no"
                  THEN /\ row'.job.status = StaleFinal(row.job)
                       /\ row'.job.lease = "none" /\ row'.due = "no"
                  ELSE row' = row
<1>0. rc[i] \in Reconciliation /\ row \in Row /\ row.job \in Job
  BY DEF TypeInv, TypeOK, Row
<1>1. UNCHANGED <<held, back>> => Less BY Owed DEF Less, Refundable
<1>2. ASSUME NEW r, PassMove(i, r)
      PROVE  rc'[i] = r /\ \A k \in Instances \ {i} : rc'[k] = rc[k]
  BY <1>2 DEF PassMove, TypeInv, TypeOK
<1>3. CASE ReconcileList(i)
  <2>1. /\ UNCHANGED <<row, gen, held, back, ex, cx, crashes>> /\ Clock /\ rc[i].pc = "idle"
    BY <1>3 DEF ReconcileList, ledger
  <2>2. CASE /\ row.due # "no"
             /\ PassMove(i, [pc |-> "refund", refunds |-> RefundsStale(row.job),
                             final |-> StaleFinal(row.job)])
    BY <1>1, <1>2, <2>1, <2>2
  <2>3. CASE row.due = "no" /\ PassMove(i, [Reconciler EXCEPT !.pc = "update"])
    BY <1>1, <1>2, <2>1, <2>3 DEF Reconciler
  <2> QED BY <1>3, <2>2, <2>3 DEF ReconcileList, Stale
<1>4. CASE ReconcileRefund(i)
  <2>1. /\ UNCHANGED <<held, ex, cx, crashes, row, gen>> /\ rc[i].pc = "refund"
        /\ PassMove(i, [rc[i] EXCEPT !.pc = "refundSub"])
        /\ ~rc[i].refunds => back' = back
    BY <1>4 DEF ReconcileRefund
  <2>2. rc[i].refunds => /\ Less /\ Refundable("bal")' = 0
                         /\ Refundable("sub")' = Refundable("sub")
    BY <1>4, <2>1, RefundAllOfDoes DEF ReconcileRefund, Wallets
  <2> QED BY <1>0, <1>1, <1>2, <2>1, <2>2 DEF Reconciliation
<1>5. CASE ReconcileRefundSub(i)
  <2>1. /\ UNCHANGED <<held, ex, cx, crashes, row, gen>> /\ rc[i].pc = "refundSub"
        /\ PassMove(i, [rc[i] EXCEPT !.pc = "mark"])
        /\ ~rc[i].refunds => back' = back
    BY <1>5 DEF ReconcileRefundSub
  <2>2. rc[i].refunds => /\ Less /\ Refundable("sub")' = 0
                         /\ Refundable("bal")' = Refundable("bal")
    BY <1>5, <2>1, RefundAllOfDoes DEF ReconcileRefundSub, Wallets
  <2> QED BY <1>0, <1>1, <1>2, <2>1, <2>2 DEF Reconciliation
<1>6. CASE ReconcileMark(i)
  <2>1. /\ UNCHANGED <<row, held, back, ex, cx, crashes>> /\ rc[i].pc = "mark"
        /\ MarkGeneration(rc[i].final) /\ PassMove(i, [rc[i] EXCEPT !.pc = "update"])
    BY <1>6 DEF ReconcileMark, ledger
  <2> QED BY <1>0, <1>1, <1>2, <2>1 DEF Reconciliation
<1>7. CASE ReconcileUpdate(i)
  <2>1. /\ UNCHANGED <<gen, held, back, ex, cx, crashes>> /\ rc[i].pc = "update"
        /\ PassMove(i, Reconciler)
    BY <1>7 DEF ReconcileUpdate, ledger
  <2>2. IF row.due # "no"
        THEN /\ row'.job.status = StaleFinal(row.job)
             /\ row'.job.lease = "none" /\ row'.due = "no"
        ELSE row' = row
    BY <1>0, <1>7 DEF ReconcileUpdate, Stale, Job
  <2> QED BY <1>1, <1>2, <2>1, <2>2 DEF Reconciler
<1> QED BY <1>3, <1>4, <1>5, <1>6, <1>7 DEF ReconcileStep

LEMMA HeartbeatDoes ==
  ASSUME TypeInv, Heartbeat
  PROVE  /\ UNCHANGED <<gen, held, back, ex, cx, rc, crashes>>
         /\ row.job.status = "running" /\ row'.job.status = "running"
         /\ row'.due = "no" /\ row'.job.lease = "ahead"
BY CleanRow DEF Heartbeat, ledger, TypeInv, TypeOK, Row, Job

\* It only waits.
Rests(v, w) ==
  /\ Carries(v, w) /\ w.pc = v.pc /\ w.ret = v.ret /\ w.mem.status = v.mem.status
  /\ w.note = v.note /\ w.bound = v.bound

\* Time passes only while the execution waits or rests, and while nobody else
\* is at work.
LEMMA TimeDoes ==
  ASSUME TypeInv, NEW e \in Execs, LeaseOver \/ RowAges
  PROVE  /\ UNCHANGED <<gen, held, back, cx, rc, crashes>>
         /\ Clock /\ \A c \in Cancels : ~CancelOpen(c)
         /\ \A i \in Instances : rc[i].pc = "idle"
         /\ row.job.status \notin Final /\ row'.job.status = row.job.status
         /\ ex[e].pc \in LongWaits \cup {"idle", "done", "dead"}
         /\ Rests(ex[e], ex'[e])
         /\ row.job.status = "running" /\ InFlight(e) /\ ex[e].beat /\ ex[e].live
              => row'.due = "no"
<1>0. /\ ex \in [Execs -> GoodExec] /\ ex[e] \in Execution /\ ex[e].mem \in Job
      /\ row \in Row /\ row.job \in Job
  BY ExecTyped, ExecOf DEF GoodExec, Execution
<1> DEFINE m == [ex[e].mem EXCEPT !.lease = Behind(@)]
           f == [ex[e] EXCEPT !.mem = m]
<1>1. m.status = ex[e].mem.status BY <1>0 DEF Job
<1>2. Forgotten[e] = [ex[e] EXCEPT !.mem.lease = Behind(@)] BY DEF Forgotten
<1>3. [ex[e] EXCEPT !.mem.lease = Behind(@)] = f BY <1>0 DEF Execution, Job
<1>4. ex'[e] = ex[e] \/ ex'[e] = f BY <1>2, <1>3 DEF LeaseOver, RowAges
<1> HIDE DEF m
<1>5. Rests(ex[e], f) /\ Rests(ex[e], ex[e])
  BY <1>0, <1>1 DEF Rests, Carries, Execution
<1>6. Rests(ex[e], ex'[e]) BY <1>4, <1>5
<1>7. /\ Clock /\ \A c \in Cancels : ~CancelOpen(c)
      /\ \A i \in Instances : rc[i].pc = "idle"
      /\ ex[e].pc \in LongWaits \cup {"idle", "done", "dead"}
      /\ UNCHANGED <<gen, held, back, cx, rc, crashes>>
  BY DEF LeaseOver, RowAges, TimePasses, InFlight, ledger
<1>8. /\ row.job.status \notin Final /\ row'.job.status = row.job.status
      /\ row.job.status = "running" /\ Beating => row'.due = "no"
  BY <1>0 DEF LeaseOver, RowAges, Job, Final
<1> QED BY <1>6, <1>7, <1>8 DEF Beating

LEMMA CrashDoes ==
  ASSUME TypeInv, NEW e \in Execs, NEW i \in Instances, Crash(i)
  PROVE  /\ UNCHANGED <<row, gen, held, back>> /\ crashes' = crashes + 1
         /\ \A k \in Instances : rc'[k] = rc[k] \/ rc'[k] = Reconciler
         /\ \A c \in Cancels :
              \/ cx'[c] = cx[c]
              \/ /\ cx'[c].pc = "done" /\ cx[c].pc # "idle" /\ cx'[c].early = cx[c].early
                 /\ cx'[c].item.status = cx[c].item.status /\ cx'[c].item.lease = "none"
         /\ \/ ex'[e] = ex[e]
            \/ /\ InFlight(e) /\ ex'[e].pc = "dead" /\ ex'[e].mem = NoJob
               /\ ex'[e].ret = "exit" /\ ~ex'[e].beat
               /\ ex'[e].live = ex[e].live /\ ex'[e].started = ex[e].started
               /\ ex'[e].failover = ex[e].failover /\ ex'[e].images = ex[e].images
               /\ ex'[e].unheard = ex[e].unheard
<1>1. ASSUME NEW c \in Cancels
      PROVE  \/ cx'[c] = cx[c]
             \/ /\ cx'[c].pc = "done" /\ cx[c].pc # "idle" /\ cx'[c].early = cx[c].early
                /\ cx'[c].item.status = cx[c].item.status /\ cx'[c].item.lease = "none"
  <2>0. cx[c] \in Cancellation /\ cx[c].item \in Job BY CancelOf
  <2> DEFINE k == [cx[c].item EXCEPT !.lease = "none"]
  <2>1. Answered(cx[c]) = [cx[c] EXCEPT !.pc = "done", !.item = k]
    BY <2>0 DEF Answered, Cancellation, Job
  <2>2. k.status = cx[c].item.status /\ k.lease = "none" BY <2>0 DEF Job
  <2>3. \/ cx'[c] = cx[c]
        \/ cx'[c] = Answered(cx[c]) /\ cx[c].pc # "idle"
    BY DEF Crash, CancelOpen
  <2> HIDE DEF k
  <2> QED BY <2>0, <2>1, <2>2, <2>3 DEF Cancellation
<1>2. \/ ex'[e] = ex[e]
      \/ ex'[e] = Over(ex[e], "dead") /\ InFlight(e)
  BY DEF Crash
<1>3. /\ Over(ex[e], "dead").pc = "dead" /\ Over(ex[e], "dead").mem = NoJob
      /\ Over(ex[e], "dead").ret = "exit" /\ ~Over(ex[e], "dead").beat
      /\ Over(ex[e], "dead").live = ex[e].live
      /\ Over(ex[e], "dead").started = ex[e].started
      /\ Over(ex[e], "dead").failover = ex[e].failover
      /\ Over(ex[e], "dead").images = ex[e].images
      /\ Over(ex[e], "dead").unheard = ex[e].unheard
  BY ExecOf DEF Over, GoodExec, Execution
<1>4. \A k \in Instances : rc'[k] = rc[k] \/ rc'[k] = Reconciler
  BY DEF Crash, PassMove, TypeInv, TypeOK
<1> QED BY <1>1, <1>2, <1>3, <1>4 DEF Crash, ledger

\* The course under the steps of the others: the row becomes cancelled, or is
\* stale no more.
LEMMA FreshCourse ==
  ASSUME NEW v, NEW j, NEW d, NEW k, Course(v, j, d),
         \/ k.status = j.status
         \/ k.status \in CancelStatus
  PROVE  Course(v, k, "no")
BY DEF Course, CancelStatus

LEMMA OthersCourse ==
  ASSUME CourseInv, NEW e \in Execs, Alone(e),
         RowFits(row'.job, row'.due), Course(ex'[e], row'.job, row'.due),
         \A i \in Instances : PassFits(ex'[e], row'.job, row'.due, rc'[i]),
         \A c \in Cancels : RequestFits(cx'[c])
  PROVE  CourseInv'
BY DEF CourseInv, Alone, Course, RowFits, PassFits, RequestFits

LEMMA RequestCourse ==
  ASSUME TypeInv, TypeInv', CourseInv, NEW e \in Execs, Alone(e), NEW c \in Cancels,
         CancelStep(c) \/ \E i \in Instances : CancelBefore(c, i)
  PROVE  CourseInv'
<1>1. /\ Course(ex[e], row.job, row.due) /\ RowFits(row.job, row.due)
      /\ \A i \in Instances : PassFits(ex[e], row.job, row.due, rc[i])
      /\ \A d \in Cancels : RequestFits(cx[d])
      /\ ~Clock => row.job.lease # "behind"
  BY DEF CourseInv, RowFits
<1>2. UNCHANGED rc /\ \A d \in Cancels \ {c} : cx'[d] = cx[d] BY RequestDoes
<1>3. ASSUME RequestFits(cx'[c]) PROVE \A d \in Cancels : RequestFits(cx'[d])
  BY <1>1, <1>2, <1>3
<1>4. CASE CancelPut(c) \/ CancelSnapshot(c) \/ CancelFinal(c)
  <2>1. /\ ex' = ex /\ row' = Saved(cx[c].item)
        /\ cx[c].item \in Job /\ cx[c].item.status \in CancelStatus
        /\ cx'[c].item.status = cx[c].item.status
        /\ cx'[c].item.lease \in {cx[c].item.lease, "none"}
        /\ RequestFits(cx[c])
    BY <1>1, <1>4, RequestSaves, CancelOf DEF RequestFits
  <2>2. /\ row'.job.status \in CancelStatus /\ row'.due = "no" /\ row'.job.lease = "none"
    BY <2>1, SavedDoes DEF CancelStatus
  <2>3. Course(ex'[e], row'.job, row'.due) BY <1>1, <2>1, <2>2, FreshCourse
  <2>4. /\ RowFits(row'.job, row'.due)
        /\ \A i \in Instances : PassFits(ex'[e], row'.job, row'.due, rc'[i])
    BY <1>1, <1>2, <2>2 DEF RowFits, PassFits
  <2>5. RequestFits(cx'[c]) BY <1>4, <2>1, RequestSaves DEF RequestFits
  <2> QED BY <1>3, <2>3, <2>4, <2>5, OthersCourse
<1>5. CASE CancelGet(c) \/ \E i \in Instances : CancelBefore(c, i)
  <2>1. UNCHANGED <<row, ex>> BY <1>5, RequestReads
  <2>2. RequestFits(cx'[c]) BY <1>1, <1>5, RequestReads DEF RequestFits
  <2> QED BY <1>1, <1>2, <1>3, <2>1, <2>2, OthersCourse
<1>6. CASE CancelRefund(c) \/ CancelRefundSub(c)
  <2>1. UNCHANGED <<row, ex>> BY <1>6, RequestRefunds
  <2>2. RequestFits(cx'[c]) BY <1>1, <1>6, RequestRefunds DEF RequestFits
  <2> QED BY <1>1, <1>2, <1>3, <2>1, <2>2, OthersCourse
<1>7. CASE CancelMark(c)
  <2>1. UNCHANGED <<row, ex>> BY <1>7, RequestMarks
  <2>2. RequestFits(cx'[c]) BY <1>7, RequestMarks DEF RequestFits
  <2> QED BY <1>1, <1>2, <1>3, <2>1, <2>2, OthersCourse
<1>8. CASE CancelSignal(c)
  <2>1. row' = row BY <1>8, RequestSignals
  <2>2. RequestFits(cx'[c])
    BY <1>1, <1>8, RequestSignals DEF RequestFits, CancelStatus
  <2>3. Course([ex[e] EXCEPT !.live = FALSE], row.job, row.due)
    <3> DEFINE w == [ex[e] EXCEPT !.live = FALSE]
    <3>1. /\ w.pc = ex[e].pc /\ w.ret = ex[e].ret /\ w.mem = ex[e].mem /\ ~w.live
          /\ w.beat = ex[e].beat /\ w.failover = ex[e].failover
          /\ w.images = ex[e].images /\ w.started = ex[e].started
      BY ExecOf DEF GoodExec, Execution
    <3> HIDE DEF w
    <3>2. /\ Goal(w) = Goal(ex[e]) /\ Closing(w) = Closing(ex[e]) /\ Out(w) = Out(ex[e])
          /\ Late(w) = Late(ex[e])
      BY <3>1 DEF Goal, Closing, Out, Late
    <3>3. Busy(w) = Busy(ex[e]) BY <3>1, <3>2 DEF Busy
    <3>4. Course(w, row.job, row.due) BY <1>1, <3>1, <3>2, <3>3 DEF Course
    <3> QED BY <3>4 DEF w
  <2>4. Course(ex'[e], row.job, row.due) BY <1>1, <1>8, <2>3, RequestSignals
  <2>5. Late(ex'[e]) = Late(ex[e])
    BY <1>8, RequestSignals, ExecOf DEF Late, GoodExec, Execution
  <2>6. \A i \in Instances : PassFits(ex'[e], row'.job, row'.due, rc'[i])
    BY <1>1, <1>2, <2>1, <2>5 DEF PassFits
  <2> QED BY <1>1, <1>2, <1>3, <2>1, <2>2, <2>4, <2>6, OthersCourse
<1> QED BY <1>4, <1>5, <1>6, <1>7, <1>8 DEF CancelStep

LEMMA ReconcileCourse ==
  ASSUME TypeInv, TypeInv', CourseInv, NEW e \in Execs, Alone(e), NEW i \in Instances,
         ReconcileList(i) \/ ReconcileStep(i)
  PROVE  CourseInv'
<1>1. /\ Course(ex[e], row.job, row.due) /\ RowFits(row.job, row.due)
      /\ \A k \in Instances : PassFits(ex[e], row.job, row.due, rc[k])
      /\ ~Clock => row.due = "no"
      /\ row.job.status \in Final => row.due = "no"
      /\ \A d \in Cancels : RequestFits(cx[d])
  BY DEF CourseInv, RowFits
<1>2. ex' = ex /\ cx' = cx BY ReconcileDoes
<1>3. Course(ex'[e], row'.job, row'.due)
  <2>1. CASE row' = row BY <1>1, <1>2, <2>1
  <2>3. CASE row.due # "no" /\ row'.job.status = StaleFinal(row.job) /\ row'.due = "no"
    <3>1. CASE row.job.status = "cancel_requested"
      BY <1>1, <1>2, <2>3, <3>1, FreshCourse DEF StaleFinal, CancelStatus
    <3>2. CASE row.job.status # "cancel_requested"
      <4>1. /\ row'.job.status = "failed" /\ Clock
            /\ row.job.status \in {"queued", "running"}
        BY <1>1, <2>3, <3>2, ExecFields DEF StaleFinal, Final, Status
      <4>2. ~Busy(ex[e]) BY <1>1, <2>3 DEF Course
      <4>3. ~(~Late(ex[e]) /\ ex[e].live /\ ex[e].pc = "call")
        BY <1>1, <2>3, <4>1, ExecFields DEF Course, Goal, Charging, Sending, Late
      <4>4. ~(~Late(ex[e]) /\ (ex[e].pc = "settle" \/ (ex[e].pc = "after" /\ ex[e].images > 0)))
        BY <1>1, <2>3, <4>1 DEF Course, Goal, Charging, Sending
      <4> QED BY <1>1, <1>2, <2>3, <4>1, <4>2, <4>3, <4>4 DEF Course
    <3> QED BY <3>1, <3>2
  <2> QED BY <2>1, <2>3, ReconcileDoes
<1>4. RowFits(row'.job, row'.due)
  BY <1>1, ReconcileDoes DEF RowFits, StaleFinal, Final
<1>5. ASSUME NEW k \in Instances PROVE PassFits(ex'[e], row'.job, row'.due, rc'[k])
  <2>1. row' = row \/ row'.due = "no" BY ReconcileDoes
  <2>2. Clock \/ UNCHANGED rc[i].pc
    BY <1>1, ReconcileDoes DEF PassFits
  <2>3. CASE k # i BY <1>1, <1>2, <2>1, <2>3, ReconcileDoes DEF PassFits
  <2>4. CASE k = i BY <1>1, <1>2, <2>1, <2>2, <2>4, ReconcileDoes DEF PassFits
  <2> QED BY <2>3, <2>4
<1> QED BY <1>1, <1>2, <1>3, <1>4, <1>5, OthersCourse

LEMMA TimeCourse ==
  ASSUME TypeInv, TypeInv', CourseInv, NEW e \in Execs, Alone(e),
         Heartbeat \/ LeaseOver \/ RowAges
  PROVE  CourseInv'
<1>1. /\ Course(ex[e], row.job, row.due) /\ RowFits(row.job, row.due)
      /\ \A i \in Instances : PassFits(ex[e], row.job, row.due, rc[i])
      /\ \A d \in Cancels : RequestFits(cx[d])
  BY DEF CourseInv
<1>2. CASE Heartbeat
  <2>1. Course(ex'[e], row'.job, row'.due) BY <1>1, <1>2, HeartbeatDoes, FreshCourse
  <2>2. /\ RowFits(row'.job, row'.due)
        /\ \A i \in Instances : PassFits(ex'[e], row'.job, row'.due, rc'[i])
    BY <1>1, <1>2, HeartbeatDoes DEF RowFits, PassFits, Final
  <2> QED BY <1>1, <1>2, <2>1, <2>2, HeartbeatDoes, OthersCourse
<1>3. CASE LeaseOver \/ RowAges
  <2>1. /\ Clock /\ rc' = rc /\ cx' = cx /\ \A i \in Instances : rc[i].pc = "idle"
        /\ row.job.status \notin Final /\ row'.job.status = row.job.status
        /\ Rests(ex[e], ex'[e])
        /\ ex[e].pc \in {"admission", "call", "record", "idle", "done", "dead"}
        /\ row.job.status = "running" /\ InFlight(e) /\ ex[e].beat /\ ex[e].live
             => row'.due = "no"
    BY <1>1, <1>3, TimeDoes DEF LongWaits
  <2>2. /\ RowFits(row'.job, row'.due)
        /\ \A i \in Instances : PassFits(ex'[e], row'.job, row'.due, rc'[i])
    BY <2>1 DEF RowFits, PassFits
  <2>3. /\ Goal(ex'[e]) = Goal(ex[e]) /\ Closing(ex'[e]) = Closing(ex[e])
        /\ Out(ex'[e]) = Out(ex[e]) /\ Late(ex'[e]) = Late(ex[e])
    BY <2>1 DEF Goal, Closing, Out, Late, Rests, Carries
  <2>4. ~Busy(ex'[e]) /\ ~Busy(ex[e])
    BY <2>1, <2>3 DEF Busy, Goal, Queueing, Charging, Rests
  <2>5. ex[e].beat => InFlight(e) BY <1>1 DEF Course, InFlight
  <2>6. Course(ex'[e], row'.job, row'.due)
    BY <1>1, <2>1, <2>3, <2>4, <2>5 DEF Course, Rests, Carries
  <2> QED BY <1>1, <2>1, <2>2, <2>6, OthersCourse
<1> QED BY <1>2, <1>3

LEMMA CrashCourse ==
  ASSUME TypeInv, TypeInv', CourseInv, NEW e \in Execs, Alone(e), NEW i \in Instances,
         Crash(i)
  PROVE  CourseInv'
<1>1. /\ Course(ex[e], row.job, row.due) /\ RowFits(row.job, row.due)
      /\ \A k \in Instances : PassFits(ex[e], row.job, row.due, rc[k])
      /\ \A d \in Cancels : RequestFits(cx[d])
  BY DEF CourseInv
<1>2. /\ row' = row /\ Late(ex'[e]) = Late(ex[e])
      /\ \A k \in Instances : rc'[k] = rc[k] \/ rc'[k] = Reconciler
  BY CrashDoes DEF Late
<1>3. \A c \in Cancels : RequestFits(cx'[c])
  BY <1>1, CrashDoes DEF RequestFits
<1>4. Course(ex'[e], row.job, row.due)
  <2>1. CASE ex'[e] = ex[e] BY <1>1, <2>1
  <2>2. CASE ex'[e] # ex[e]
    BY <1>1, <2>2, CrashDoes, ExecFields
    DEF Course, NoJob, InFlight, Busy, Goal, Closing, Out, Late, Queueing, Waiting, Charging,
        Sending
  <2> QED BY <2>1, <2>2
<1>5. \A k \in Instances : PassFits(ex'[e], row.job, row.due, rc'[k])
  BY <1>1, <1>2 DEF PassFits, Reconciler
<1> QED BY <1>1, <1>2, <1>3, <1>4, <1>5, OthersCourse

LEMMA InitCourse ==
  ASSUME NEW e \in Execs, Alone(e), Init PROVE CourseInv
<1>1. ex[e] = Idle /\ row = [job |-> NoJob, due |-> "no"]
      /\ \A i \in Instances : rc[i] = Reconciler
  BY DEF Init
<1>2. Course(ex[e], row.job, row.due)
  BY <1>1 DEF Idle, NoJob, Course, Busy, Goal, Closing, Out, Late, Queueing, Waiting,
     Charging, Sending
<1>3. /\ RowFits(row.job, row.due)
      /\ \A i \in Instances : PassFits(ex[e], row.job, row.due, rc[i])
  BY <1>1 DEF RowFits, PassFits, NoJob, Reconciler, Final
<1>4. \A c \in Cancels : RequestFits(cx[c])
  BY DEF Init, NewCancel, NoJob, RequestFits
<1> QED BY <1>2, <1>3, <1>4 DEF CourseInv, Alone

LEMMA NextCourse ==
  ASSUME NEW e \in Execs, Alone(e), TypeInv, TypeInv', CourseInv, [Next]_vars
  PROVE  CourseInv'
<1>1. CASE Claims \/ \E d \in Execs : ExecStep(d)
  BY <1>1, ExecCourse DEF Claims, Alone
<1>2. CASE CancelArrives \/ \E c \in Cancels : CancelStep(c)
  BY <1>2, RequestCourse DEF CancelArrives
<1>3. CASE \E i \in Instances : ReconcileList(i) \/ ReconcileStep(i)
  BY <1>3, ReconcileCourse
<1>4. CASE Heartbeat \/ LeaseOver \/ RowAges BY <1>4, TimeCourse
<1>5. CASE \E i \in Instances : Crash(i) BY <1>5, CrashCourse
<1>6. CASE UNCHANGED vars
  BY <1>6 DEF vars, CourseInv, Course, RowFits, PassFits, RequestFits
<1> QED BY <1>1, <1>2, <1>3, <1>4, <1>5, <1>6 DEF Next, Rest

LEMMA CourseHolds ==
  ASSUME NEW e, Execs = {e}
  PROVE  Spec => [](TypeInv /\ CourseInv)
<1>0. e \in Execs /\ Alone(e) BY DEF Alone
<1>1. Init => TypeInv /\ CourseInv BY <1>0, InitTypes, InitCourse
<1>2. TypeInv /\ CourseInv /\ [Next]_vars => (TypeInv /\ CourseInv)'
  BY <1>0, NextTypes, NextCourse
<1> QED BY <1>1, <1>2, PTL DEF Spec

\* Of a job that is executed once: the reconciler (reconcileStaleBusinessImageJobs,
\* ReconcileStale) never fails it while its execution heartbeats, unless that
\* execution failed over and saved the lease it remembered from the claim.
THEOREM TheLivingAreSpared ==
  ASSUME NEW e, Execs = {e}
  PROVE  Spec => ReconcilerSparesTheLiving
<1>1. (TypeInv /\ CourseInv) /\ [Next]_vars => [SparesTheLiving]_vars
  BY DEF SparesTheLiving, ReconcileUpdate, Stale, CourseInv, Course
<1> QED BY <1>1, CourseHolds, PTL DEF Spec, ReconcilerSparesTheLiving

-----------------------------------------------------------------------------
(* The money of a job that is executed once: what is reserved by when.     *)

Uncharged == {"idle", "checkRunning", "placeRunning", "reserveSub"} \cup Queueing \cup Waiting
Charged == {"checkReserved", "checkDispatch", "refundCancel", "upstream", "call", "after",
            "refundFailed", "settle"}

\* It has delivered, or is about to say so.
Delivering(v) == v.pc = "checkSettled" \/ (Closing(v) /\ v.mem.status = "succeeded")

HeldFits(v, job, s, b) ==
  /\ job.status = "queued" \/ Goal(v) \in Uncharged => s = 0 /\ b = 0
  /\ v.pc = "reserveBal" => s = v.sub /\ b = 0
  /\ v.pc = "reserveReply" => s = v.sub /\ b = Requested - v.sub
  /\ v.pc = "undoSub" => s = v.sub /\ (v.unheard \/ b = 0)
  /\ v.unheard => v.pc = "undoSub" \/ Closing(v) \/ Out(v)
  /\ Goal(v) \in Charged => s + b = Requested
  /\ Delivering(v) => s + b >= Requested

HeldInv == \A e \in Execs : HeldFits(ex[e], row.job, held["sub"], held["bal"])

LEMMA HeldFields ==
  ASSUME TypeInv
  PROVE  /\ held["sub"] \in Nat /\ held["bal"] \in Nat
         /\ back["sub"] \in Nat /\ back["bal"] \in Nat
         /\ Requested \in Nat \ {0}
BY ImageJobAssumption DEF TypeInv, TypeOK, Wallets

LEMMA EndingHeld ==
  ASSUME TypeInv, HeldInv, NEW e \in Execs, Alone(e), UNCHANGED row, held' = held,
         NEW s \in {"failed", "cancelled"}, NEW n, NEW b, Ends(ex[e], ex'[e], s, n, b)
  PROVE  HeldInv'
<1>1. HeldFits(ex[e], row.job, held["sub"], held["bal"]) BY DEF HeldInv
<1>2. HeldFits(ex'[e], row.job, held["sub"], held["bal"])
  BY <1>1
  DEF HeldFits, Ends, Carries, Goal, Closing, Out, Delivering, Uncharged, Charged, Queueing,
      Waiting
<1> QED BY <1>2 DEF HeldInv, Alone

LEMMA StillHeld ==
  ASSUME NEW e \in Execs, Alone(e), UNCHANGED row, held' = held,
         HeldFits(ex'[e], row.job, held["sub"], held["bal"])
  PROVE  HeldInv'
BY DEF HeldInv, Alone

LEMMA QueueingHeld ==
  ASSUME TypeInv, CourseInv, HeldInv, NEW e \in Execs, Alone(e),
         \/ Start(e) \/ Precheck(e) \/ PlaceQueued(e) \/ Admission(e) \/ CheckRunning(e)
         \/ PlaceRunning(e)
  PROVE  HeldInv'
<1>0. UNCHANGED row /\ held' = held
  BY StartDoes, PrecheckDoes, PlaceDoes, AdmissionDoes, ChecksDo DEF Quietly
<1>1. HeldFits(ex[e], row.job, held["sub"], held["bal"]) BY DEF HeldInv
<1>2. \/ \E s \in {"failed", "cancelled"} : \E n, b : Ends(ex[e], ex'[e], s, n, b)
      \/ ex[e].pc = "start" /\ Goes(ex[e], ex'[e], "precheck")
      \/ ex[e].pc = "precheck" /\ Saves(ex[e], ex'[e], "placeQueued", ex'[e].mem)
      \/ ex[e].pc = "placeQueued" /\ Goes(ex[e], ex'[e], "admission")
      \/ ex[e].pc = "admission" /\ Goes(ex[e], ex'[e], "saveRunning")
      \/ ex[e].pc = "checkRunning" /\ Goes(ex[e], ex'[e], "placeRunning")
      \/ ex[e].pc = "placeRunning" /\ Goes(ex[e], ex'[e], "reserveSub")
  BY StartDoes, PrecheckDoes, PlaceDoes, AdmissionDoes, ChecksDo
  DEF PlaceQueued, PlaceRunning, CheckRunning, At
<1>3. CASE \E s \in {"failed", "cancelled"} : \E n, b : Ends(ex[e], ex'[e], s, n, b)
  BY <1>0, <1>3, EndingHeld
<1>4. CASE ~\E s \in {"failed", "cancelled"} : \E n, b : Ends(ex[e], ex'[e], s, n, b)
  <2>1. HeldFits(ex'[e], row.job, held["sub"], held["bal"])
    BY <1>1, <1>2, <1>4
    DEF HeldFits, Goes, Saves, Carries, Goal, Closing, Out, Delivering, Uncharged, Charged,
        Queueing, Waiting
  <2> QED BY <1>0, <2>1, StillHeld
<1> QED BY <1>3, <1>4

LEMMA ReservingHeld ==
  ASSUME TypeInv, TypeInv', CourseInv, HeldInv, NEW e \in Execs, Alone(e),
         ReserveSub(e) \/ ReserveBal(e) \/ ReserveReply(e)
  PROVE  HeldInv'
<1>1. /\ HeldFits(ex[e], row.job, held["sub"], held["bal"])
      /\ Course(ex[e], row.job, row.due)
  BY DEF HeldInv, CourseInv
<1>2. CASE ReserveSub(e)
  <2>0. row' = row BY <1>2, ReserveSubDoes
  <2>1. CASE held' = held /\ Ends(ex[e], ex'[e], "failed", "failed", TRUE)
    BY <2>0, <2>1, EndingHeld
  <2>2. CASE ~(held' = held /\ Ends(ex[e], ex'[e], "failed", "failed", TRUE))
    <3>1. /\ ex[e].pc = "reserveSub"
          /\ held'["bal"] = held["bal"] /\ held'["sub"] = held["sub"] + ex'[e].sub
          /\ ex'[e].sub \in Nat /\ ex'[e].unheard = ex[e].unheard
          /\ \/ /\ ex'[e].pc = "get" /\ ex'[e].ret = "checkReserved"
                /\ ex'[e].sub = Requested
             \/ ex'[e].pc = "reserveBal"
      BY <1>2, <2>2, ReserveSubDoes
    <3>2. held["sub"] = 0 /\ held["bal"] = 0 /\ row.job.status # "queued" /\ ~ex[e].unheard
      BY <1>1, <3>1
      DEF HeldFits, Course, Goal, Uncharged, Charging, Closing, Out
    <3>3. HeldFits(ex'[e], row.job, held'["sub"], held'["bal"])
      BY <3>1, <3>2, HeldFields
      DEF HeldFits, Goal, Closing, Out, Delivering, Uncharged, Charged, Queueing, Waiting
    <3> QED BY <2>0, <3>3 DEF HeldInv, Alone
  <2> QED BY <2>1, <2>2
<1>3. CASE ReserveBal(e)
  <2>0. row' = row /\ ex[e].pc = "reserveBal" BY <1>3, ReserveBalDoes
  <2>1. /\ held["sub"] = ex[e].sub /\ held["bal"] = 0 /\ row.job.status # "queued"
        /\ ~ex[e].unheard
    BY <1>1, <2>0 DEF HeldFits, Course, Goal, Charging, Closing, Out
  <2>2. /\ ex'[e].sub = ex[e].sub /\ ex'[e].unheard = ex[e].unheard
        /\ held'["sub"] = held["sub"]
        /\ \/ held'["bal"] = 0 /\ ex'[e].pc = "undoSub"
           \/ held'["bal"] = Requested - ex[e].sub /\ ex'[e].pc = "reserveReply"
    <3>1. CASE held' = held /\ Goes(ex[e], ex'[e], "undoSub")
      BY <2>1, <3>1 DEF Goes, Carries
    <3>2. CASE /\ held'["sub"] = held["sub"]
               /\ held'["bal"] = held["bal"] + (Requested - ex[e].sub)
               /\ Goes(ex[e], ex'[e], "reserveReply")
      BY <2>1, <3>2, HeldFields, ExecFields DEF Goes, Carries
    <3> QED BY <1>3, <3>1, <3>2, ReserveBalDoes
  <2>3. HeldFits(ex'[e], row.job, held'["sub"], held'["bal"])
    BY <2>1, <2>2
    DEF HeldFits, Goal, Closing, Out, Delivering, Uncharged, Charged, Queueing, Waiting
  <2> QED BY <2>0, <2>3 DEF HeldInv, Alone
<1>4. CASE ReserveReply(e)
  <2>0. row' = row /\ held' = held /\ ex[e].pc = "reserveReply"
    BY <1>4, ReserveReplyDoes DEF Quietly
  <2>1. /\ held["sub"] = ex[e].sub /\ held["bal"] = Requested - ex[e].sub
        /\ row.job.status # "queued"
    BY <1>1, <2>0 DEF HeldFits, Course, Goal, Charging
  <2>2. HeldFits(ex'[e], row.job, held["sub"], held["bal"])
    BY <1>1, <1>4, <2>0, <2>1, HeldFields, ExecFields, ReserveReplyDoes
    DEF HeldFits, Saves, Carries, Goal, Closing, Out, Delivering, Uncharged, Charged, Queueing,
        Waiting
  <2> QED BY <2>0, <2>2, StillHeld
<1> QED BY <1>2, <1>3, <1>4

\* Once reserved, the price stays reserved until it is settled.
LEMMA ChargedHeld ==
  ASSUME TypeInv, TypeInv', CourseInv, HeldInv, NEW e \in Execs, Alone(e),
         \/ CheckReserved(e) \/ CheckDispatch(e) \/ Upstream(e) \/ Call(e) \/ After(e)
  PROVE  HeldInv'
<1>0. row' = row /\ held' = held
  BY ChecksDo, UpstreamDoes, CallDoes, AfterDoes DEF Quietly
<1>1. /\ HeldFits(ex[e], row.job, held["sub"], held["bal"])
      /\ Course(ex[e], row.job, row.due)
  BY DEF HeldInv, CourseInv
<1>2. CASE \E s \in {"failed", "cancelled"} : \E n, b : Ends(ex[e], ex'[e], s, n, b)
  BY <1>0, <1>2, EndingHeld
<1>3. CASE ~\E s \in {"failed", "cancelled"} : \E n, b : Ends(ex[e], ex'[e], s, n, b)
  <2>1. /\ ex[e].pc \in {"checkReserved", "checkDispatch", "upstream", "call", "after"}
        /\ ex'[e].unheard = ex[e].unheard
        /\ \/ ex'[e].pc \in {"refundCancel", "upstream", "call", "after", "refundFailed",
                             "settle", "exit"}
           \/ ex'[e].pc = "get" /\ ex'[e].ret \in {"checkDispatch", "call", "upstream"}
    BY <1>3, ChecksDo, UpstreamDoes, CallDoes, AfterDoes
    DEF CheckReserved, CheckDispatch, At, Goes, Takes, Saves, Carries
  <2>2. /\ held["sub"] + held["bal"] = Requested /\ row.job.status # "queued"
        /\ ~ex[e].unheard
    BY <1>1, <2>1 DEF HeldFits, Course, Goal, Charged, Charging, Sending, Closing, Out
  <2>3. HeldFits(ex'[e], row.job, held["sub"], held["bal"])
    BY <2>1, <2>2
    DEF HeldFits, Goal, Closing, Out, Delivering, Uncharged, Charged, Queueing, Waiting
  <2> QED BY <1>0, <2>3, StillHeld
<1> QED BY <1>2, <1>3

LEMMA SettlingHeld ==
  ASSUME TypeInv, TypeInv', CourseInv, HeldInv, NEW e \in Execs, Alone(e),
         Settle(e) \/ CheckSettled(e) \/ UndoSub(e) \/ RefundCancel(e) \/ RefundFailed(e)
  PROVE  HeldInv'
<1>1. /\ HeldFits(ex[e], row.job, held["sub"], held["bal"])
      /\ Course(ex[e], row.job, row.due)
  BY DEF HeldInv, CourseInv
<1>2. CASE UndoSub(e) \/ RefundCancel(e) \/ RefundFailed(e)
  BY <1>2, RefundsDo, EndingHeld DEF Less
<1>3. CASE CheckSettled(e)
  <2>0. row' = row /\ held' = held /\ ex[e].pc = "checkSettled"
    BY <1>3, CheckSettledDoes DEF Quietly
  <2>1. CASE Ends(ex[e], ex'[e], "cancelled", "cancelled", FALSE)
    BY <2>0, <2>1, EndingHeld
  <2>2. CASE Ends(ex[e], ex'[e], "succeeded", "succeeded", TRUE)
    <3>1. HeldFits(ex'[e], row.job, held["sub"], held["bal"])
      BY <1>1, <2>0, <2>2
      DEF HeldFits, Ends, Carries, Goal, Closing, Out, Delivering, Uncharged, Charged,
          Queueing, Waiting
    <3> QED BY <2>0, <3>1, StillHeld
  <2> QED BY <1>3, <2>1, <2>2, CheckSettledDoes
<1>4. CASE Settle(e)
  <2>0. row' = row /\ ex[e].pc = "settle" /\ ex'[e].pc = "checkSettled"
        /\ ex'[e].unheard = ex[e].unheard
    BY <1>4, SettleDoes
  <2>1. /\ held["sub"] + held["bal"] = Requested /\ row.job.status # "queued"
        /\ ~ex[e].unheard
    BY <1>1, <2>0 DEF HeldFits, Course, Goal, Charged, Sending, Closing, Out
  <2>2. held'["sub"] + held'["bal"] >= Requested
    <3>1. \/ held' = held
          \/ /\ ex[e].images > Requested
             /\ \E w \in Wallets : held' = [held EXCEPT ![w] = @ + (ex[e].images - Requested)]
      BY <1>4, SettleDoes DEF Less
    <3>2. held \in [Wallets -> Nat] /\ ex[e].images \in Nat
      BY ExecFields DEF TypeInv, TypeOK
    <3> QED BY <2>1, <3>1, <3>2, HeldFields DEF Wallets
  <2>3. HeldFits(ex'[e], row.job, held'["sub"], held'["bal"])
    BY <2>0, <2>1, <2>2
    DEF HeldFits, Goal, Closing, Out, Delivering, Uncharged, Charged, Queueing, Waiting
  <2> QED BY <2>0, <2>3 DEF HeldInv, Alone
<1> QED BY <1>2, <1>3, <1>4

LEMMA WritingHeld ==
  ASSUME TypeInv, TypeInv', CourseInv, HeldInv, NEW e \in Execs, Alone(e),
         \/ Record(e) \/ SaveGet(e) \/ SavePut(e) \/ Exit(e) \/ SaveRunning(e)
         \/ \E i \in Instances : Claim(e, i)
  PROVE  HeldInv'
<1>0. held' = held
  BY RecordDoes, SaveGetDoes, SavePutDoes, ExitDoes, SaveRunningDoes, ClaimDoes DEF Quietly
<1>1. /\ HeldFits(ex[e], row.job, held["sub"], held["bal"])
      /\ Course(ex[e], row.job, row.due)
  BY DEF HeldInv, CourseInv
<1>2. CASE Record(e) \/ Exit(e)
  <2>1. row' = row BY <1>2, RecordDoes, ExitDoes DEF Quietly
  <2>2. HeldFits(ex'[e], row.job, held["sub"], held["bal"])
    BY <1>1, <1>2, RecordDoes, ExitDoes
    DEF HeldFits, Saves, Carries, Goal, Closing, Out, Delivering, Uncharged, Charged, Queueing,
        Waiting
  <2> QED BY <1>0, <2>1, <2>2, StillHeld
<1>3. CASE SaveGet(e)
  <2>1. row' = row /\ ex[e].pc = "get" /\ ex'[e].unheard = ex[e].unheard
        /\ ex'[e].sub = ex[e].sub
    BY <1>3, SaveGetDoes DEF Quietly, Goes, Takes, Carries
  <2>2. CASE Goes(ex[e], ex'[e], "put")
    <3>1. HeldFits(ex'[e], row.job, held["sub"], held["bal"])
      BY <1>1, <2>1, <2>2
      DEF HeldFits, Goes, Goal, Closing, Out, Delivering, Uncharged, Charged, Queueing, Waiting
    <3> QED BY <1>0, <2>1, <3>1, StillHeld
  <2>3. CASE ex[e].mem.status \notin Final /\ Takes(ex[e], ex'[e], ex[e].ret, row.job)
    <3>1. ~Closing(ex[e]) /\ ~Out(ex[e]) BY <1>1, <2>1, <2>3 DEF Course, Out
    <3>2. /\ ~ex[e].unheard
          /\ ex[e].ret \in {"placeQueued", "checkReserved", "checkDispatch", "upstream", "call"}
      BY <1>1, <2>1, <3>1, ExecFields DEF HeldFits, Closing, ExecRet
    <3>3. HeldFits(ex'[e], row.job, held["sub"], held["bal"])
      BY <1>1, <2>1, <2>3, <3>2
      DEF HeldFits, Takes, Goal, Closing, Out, Delivering, Uncharged, Charged, Queueing, Waiting
    <3> QED BY <1>0, <2>1, <3>3, StillHeld
  <2> QED BY <1>3, <2>2, <2>3, SaveGetDoes
<1>4. CASE SavePut(e)
  <2>1. /\ ex[e].pc = "put" /\ ex'[e].pc = ex[e].ret /\ ex'[e].unheard = ex[e].unheard
        /\ ex'[e].sub = ex[e].sub /\ ex'[e].ret = ex[e].ret
        /\ row'.job.status = ex[e].mem.status
    BY <1>4, SavePutDoes, SavedDoes DEF Takes, Carries
  <2>2. ex[e].ret \in {"placeQueued", "checkReserved", "checkDispatch", "upstream", "call", "exit"}
    BY ExecFields DEF ExecRet
  <2>3. ex[e].mem.status = "queued" => ex[e].ret = "placeQueued"
    BY <1>1, <2>1, <2>2 DEF Course, Goal, Closing, Final, Charging, Sending
  <2>4. ex[e].unheard => ex[e].ret = "exit"
    BY <1>1, <2>1 DEF HeldFits, Closing, Out
  <2>5. HeldFits(ex'[e], row'.job, held["sub"], held["bal"])
    BY <1>1, <2>1, <2>2, <2>3, <2>4
    DEF HeldFits, Goal, Closing, Out, Delivering, Uncharged, Charged, Queueing, Waiting
  <2> QED BY <1>0, <2>5 DEF HeldInv, Alone
<1>5. CASE SaveRunning(e)
  <2>1. CASE row' = row /\ Ends(ex[e], ex'[e], "failed", "failed", TRUE)
    BY <1>0, <2>1, EndingHeld
  <2>2. CASE ~(row' = row /\ Ends(ex[e], ex'[e], "failed", "failed", TRUE))
    <3>1. HeldFits(ex'[e], row'.job, held["sub"], held["bal"])
      BY <1>1, <1>5, <2>2, SaveRunningDoes
      DEF HeldFits, Goal, Closing, Out, Delivering, Uncharged, Charged, Queueing, Waiting
    <3> QED BY <1>0, <3>1 DEF HeldInv, Alone
  <2> QED BY <2>1, <2>2
<1>6. CASE \E i \in Instances : Claim(e, i)
  <2>1. HeldFits(ex'[e], row'.job, held["sub"], held["bal"])
    BY <1>1, <1>6, ClaimDoes
    DEF HeldFits, Takes, Carries, Goal, Closing, Out, Delivering, Uncharged, Charged,
        Queueing, Waiting
  <2> QED BY <1>0, <2>1 DEF HeldInv, Alone
<1> QED BY <1>2, <1>3, <1>4, <1>5, <1>6

\* Nobody else reserves.
LEMMA OthersHeld ==
  ASSUME TypeInv, CourseInv, HeldInv, NEW e \in Execs, Alone(e),
         \/ \E c \in Cancels : CancelStep(c) \/ \E i \in Instances : CancelBefore(c, i)
         \/ \E i \in Instances : ReconcileList(i) \/ ReconcileStep(i)
         \/ Heartbeat \/ LeaseOver \/ RowAges
         \/ \E i \in Instances : Crash(i)
  PROVE  HeldInv'
<1>0. HeldFits(ex[e], row.job, held["sub"], held["bal"]) BY DEF HeldInv
<1>1. /\ held' = held
      /\ row'.job.status = "queued" => row.job.status = "queued"
  <2>1. ASSUME NEW c \in Cancels, CancelStep(c) \/ \E i \in Instances : CancelBefore(c, i)
        PROVE  held' = held /\ (row'.job.status = "queued" => row.job.status = "queued")
    <3>1. held' = held BY <2>1, RequestDoes
    <3>2. CASE CancelPut(c) \/ CancelSnapshot(c) \/ CancelFinal(c)
      <4>1. cx[c].item.status \in CancelStatus /\ cx[c].item \in Job
        BY <3>2, CancelOf, RequestSaves DEF CourseInv, RequestFits
      <4>2. row'.job.status \in CancelStatus BY <3>2, <4>1, RequestSaves, SavedDoes
      <4> QED BY <3>1, <4>2 DEF CancelStatus
    <3>3. CASE ~(CancelPut(c) \/ CancelSnapshot(c) \/ CancelFinal(c))
      BY <2>1, <3>1, <3>3
      DEF CancelStep, CancelBefore, CancelGet, CancelRefund, CancelRefundSub, CancelSignal,
          CancelMark
    <3> QED BY <3>2, <3>3
  <2>2. CASE \E i \in Instances : ReconcileList(i) \/ ReconcileStep(i)
    BY <2>2, ReconcileDoes DEF StaleFinal
  <2>3. CASE Heartbeat BY <2>3, HeartbeatDoes
  <2>4. CASE LeaseOver \/ RowAges BY <2>4, TimeDoes
  <2>5. CASE \E i \in Instances : Crash(i) BY <2>5, CrashDoes
  <2> QED BY <2>1, <2>2, <2>3, <2>4, <2>5
<1>2. \/ /\ ex'[e].pc = ex[e].pc /\ ex'[e].ret = ex[e].ret /\ ex'[e].sub = ex[e].sub
         /\ ex'[e].unheard = ex[e].unheard /\ ex'[e].mem.status = ex[e].mem.status
      \/ ex'[e].pc = "dead"
  <2>1. ASSUME NEW c \in Cancels, CancelStep(c) \/ \E i \in Instances : CancelBefore(c, i)
        PROVE  \/ ex'[e] = ex[e]
               \/ ex'[e] = [ex[e] EXCEPT !.live = FALSE]
    BY <2>1, RequestSaves, RequestReads, RequestRefunds, RequestMarks, RequestSignals
    DEF CancelStep
  <2>2. CASE ex'[e] = [ex[e] EXCEPT !.live = FALSE]
    BY <2>2, ExecOf DEF GoodExec, Execution
  <2>3. CASE (\E i \in Instances : ReconcileList(i) \/ ReconcileStep(i)) \/ Heartbeat
    BY <2>3, ReconcileDoes, HeartbeatDoes
  <2>4. CASE LeaseOver \/ RowAges BY <2>4, TimeDoes DEF Rests, Carries
  <2>5. CASE \E i \in Instances : Crash(i) BY <2>5, CrashDoes
  <2> QED BY <2>1, <2>2, <2>3, <2>4, <2>5
<1>3. HeldFits(ex'[e], row'.job, held["sub"], held["bal"])
  BY <1>0, <1>1, <1>2
  DEF HeldFits, Goal, Closing, Out, Delivering, Uncharged, Charged, Queueing, Waiting
<1> QED BY <1>1, <1>3 DEF HeldInv, Alone

LEMMA InitHeld == ASSUME Init PROVE HeldInv
BY ImageJobAssumption
DEF Init, Idle, NoJob, Wallets, HeldInv, HeldFits, Goal, Closing, Out, Delivering, Uncharged,
    Charged, Queueing, Waiting

LEMMA NextHeld ==
  ASSUME NEW e \in Execs, Alone(e), TypeInv, TypeInv', CourseInv, HeldInv, [Next]_vars
  PROVE  HeldInv'
<1>1. CASE Claims BY <1>1, WritingHeld DEF Claims, Alone
<1>2. ASSUME ExecStep(e) PROVE HeldInv'
  BY <1>2, QueueingHeld, ReservingHeld, ChargedHeld, SettlingHeld, WritingHeld DEF ExecStep
<1>3. CASE UNCHANGED vars BY <1>3 DEF vars, HeldInv, HeldFits
<1>4. CASE CancelArrives BY <1>4, OthersHeld DEF CancelArrives
<1> QED BY <1>1, <1>2, <1>3, <1>4, OthersHeld DEF Next, Rest, Alone

-----------------------------------------------------------------------------
(* What is given back by when.  Nothing is promised of a reserve that was  *)
(* reported as failed, nor of an execution that may have saved a lease     *)
(* that was over.                                                          *)

FreeFits(v, job, due, r, b, o) ==
  /\ due # "no" /\ job.status # "cancel_requested" /\ ~Late(v) =>
       \A i \in Instances : /\ r[i].pc = "refundSub" => b = 0
                            /\ r[i].pc \in {"mark", "update"} => o = 0
  /\ "failed" \in {job.status, v.mem.status} /\ RefundOnFailure /\ ~v.unheard /\ ~Late(v) =>
       o = 0
  /\ (Closing(v) \/ v.pc \in {"exit", "done"}) /\ RefundOnFailure /\ ~v.unheard /\ ~v.started
       /\ ~Late(v) => o = 0

FreeInv ==
  \A e \in Execs :
    /\ FreeFits(ex[e], row.job, row.due, rc, Refundable("bal"), Outstanding)
    /\ ex[e].pc = "dead" => crashes > 0

LEMMA LessOwed ==
  ASSUME TypeInv, Less
  PROVE  /\ Refundable("bal")' \in 0..Refundable("bal") /\ Outstanding' \in 0..Outstanding
         /\ Refundable("bal") = 0 => Refundable("bal")' = 0
         /\ Outstanding = 0 => Outstanding' = 0
         /\ Refundable("bal") \in Nat /\ Outstanding \in Nat
<1>1. Outstanding' = Refundable("sub")' + Refundable("bal")' BY DEF Outstanding
<1>2. /\ Refundable("sub")' \in 0..Refundable("sub") /\ Refundable("bal")' \in 0..Refundable("bal")
      /\ Refundable("sub") \in Nat /\ Refundable("bal") \in Nat
      /\ Outstanding = Refundable("sub") + Refundable("bal")
  BY Owed DEF Less, Wallets
<1> QED BY <1>1, <1>2

LEMMA SameOwed ==
  ASSUME TypeInv, held' = held, back' = back
  PROVE  Less /\ Refundable("bal")' = Refundable("bal") /\ Outstanding' = Outstanding
BY Owed DEF Less, Refundable, Outstanding

\* Nothing reserved, nothing owed.
LEMMA NothingOwed ==
  ASSUME TypeInv, HeldInv, NEW e \in Execs,
         Goal(ex[e]) \in Uncharged \/ (ex[e].pc = "undoSub" /\ ~ex[e].unheard)
  PROVE  /\ Refundable("bal") = 0
         /\ Goal(ex[e]) \in Uncharged => Outstanding = 0
         /\ ex[e].pc = "undoSub" => Refundable("sub") <= ex[e].sub
<1>1. HeldFits(ex[e], row.job, held["sub"], held["bal"]) BY DEF HeldInv
<1>2. /\ held["bal"] = 0 /\ (Goal(ex[e]) \in Uncharged => held["sub"] = 0)
      /\ ex[e].pc = "undoSub" => held["sub"] = ex[e].sub
  BY <1>1 DEF HeldFits
<1>3. /\ Refundable("bal") \in Nat /\ Refundable("sub") \in Nat
      /\ Refundable("bal") = held["bal"] - back["bal"]
      /\ Refundable("sub") = held["sub"] - back["sub"]
      /\ Outstanding = Refundable("sub") + Refundable("bal")
  BY Owed DEF Wallets
<1> QED BY <1>2, <1>3, HeldFields, ExecFields

LEMMA PriceOwed ==
  ASSUME TypeInv, HeldInv, NEW e \in Execs, Goal(ex[e]) \in Charged
  PROVE  Outstanding <= Requested
BY Owed, HeldFields DEF HeldInv, HeldFits

\* An end gives everything back, unless the provider has been called and the
\* execution did not fail.
LEMMA EndingFree ==
  ASSUME TypeInv, FreeInv, NEW e \in Execs, Alone(e), UNCHANGED <<row, rc>>, Less,
         NEW s, NEW n, NEW b, Ends(ex[e], ex'[e], s, n, b),
         RefundOnFailure /\ ~ex[e].unheard /\ ~Late(ex[e])
           /\ (~ex[e].started \/ s = "failed")
             => Outstanding' = 0
  PROVE  FreeInv'
<1>1. FreeFits(ex[e], row.job, row.due, rc, Refundable("bal"), Outstanding) BY DEF FreeInv
<1>2. FreeFits(ex'[e], row.job, row.due, rc, Refundable("bal")', Outstanding')
  BY <1>1, LessOwed
  DEF FreeFits, Ends, Carries, Late, Closing
<1> QED BY <1>2 DEF FreeInv, Alone, Ends

\* A step that only gives back, or nothing, and does not end.
LEMMA MovingFree ==
  ASSUME TypeInv, FreeInv, NEW e \in Execs, Alone(e), UNCHANGED <<row, rc>>, Less,
         ex[e].started => ex'[e].started, ex[e].unheard => ex'[e].unheard,
         ex[e].failover => ex'[e].failover,
         ex'[e].mem.status \in {ex[e].mem.status, row.job.status},
         Closing(ex'[e]) => Closing(ex[e]),
         ex'[e].pc \notin {"exit", "done", "dead"}
  PROVE  FreeInv'
<1>1. FreeFits(ex[e], row.job, row.due, rc, Refundable("bal"), Outstanding) BY DEF FreeInv
<1>2. FreeFits(ex'[e], row.job, row.due, rc, Refundable("bal")', Outstanding')
  BY <1>1, LessOwed DEF FreeFits, Late
<1> QED BY <1>2 DEF FreeInv, Alone

LEMMA QueueingFree ==
  ASSUME TypeInv, CourseInv, HeldInv, FreeInv, NEW e \in Execs, Alone(e),
         \/ Start(e) \/ Precheck(e) \/ PlaceQueued(e) \/ Admission(e) \/ CheckRunning(e)
         \/ PlaceRunning(e)
  PROVE  FreeInv'
<1>0. UNCHANGED <<row, held, back, rc>>
  BY StartDoes, PrecheckDoes, PlaceDoes, AdmissionDoes, ChecksDo DEF Quietly
<1>1. Less BY <1>0, SameOwed
<1>2. /\ Goal(ex[e]) \in Uncharged
      /\ \/ \E s, n, b : Ends(ex[e], ex'[e], s, n, b)
         \/ /\ ex'[e].started = ex[e].started /\ ex'[e].unheard = ex[e].unheard
            /\ ex'[e].failover = ex[e].failover
            /\ \/ ex'[e].pc \in {"precheck", "admission", "saveRunning", "placeRunning",
                                  "reserveSub"} /\ ex'[e].mem = ex[e].mem
               \/ /\ ex'[e].pc = "get" /\ ex'[e].ret = "placeQueued"
                  /\ ex'[e].mem.status = "queued"
  BY StartDoes, PrecheckDoes, PlaceDoes, AdmissionDoes, ChecksDo
  DEF PlaceQueued, PlaceRunning, CheckRunning, At, Goes, Saves, Carries, Goal, Uncharged,
      Queueing, Waiting
<1>3. Outstanding = 0 BY <1>2, NothingOwed
<1>4. CASE \E s, n, b : Ends(ex[e], ex'[e], s, n, b)
  BY <1>0, <1>1, <1>3, <1>4, LessOwed, EndingFree
<1>5. CASE ~\E s, n, b : Ends(ex[e], ex'[e], s, n, b)
  <2>1. FreeFits(ex[e], row.job, row.due, rc, Refundable("bal"), Outstanding) BY DEF FreeInv
  <2>2. FreeFits(ex'[e], row.job, row.due, rc, Refundable("bal"), Outstanding)
    BY <1>2, <1>3, <1>5, <2>1 DEF FreeFits, Late, Closing
  <2> QED BY <1>0, <1>2, <1>5, <2>2, SameOwed DEF FreeInv, Alone
<1> QED BY <1>4, <1>5

LEMMA ReservingFree ==
  ASSUME TypeInv, TypeInv', CourseInv, CourseInv', HeldInv, FreeInv, NEW e \in Execs, Alone(e),
         ReserveSub(e) \/ ReserveBal(e) \/ ReserveReply(e)
  PROVE  FreeInv'
<1>0. UNCHANGED <<row, rc>> BY ReserveSubDoes, ReserveBalDoes, ReserveReplyDoes DEF Quietly
<1>1. CASE held' = held /\ Ends(ex[e], ex'[e], "failed", "failed", TRUE)
  <2>1. ex[e].pc = "reserveSub" /\ back' = back
    BY <1>1, ReserveSubDoes, ReserveBalDoes, ReserveReplyDoes DEF Goes, Saves, Ends, Quietly
  <2>2. Outstanding = 0 BY <2>1, NothingOwed DEF Goal, Uncharged
  <2> QED BY <1>0, <1>1, <2>1, <2>2, SameOwed, EndingFree
<1>2. CASE ~(held' = held /\ Ends(ex[e], ex'[e], "failed", "failed", TRUE))
  <2>1. /\ ex[e].pc \in {"reserveSub", "reserveBal", "reserveReply"}
        /\ \/ ex'[e].pc \in {"reserveBal", "undoSub", "reserveReply"}
           \/ ex'[e].pc = "get" /\ ex'[e].ret = "checkReserved"
        /\ ex'[e].mem = ex[e].mem
    BY <1>2, ReserveSubDoes, ReserveBalDoes, ReserveReplyDoes DEF Goes, Saves, Carries
  <2>2. Course(ex[e], row.job, row.due) /\ Goal(ex[e]) \in Charging
    BY <2>1 DEF CourseInv, Goal, Charging
  <2>3. row.due = "no" /\ row.job.status # "failed" /\ ~Late(ex[e])
    BY <2>2 DEF Course, Busy, Late
  <2>4. ex[e].mem.status # "failed" BY <2>1, <2>2, <2>3 DEF Course, Closing
  <2>5. FreeFits(ex'[e], row.job, row.due, rc, Refundable("bal")', Outstanding')
    BY <2>1, <2>3, <2>4 DEF FreeFits, Closing
  <2> QED BY <1>0, <2>1, <2>5 DEF FreeInv, Alone
<1> QED BY <1>1, <1>2

LEMMA SendingFree ==
  ASSUME TypeInv, TypeInv', CourseInv, HeldInv, FreeInv, NEW e \in Execs, Alone(e),
         CheckReserved(e) \/ CheckDispatch(e) \/ Upstream(e) \/ Call(e)
  PROVE  FreeInv'
<1>0. UNCHANGED <<row, held, back, rc>> BY ChecksDo, UpstreamDoes, CallDoes DEF Quietly
<1>1. Less BY <1>0, SameOwed
<1>2. /\ ex[e].started => ex'[e].started
      /\ ex'[e].unheard = ex[e].unheard
      /\ ex[e].failover => ex'[e].failover
      /\ ex'[e].mem.status \in {ex[e].mem.status, row.job.status}
      /\ ~Closing(ex'[e])
      /\ ex'[e].pc \notin {"exit", "done", "dead"}
  <2>1. CASE CheckReserved(e) \/ CheckDispatch(e)
    BY <2>1, ChecksDo DEF CheckReserved, CheckDispatch, At, Goes, Takes, Saves, Carries, Closing
  <2>2. CASE Upstream(e) BY <2>2, UpstreamDoes DEF Goes, Carries, Closing
  <2>3. CASE Call(e) BY <2>3, CallDoes DEF Closing
  <2> QED BY <2>1, <2>2, <2>3
<1> QED BY <1>0, <1>1, <1>2, MovingFree

LEMMA AfterFree ==
  ASSUME TypeInv, TypeInv', CourseInv, HeldInv, FreeInv, NEW e \in Execs, Alone(e), After(e)
  PROVE  FreeInv'
<1>0. UNCHANGED <<row, held, back, rc>> /\ ex[e].pc = "after" BY AfterDoes DEF Quietly
<1>1. Less BY <1>0, SameOwed
<1>2. CASE ex[e].started /\ Ends(ex[e], ex'[e], "cancelled", "cancelled", FALSE)
  BY <1>0, <1>1, <1>2, EndingFree
<1>3. CASE /\ Carries(ex[e], ex'[e]) /\ ex'[e].pc \in {"refundCancel", "refundFailed", "settle"}
           /\ ex'[e].mem \in {ex[e].mem, row.job}
  BY <1>0, <1>1, <1>3, MovingFree DEF Carries, Closing
<1>4. CASE row.job.status \in Final \ CancelStatus /\ Takes(ex[e], ex'[e], "exit", row.job)
  <2>1. FreeFits(ex[e], row.job, row.due, rc, Refundable("bal"), Outstanding) BY DEF FreeInv
  <2>2. row.job.status = "failed"
    BY <1>0, <1>4 DEF CourseInv, Course, Closing, Out, Final, CancelStatus
  <2>3. FreeFits(ex'[e], row.job, row.due, rc, Refundable("bal"), Outstanding)
    BY <1>4, <2>1, <2>2 DEF FreeFits, Takes, Carries, Late, Closing
  <2> QED BY <1>0, <1>4, <2>3, SameOwed DEF FreeInv, Alone, Takes
<1> QED BY <1>2, <1>3, <1>4, AfterDoes DEF Takes, Goes

LEMMA SettlingFree ==
  ASSUME TypeInv, TypeInv', CourseInv, HeldInv, FreeInv, NEW e \in Execs, Alone(e),
         Settle(e) \/ CheckSettled(e) \/ UndoSub(e) \/ RefundCancel(e) \/ RefundFailed(e)
  PROVE  FreeInv'
<1>1. /\ Course(ex[e], row.job, row.due)
      /\ row.job.status \in Final => row.due = "no"
  BY DEF CourseInv, RowFits
<1>2. CASE Settle(e)
  <2>1. /\ UNCHANGED <<row, rc>> /\ ex[e].pc = "settle" /\ ex'[e].pc = "checkSettled"
        /\ ex'[e].mem = ex[e].mem /\ ex'[e].started = ex[e].started
        /\ ex'[e].failover = ex[e].failover
    BY <1>2, SettleDoes
  <2>2. ex[e].started /\ row.job.status # "queued"
    BY <1>1, <2>1 DEF Course, Goal, Sending
  <2>3. CASE ~Late(ex[e])
    <3>1. /\ row.job.status # "failed" /\ ex[e].mem.status # "failed"
          /\ row.due # "no" => row.job.status = "cancel_requested"
      BY <1>1, <2>1, <2>2, <2>3, ExecFields DEF Course, Closing, Status, Final
    <3>2. FreeFits(ex'[e], row.job, row.due, rc, Refundable("bal")', Outstanding')
      BY <2>1, <3>1 DEF FreeFits, Closing
    <3> QED BY <2>1, <3>2 DEF FreeInv, Alone
  <2>4. CASE Late(ex[e])
    <3>1. FreeFits(ex'[e], row.job, row.due, rc, Refundable("bal")', Outstanding')
      BY <2>1, <2>2, <2>4 DEF FreeFits, Closing, Late
    <3> QED BY <2>1, <3>1 DEF FreeInv, Alone
  <2> QED BY <2>3, <2>4
<1>3. CASE CheckSettled(e)
  <2>1. UNCHANGED <<row, held, back, rc>> /\ ex[e].pc = "checkSettled"
    BY <1>3, CheckSettledDoes DEF Quietly
  <2>2. ex[e].started BY <1>1, <2>1 DEF Course
  <2> QED BY <1>3, <2>1, <2>2, CheckSettledDoes, SameOwed, EndingFree
<1>4. CASE UndoSub(e) \/ RefundCancel(e) \/ RefundFailed(e)
  <2>1. UNCHANGED <<row, rc>> /\ Less BY <1>4, RefundsDo
  <2>2. CASE /\ ex[e].pc = "undoSub" /\ Ends(ex[e], ex'[e], "failed", "failed", TRUE)
             /\ Refundable("bal")' = Refundable("bal")
             /\ Refundable("sub") <= ex[e].sub => Refundable("sub")' = 0
    <3>1. ~ex[e].unheard => Refundable("bal")' = 0 /\ Refundable("sub")' = 0
      BY <2>2, NothingOwed
    <3>2. Outstanding' = Refundable("sub")' + Refundable("bal")' BY DEF Outstanding
    <3>3. ~ex[e].unheard => Outstanding' = 0 BY <3>1, <3>2
    <3> QED BY <2>1, <2>2, <3>3, EndingFree
  <2>3. CASE /\ ex[e].pc = "refundCancel"
             /\ Ends(ex[e], ex'[e], "cancelled", "cancelled", FALSE)
             /\ Outstanding <= Requested => Outstanding' = 0
    <3>1. Outstanding' = 0 BY <2>3, PriceOwed DEF Goal, Charged
    <3> QED BY <2>1, <2>3, <3>1, EndingFree
  <2>4. CASE /\ ex[e].pc = "refundFailed"
             /\ Ends(ex[e], ex'[e], "failed", "failed", TRUE)
             /\ RefundOnFailure /\ Outstanding <= Requested => Outstanding' = 0
    <3>1. RefundOnFailure => Outstanding' = 0 BY <2>4, PriceOwed DEF Goal, Charged
    <3> QED BY <2>1, <2>4, <3>1, EndingFree
  <2> QED BY <1>4, <2>2, <2>3, <2>4, RefundsDo
<1> QED BY <1>2, <1>3, <1>4

LEMMA WritingFree ==
  ASSUME TypeInv, TypeInv', CourseInv, HeldInv, FreeInv, NEW e \in Execs, Alone(e),
         \/ Record(e) \/ SaveGet(e) \/ SavePut(e) \/ Exit(e) \/ SaveRunning(e)
         \/ \E i \in Instances : Claim(e, i)
  PROVE  FreeInv'
<1>0. UNCHANGED <<held, back, rc>> /\ Less
  BY RecordDoes, SaveGetDoes, SavePutDoes, ExitDoes, SaveRunningDoes, ClaimDoes, SameOwed
  DEF Quietly
<1>1. /\ FreeFits(ex[e], row.job, row.due, rc, Refundable("bal"), Outstanding)
      /\ Course(ex[e], row.job, row.due)
  BY DEF FreeInv, CourseInv
<1>2. ASSUME FreeFits(ex'[e], row'.job, row'.due, rc, Refundable("bal"), Outstanding),
             ex'[e].pc # "dead"
      PROVE  FreeInv'
  BY <1>0, <1>2, SameOwed DEF FreeInv, Alone
<1>3. CASE Record(e)
  <2>1. UNCHANGED row /\ ex[e].pc = "record" /\ Saves(ex[e], ex'[e], "exit", ex[e].mem)
    BY <1>3, RecordDoes
  <2>2. FreeFits(ex'[e], row'.job, row'.due, rc, Refundable("bal"), Outstanding)
    BY <1>1, <2>1 DEF FreeFits, Saves, Carries, Closing, Late
  <2> QED BY <1>2, <2>1, <2>2 DEF Saves
<1>4. CASE Exit(e)
  <2>1. UNCHANGED row BY <1>4, ExitDoes DEF Quietly
  <2>2. FreeFits(ex'[e], row'.job, row'.due, rc, Refundable("bal"), Outstanding)
    BY <1>1, <1>4, <2>1, ExitDoes DEF FreeFits, NoJob, Closing, Late
  <2> QED BY <1>2, <1>4, <2>2, ExitDoes
<1>5. CASE SaveGet(e)
  <2>1. row' = row /\ ex[e].pc = "get" BY <1>5, SaveGetDoes DEF Quietly
  <2>2. CASE Goes(ex[e], ex'[e], "put")
    BY <1>0, <2>1, <2>2, MovingFree DEF Goes, Carries, Closing
  <2>3. CASE ex[e].mem.status \notin Final /\ Takes(ex[e], ex'[e], ex[e].ret, row.job)
    <3>1. ~Closing(ex[e]) BY <1>1, <2>3 DEF Course
    <3>2. ex[e].ret \in {"placeQueued", "checkReserved", "checkDispatch", "upstream", "call"}
      BY <2>1, <3>1, ExecFields DEF Closing, ExecRet
    <3> QED BY <1>0, <2>1, <2>3, <3>2, MovingFree DEF Takes, Carries, Closing
  <2> QED BY <1>5, <2>2, <2>3, SaveGetDoes
<1>6. CASE SavePut(e)
  <2>1. /\ ex[e].pc = "put" /\ ex'[e].pc = ex[e].ret /\ Carries(ex[e], ex'[e])
        /\ row'.job.status = ex[e].mem.status /\ ex'[e].mem.status = ex[e].mem.status
        /\ row'.due = "no" \/ Late(ex[e])
    BY <1>6, SavePutDoes, SavedDoes, SavedFresh DEF Takes
  <2>2. ex[e].ret \in {"placeQueued", "checkReserved", "checkDispatch", "upstream", "call", "exit"}
    BY ExecFields DEF ExecRet
  <2>3. FreeFits(ex'[e], row'.job, row'.due, rc, Refundable("bal"), Outstanding)
    BY <1>1, <2>1, <2>2 DEF FreeFits, Carries, Closing, Late
  <2> QED BY <1>2, <2>1, <2>2, <2>3
<1>7. CASE SaveRunning(e)
  <2>0. ex[e].pc = "saveRunning" BY <1>7, SaveRunningDoes
  <2>1. Outstanding = 0 BY <2>0, NothingOwed DEF Goal, Uncharged, Waiting
  <2>2. CASE row' = row /\ Ends(ex[e], ex'[e], "failed", "failed", TRUE)
    BY <1>0, <2>1, <2>2, SameOwed, EndingFree
  <2>3. CASE ~(row' = row /\ Ends(ex[e], ex'[e], "failed", "failed", TRUE))
    <3>1. FreeFits(ex'[e], row'.job, row'.due, rc, Refundable("bal"), Outstanding)
      BY <1>7, <2>1, <2>3, SaveRunningDoes DEF FreeFits, Closing
    <3> QED BY <1>2, <1>7, <2>3, <3>1, SaveRunningDoes
  <2> QED BY <2>2, <2>3
<1>8. CASE \E i \in Instances : Claim(e, i)
  <2>1. FreeFits(ex'[e], row'.job, row'.due, rc, Refundable("bal"), Outstanding)
    BY <1>8, ClaimDoes DEF FreeFits, Takes, NoJob, Closing
  <2> QED BY <1>2, <1>8, <2>1, ClaimDoes DEF Takes
<1> QED BY <1>3, <1>4, <1>5, <1>6, <1>7, <1>8

LEMMA RequestFree ==
  ASSUME TypeInv, CourseInv, FreeInv, NEW e \in Execs, Alone(e), NEW c \in Cancels,
         CancelStep(c) \/ \E i \in Instances : CancelBefore(c, i)
  PROVE  FreeInv'
<1>1. /\ FreeFits(ex[e], row.job, row.due, rc, Refundable("bal"), Outstanding)
      /\ ex[e].pc = "dead" => crashes > 0
  BY DEF FreeInv
<1>2. UNCHANGED <<held, rc, crashes>> BY RequestDoes
<1>3. CASE CancelPut(c) \/ CancelSnapshot(c) \/ CancelFinal(c)
  <2>1. /\ UNCHANGED <<ex, back>> /\ row' = Saved(cx[c].item)
        /\ cx[c].item \in Job /\ cx[c].item.status \in CancelStatus
    BY <1>3, RequestSaves, CancelOf DEF CourseInv, RequestFits
  <2>2. row'.job.status \in CancelStatus /\ row'.due = "no"
    BY <2>1, SavedDoes DEF CancelStatus
  <2>3. FreeFits(ex'[e], row'.job, row'.due, rc, Refundable("bal"), Outstanding)
    BY <1>1, <2>1, <2>2 DEF FreeFits, CancelStatus
  <2> QED BY <1>1, <1>2, <2>1, <2>3, SameOwed DEF FreeInv, Alone
<1>4. ASSUME UNCHANGED row, Less, ex'[e] \in {ex[e], [ex[e] EXCEPT !.live = FALSE]}
      PROVE  FreeInv'
  <2>1. /\ ex'[e].pc = ex[e].pc /\ ex'[e].mem = ex[e].mem /\ ex'[e].ret = ex[e].ret
        /\ ex'[e].started = ex[e].started /\ ex'[e].failover = ex[e].failover
        /\ ex'[e].unheard = ex[e].unheard
    BY <1>4, ExecOf DEF GoodExec, Execution
  <2>2. FreeFits(ex'[e], row.job, row.due, rc, Refundable("bal")', Outstanding')
    BY <1>1, <1>4, <2>1, LessOwed DEF FreeFits, Closing, Late
  <2> QED BY <1>1, <1>2, <1>4, <2>1, <2>2 DEF FreeInv, Alone
<1>5. CASE CancelGet(c) \/ \E i \in Instances : CancelBefore(c, i)
  BY <1>2, <1>4, <1>5, RequestReads, SameOwed
<1>6. CASE CancelRefund(c) \/ CancelRefundSub(c) BY <1>4, <1>6, RequestRefunds
<1>7. CASE CancelMark(c) BY <1>2, <1>4, <1>7, RequestMarks, SameOwed
<1>8. CASE CancelSignal(c)
  <2>1. UNCHANGED <<row, back>> /\ ex'[e] \in {ex[e], [ex[e] EXCEPT !.live = FALSE]}
    BY <1>8, RequestSignals
  <2> QED BY <1>2, <1>4, <2>1, SameOwed
<1> QED BY <1>3, <1>5, <1>6, <1>7, <1>8 DEF CancelStep

LEMMA ReconcileFree ==
  ASSUME TypeInv, CourseInv, FreeInv, NEW e \in Execs, Alone(e), NEW i \in Instances,
         ReconcileList(i) \/ ReconcileStep(i)
  PROVE  FreeInv'
<1>1. /\ FreeFits(ex[e], row.job, row.due, rc, Refundable("bal"), Outstanding)
      /\ ex[e].pc = "dead" => crashes > 0
      /\ row.due # "no" /\ rc[i].pc # "idle" /\ ~Late(ex[e]) =>
           rc[i].refunds = RefundsStale(row.job)
  BY DEF FreeInv, CourseInv, PassFits
<1>2. /\ UNCHANGED <<ex, crashes, held>> /\ Less
      /\ \A k \in Instances \ {i} : rc'[k] = rc[k]
  BY ReconcileDoes
<1>3. ASSUME FreeFits(ex[e], row'.job, row'.due, rc', Refundable("bal")', Outstanding')
      PROVE  FreeInv'
  BY <1>1, <1>2, <1>3 DEF FreeInv, Alone
\* As long as the row is left alone only the pass itself matters.
<1>4. ASSUME row' = row,
             row.due # "no" /\ row.job.status # "cancel_requested" /\ ~Late(ex[e]) =>
               /\ rc'[i].pc = "refundSub" => Refundable("bal")' = 0
               /\ rc'[i].pc \in {"mark", "update"} => Outstanding' = 0
      PROVE  FreeInv'
  <2>1. FreeFits(ex[e], row'.job, row'.due, rc', Refundable("bal")', Outstanding')
    <3>1. row.due # "no" /\ row.job.status # "cancel_requested" /\ ~Late(ex[e]) =>
            \A k \in Instances : /\ rc'[k].pc = "refundSub" => Refundable("bal")' = 0
                                 /\ rc'[k].pc \in {"mark", "update"} => Outstanding' = 0
      <4> SUFFICES ASSUME row.due # "no", row.job.status # "cancel_requested", ~Late(ex[e]),
                          NEW k \in Instances
                   PROVE  /\ rc'[k].pc = "refundSub" => Refundable("bal")' = 0
                          /\ rc'[k].pc \in {"mark", "update"} => Outstanding' = 0
        OBVIOUS
      <4>1. CASE k = i BY <1>4, <4>1
      <4>2. CASE k # i BY <1>1, <1>2, <4>2, LessOwed DEF FreeFits
      <4> QED BY <4>1, <4>2
    <3> QED BY <1>1, <1>2, <1>4, <3>1, LessOwed DEF FreeFits
  <2> QED BY <1>3, <2>1
<1>5. CASE /\ rc[i].pc = "idle" /\ row' = row
           /\ \/ rc'[i].pc = "refund"
              \/ row.due = "no"
  BY <1>4, <1>5
<1>6. CASE /\ rc[i].pc = "refund" /\ rc'[i].pc = "refundSub" /\ row' = row
           /\ rc[i].refunds => Refundable("bal")' = 0
  BY <1>1, <1>4, <1>6 DEF RefundsStale
<1>7. CASE /\ rc[i].pc = "refundSub" /\ rc'[i].pc = "mark" /\ row' = row
           /\ rc[i].refunds => /\ Refundable("sub")' = 0
                               /\ Refundable("bal")' = Refundable("bal")
  <2>1. Outstanding' = Refundable("sub")' + Refundable("bal")' BY DEF Outstanding
  <2>2. rc[i].refunds /\ Refundable("bal") = 0 => Outstanding' = 0 BY <1>7, <2>1
  <2>3. row.due # "no" /\ row.job.status # "cancel_requested" /\ ~Late(ex[e]) =>
          Refundable("bal") = 0 /\ rc[i].refunds
    BY <1>1, <1>7 DEF FreeFits, RefundsStale
  <2> QED BY <1>4, <1>7, <2>2, <2>3
<1>8. CASE rc[i].pc = "mark" /\ rc'[i].pc = "update" /\ UNCHANGED <<row, back>>
  <2>1. row.due # "no" /\ row.job.status # "cancel_requested" /\ ~Late(ex[e]) =>
          Outstanding = 0
    BY <1>1, <1>8 DEF FreeFits
  <2> QED BY <1>2, <1>4, <1>8, <2>1, SameOwed
<1>9. CASE /\ rc[i].pc = "update" /\ rc'[i].pc = "idle" /\ back' = back
           /\ IF row.due # "no"
              THEN row'.job.status = StaleFinal(row.job) /\ row'.due = "no"
              ELSE row' = row
  <2>1. CASE row.due = "no" BY <1>4, <1>9, <2>1
  <2>2. CASE row.due # "no"
    <3>1. row.job.status # "cancel_requested" /\ ~Late(ex[e]) => Outstanding = 0
      BY <1>1, <1>9, <2>2 DEF FreeFits
    <3>2. FreeFits(ex[e], row'.job, row'.due, rc', Refundable("bal")', Outstanding')
      BY <1>1, <1>2, <1>9, <2>2, <3>1, SameOwed DEF FreeFits, StaleFinal
    <3> QED BY <1>3, <3>2
  <2> QED BY <2>1, <2>2
<1> QED BY <1>5, <1>6, <1>7, <1>8, <1>9, ReconcileDoes

LEMMA TimeFree ==
  ASSUME TypeInv, CourseInv, FreeInv, NEW e \in Execs, Alone(e),
         Heartbeat \/ LeaseOver \/ RowAges
  PROVE  FreeInv'
<1>1. /\ FreeFits(ex[e], row.job, row.due, rc, Refundable("bal"), Outstanding)
      /\ ex[e].pc = "dead" => crashes > 0
  BY DEF FreeInv
<1>2. /\ UNCHANGED <<held, back, crashes, rc>> /\ row'.job.status = row.job.status
      /\ row'.due # "no" => \A i \in Instances : rc[i].pc = "idle"
      /\ ex'[e].pc = ex[e].pc /\ ex'[e].ret = ex[e].ret
      /\ ex'[e].mem.status = ex[e].mem.status /\ ex'[e].unheard = ex[e].unheard
      /\ ex'[e].started = ex[e].started /\ ex'[e].failover = ex[e].failover
  <2>1. CASE Heartbeat BY <2>1, HeartbeatDoes
  <2>2. CASE LeaseOver \/ RowAges BY <1>1, <2>2, TimeDoes DEF Rests, Carries
  <2> QED BY <2>1, <2>2
<1>3. FreeFits(ex'[e], row'.job, row'.due, rc, Refundable("bal"), Outstanding)
  BY <1>1, <1>2 DEF FreeFits, Closing, Late
<1> QED BY <1>1, <1>2, <1>3, SameOwed DEF FreeInv, Alone

LEMMA CrashFree ==
  ASSUME TypeInv, CourseInv, FreeInv, NEW e \in Execs, Alone(e), NEW i \in Instances,
         Crash(i)
  PROVE  FreeInv'
<1>1. /\ FreeFits(ex[e], row.job, row.due, rc, Refundable("bal"), Outstanding)
      /\ UNCHANGED <<row, held, back>> /\ crashes' > 0
      /\ \A k \in Instances : rc'[k] = rc[k] \/ rc'[k].pc = "idle"
  BY CrashDoes DEF FreeInv, TypeInv, TypeOK, Reconciler
<1>2. FreeFits(ex'[e], row.job, row.due, rc', Refundable("bal"), Outstanding)
  BY <1>1, CrashDoes DEF FreeFits, NoJob, Closing, Late
<1> QED BY <1>1, <1>2, SameOwed DEF FreeInv, Alone

LEMMA InitFree == ASSUME Init PROVE FreeInv
BY DEF Init, Idle, NoJob, FreeInv, FreeFits, Closing

LEMMA NextFree ==
  ASSUME NEW e \in Execs, Alone(e), TypeInv, TypeInv', CourseInv, CourseInv', HeldInv, FreeInv,
         [Next]_vars
  PROVE  FreeInv'
<1>1. CASE Claims BY <1>1, WritingFree DEF Claims, Alone
<1>2. ASSUME ExecStep(e) PROVE FreeInv'
  BY <1>2, QueueingFree, ReservingFree, SendingFree, AfterFree, SettlingFree, WritingFree
  DEF ExecStep
<1>3. CASE UNCHANGED vars
  BY <1>3 DEF vars, FreeInv, FreeFits, Refundable, Outstanding
<1>4. CASE CancelArrives \/ \E c \in Cancels : CancelStep(c)
  BY <1>4, RequestFree DEF CancelArrives
<1> QED BY <1>1, <1>2, <1>3, <1>4, ReconcileFree, TimeFree, CrashFree DEF Next, Rest, Alone

LEMMA MoneyHolds ==
  ASSUME NEW e, Execs = {e}
  PROVE  Spec => [](TypeInv /\ CourseInv /\ HeldInv /\ FreeInv)
<1>0. e \in Execs /\ Alone(e) BY DEF Alone
<1>1. Init => TypeInv /\ CourseInv /\ HeldInv /\ FreeInv
  BY <1>0, InitTypes, InitCourse, InitHeld, InitFree
<1>2. TypeInv /\ CourseInv /\ HeldInv /\ FreeInv /\ [Next]_vars
        => (TypeInv /\ CourseInv /\ HeldInv /\ FreeInv)'
  BY <1>0, NextTypes, NextCourse, NextHeld, NextFree
<1> QED BY <1>1, <1>2, PTL DEF Spec

\* Of a job that is executed once: when it ends as failed and failures are
\* refunded, nothing stays charged, whoever comes last of its execution, the
\* reconciler and the cancel requests (refundReservedCredits,
\* reconcileStaleBusinessImageJobs).
THEOREM OneFailureIsFree ==
  ASSUME NEW e, Execs = {e}
  PROVE  Spec => []FailureIsFree
<1>1. TypeInv /\ CourseInv /\ HeldInv /\ FreeInv => FailureIsFree
  BY DEF FreeInv, FreeFits, FailureIsFree, Unheard, Outlived, Late
<1> QED BY <1>1, MoneyHolds, PTL

\* ... and where failures are refunded, a job that was cancelled before its
\* upstream call costs nothing either, unless its execution failed over
\* (executeProviderImageGenerate, handleCancelBusinessImageJob).
LEMMA OneEarlyCancelIsFree ==
  ASSUME NEW e, Execs = {e}, RefundOnFailure
  PROVE  Spec => [](~Outlived => CancelBeforeUpstreamIsFree)
<1>0. e \in Execs /\ Alone(e) BY DEF Alone
<1>1. TypeInv /\ CourseInv /\ HeldInv /\ FreeInv
        => (~Outlived => CancelBeforeUpstreamIsFree)
  <2> SUFFICES ASSUME TypeInv, HeldInv, FreeInv, Settled, ~Called, ~Unheard, ~Outlived,
                      crashes = 0
               PROVE  Outstanding = 0
    BY DEF CancelBeforeUpstreamIsFree
  <2>1. ~ex[e].started /\ ~ex[e].unheard /\ ~Late(ex[e])
    BY <1>0 DEF Called, Unheard, Outlived, Late
  <2>2. /\ FreeFits(ex[e], row.job, row.due, rc, Refundable("bal"), Outstanding)
        /\ ex[e].pc # "dead"
    BY <1>0 DEF FreeInv
  <2>3. ex[e].pc \in {"idle", "done"} BY <1>0, <2>2 DEF Settled, Quiet, InFlight
  <2>4. CASE ex[e].pc = "done" BY <2>1, <2>2, <2>4 DEF FreeFits
  <2>5. CASE ex[e].pc = "idle" BY <1>0, <2>5, NothingOwed DEF Goal, Uncharged
  <2> QED BY <2>3, <2>4, <2>5
<1> QED BY <1>1, MoneyHolds, PTL

-----------------------------------------------------------------------------
(* What delivered images have cost: never more than the bill, whoever has  *)
(* given what back.  And exactly the bill, because nothing is given back   *)
(* before the answer is settled, and nothing after it, unless a cancel     *)
(* request found the job before its upstream call or the reconciler took   *)
(* it over.                                                                *)

Quoted(v) == Goal(v) \in Uncharged \cup Charged \cup {"reserveBal", "reserveReply", "undoSub"}

Wrote(v, g) ==
  /\ g = "succeeded" => Closing(v) \/ Out(v)
  /\ v.pc = "record" /\ v.note = "succeeded" => v.mem.status = "succeeded"

PaidFits(v, job, g, s, b, o) ==
  /\ Quoted(v) => s = 0 /\ b = 0
  /\ Delivering(v) \/ "succeeded" \in {job.status, g} => o = Bill(v.images)

CostFits(v, job, g, o) ==
  Delivering(v) \/ "succeeded" \in {job.status, g} => o <= Bill(v.images)

PaidInv ==
  /\ \A e \in Execs : Wrote(ex[e], gen) /\ CostFits(ex[e], row.job, gen, Outstanding)
  /\ ~Clock /\ ~CancelledEarly =>
       \A e \in Execs :
         PaidFits(ex[e], row.job, gen, back["sub"], back["bal"], Outstanding)

\* An early cancellation is never forgotten.
LEMMA EarlyStays ==
  ASSUME TypeInv, CourseInv, NEW e \in Execs, Alone(e), [Next]_vars, CancelledEarly
  PROVE  CancelledEarly'
<1>1. PICK c \in Cancels : cx[c].early /\ cx[c].item.status \in CancelStatus
  BY DEF CancelledEarly
<1>2. cx[c].pc \notin {"idle", "get"}
  BY <1>1 DEF CourseInv, RequestFits, CancelStatus
<1>3. cx'[c].early /\ cx'[c].item.status \in CancelStatus
  <2>1. ASSUME NEW d \in Cancels, CancelStep(d) \/ \E i \in Instances : CancelBefore(d, i)
        PROVE  cx'[c].early /\ cx'[c].item.status \in CancelStatus
    <3>1. CASE d # c BY <1>1, <2>1, <3>1, RequestDoes
    <3>2. CASE d = c
      <4>1. CASE CancelPut(c) \/ CancelSnapshot(c) \/ CancelFinal(c)
        BY <1>1, <4>1, RequestSaves
      <4>2. CASE CancelGet(c) \/ \E i \in Instances : CancelBefore(c, i)
        BY <1>2, <4>2, RequestReads
      <4>3. CASE CancelRefund(c) \/ CancelRefundSub(c) BY <1>1, <4>3, RequestRefunds
      <4>4. CASE CancelMark(c) BY <1>1, <4>4, RequestMarks
      <4>5. CASE CancelSignal(c) BY <1>1, <4>5, RequestSignals DEF CancelStatus
      <4> QED BY <2>1, <3>2, <4>1, <4>2, <4>3, <4>4, <4>5 DEF CancelStep
    <3> QED BY <3>1, <3>2
  <2>2. CASE \E i \in Instances : Crash(i) BY <1>1, <2>2, CrashDoes
  <2>3. ASSUME cx' = cx PROVE cx'[c].early /\ cx'[c].item.status \in CancelStatus
    BY <1>1, <2>3
  <2>4. ASSUME ExecStep(e) \/ Claims PROVE cx' = cx
    BY <2>4
    DEF Alone, ExecStep, Claims, Claim, Start, Precheck, PlaceQueued, Admission, SaveRunning,
        CheckRunning, PlaceRunning, ReserveSub, ReserveBal, ReserveReply, UndoSub,
        CheckReserved, CheckDispatch, RefundCancel, Upstream, Call, After, RefundFailed,
        Settle, CheckSettled, Record, SaveGet, SavePut, Exit
  <2>5. CASE \E i \in Instances : ReconcileList(i) \/ ReconcileStep(i)
    BY <2>3, <2>5, ReconcileDoes
  <2>6. CASE Heartbeat \/ LeaseOver \/ RowAges
    BY <2>3, <2>6 DEF Heartbeat, LeaseOver, RowAges
  <2>7. CASE Rest \/ UNCHANGED vars BY <2>3, <2>7 DEF Rest, vars
  <2> QED BY <2>1, <2>2, <2>3, <2>4, <2>5, <2>6, <2>7 DEF Next, CancelArrives, Alone
<1> QED BY <1>3 DEF CancelledEarly

\* A step that charges nothing, and leaves alone what the money is about.
LEMMA PaidStays ==
  ASSUME TypeInv, TypeInv', PaidInv, NEW e \in Execs, Alone(e),
         CancelledEarly => CancelledEarly', Less, ~Clock /\ ~CancelledEarly' => back' = back,
         ex'[e].images = ex[e].images,
         Quoted(ex'[e]) => Quoted(ex[e]), Delivering(ex'[e]) => Delivering(ex[e]),
         row'.job.status = "succeeded" => row.job.status = "succeeded" \/ Delivering(ex[e]),
         gen' = "succeeded" => gen = "succeeded" \/ Delivering(ex[e]),
         Wrote(ex'[e], gen')
  PROVE  PaidInv'
<1>1. CostFits(ex'[e], row'.job, gen', Outstanding')
  <2>1. CostFits(ex[e], row.job, gen, Outstanding) BY DEF PaidInv
  <2>2. Outstanding' <= Outstanding /\ Outstanding' \in Nat /\ Outstanding \in Nat
    BY LessOwed, Owed
  <2>3. Bill(ex[e].images) \in Nat BY ExecFields, HeldFields DEF Bill
  <2> QED BY <2>1, <2>2, <2>3 DEF CostFits
<1>2. \A d \in Execs : Wrote(ex'[d], gen') /\ CostFits(ex'[d], row'.job, gen', Outstanding')
  BY <1>1 DEF Alone
<1>3. ASSUME ~Clock, ~CancelledEarly'
      PROVE  PaidFits(ex'[e], row'.job, gen', back'["sub"], back'["bal"], Outstanding')
  <2>1. PaidFits(ex[e], row.job, gen, back["sub"], back["bal"], Outstanding)
    BY <1>3 DEF PaidInv
  <2>2. back' = back /\ held' = held BY <1>3 DEF Less
  <2>3. Outstanding' = Outstanding BY <2>2 DEF Outstanding, Refundable
  <2> QED BY <2>1, <2>2, <2>3 DEF PaidFits
<1> QED BY <1>2, <1>3 DEF PaidInv, Alone

\* Before the answer is settled nothing has been delivered.
LEMMA UnsettledPaid ==
  ASSUME CourseInv, PaidInv, NEW e \in Execs, Alone(e), CancelledEarly => CancelledEarly',
         ~Closing(ex[e]), ~Out(ex[e]),
         Quoted(ex'[e]) => Quoted(ex[e]) /\ back' = back,
         ~Delivering(ex'[e]), ex'[e].pc = "record" => ex'[e].note # "succeeded",
         row'.job.status = "succeeded" => row.job.status = "succeeded",
         gen' = "succeeded" => gen = "succeeded"
  PROVE  PaidInv'
<1>1. row'.job.status # "succeeded" /\ gen' # "succeeded"
  BY DEF PaidInv, Wrote, CourseInv, Course
<1>2. \A d \in Execs : Wrote(ex'[d], gen') /\ CostFits(ex'[d], row'.job, gen', Outstanding')
  BY <1>1 DEF Alone, Wrote, CostFits
<1>3. ASSUME ~Clock, ~CancelledEarly'
      PROVE  PaidFits(ex'[e], row'.job, gen', back'["sub"], back'["bal"], Outstanding')
  BY <1>1, <1>3 DEF PaidInv, PaidFits
<1> QED BY <1>2, <1>3 DEF PaidInv, Alone

LEMMA QueueingPaid ==
  ASSUME TypeInv, CourseInv, PaidInv, NEW e \in Execs, Alone(e),
         CancelledEarly => CancelledEarly',
         \/ Start(e) \/ Precheck(e) \/ PlaceQueued(e) \/ Admission(e) \/ CheckRunning(e)
         \/ PlaceRunning(e) \/ SaveRunning(e) \/ \E i \in Instances : Claim(e, i)
  PROVE  PaidInv'
<1>1. /\ back' = back /\ Quoted(ex[e]) /\ ~Closing(ex[e]) /\ ~Out(ex[e])
      /\ row' = row \/ row'.job.status \in {"queued", "running"}
      /\ gen' \in {gen, "queued", "running"}
  BY StartDoes, PrecheckDoes, PlaceDoes, AdmissionDoes, ChecksDo, SaveRunningDoes, ClaimDoes
  DEF Quietly, CheckRunning, At, Quoted, Goal, Closing, Out, Uncharged, Queueing, Waiting
<1>2. \/ \E s \in {"failed", "cancelled"}, n \in {"failed", "cancelled", "skip"} : \E b :
           Ends(ex[e], ex'[e], s, n, b)
      \/ ex'[e].pc \in {"precheck", "admission", "saveRunning", "checkRunning", "placeRunning",
                        "reserveSub", "start"}
      \/ ex'[e].pc = "get" /\ ex'[e].ret = "placeQueued"
  BY StartDoes, PrecheckDoes, PlaceDoes, AdmissionDoes, ChecksDo, SaveRunningDoes, ClaimDoes
  DEF CheckRunning, At, Goes, Saves, Takes
<1>3. ~Delivering(ex'[e]) /\ (ex'[e].pc = "record" => ex'[e].note # "succeeded")
  BY <1>2 DEF Ends, Delivering, Closing
<1> QED BY <1>1, <1>3, UnsettledPaid

LEMMA ReservingPaid ==
  ASSUME TypeInv, CourseInv, PaidInv, NEW e \in Execs, Alone(e),
         CancelledEarly => CancelledEarly',
         ReserveSub(e) \/ ReserveBal(e) \/ ReserveReply(e)
  PROVE  PaidInv'
<1>1. /\ UNCHANGED <<row, gen, back>> /\ Quoted(ex[e]) /\ ~Closing(ex[e]) /\ ~Out(ex[e])
  BY ReserveSubDoes, ReserveBalDoes, ReserveReplyDoes
  DEF Quietly, Quoted, Goal, Closing, Out, Uncharged
<1>2. \/ Ends(ex[e], ex'[e], "failed", "failed", TRUE)
      \/ ex'[e].pc \in {"reserveBal", "undoSub", "reserveReply"}
      \/ ex'[e].pc = "get" /\ ex'[e].ret = "checkReserved"
  BY ReserveSubDoes, ReserveBalDoes, ReserveReplyDoes DEF Goes, Saves
<1>3. ~Delivering(ex'[e]) /\ (ex'[e].pc = "record" => ex'[e].note # "succeeded")
  BY <1>2 DEF Ends, Delivering, Closing
<1> QED BY <1>1, <1>3, UnsettledPaid

LEMMA SendingPaid ==
  ASSUME TypeInv, CourseInv, PaidInv, NEW e \in Execs, Alone(e),
         CancelledEarly => CancelledEarly',
         CheckReserved(e) \/ CheckDispatch(e) \/ Upstream(e) \/ Call(e) \/ After(e)
  PROVE  PaidInv'
<1>1. /\ UNCHANGED <<row, gen, back>> /\ Quoted(ex[e]) /\ ~Closing(ex[e]) /\ ~Out(ex[e])
  BY ChecksDo, UpstreamDoes, CallDoes, AfterDoes
  DEF Quietly, CheckReserved, CheckDispatch, At, Quoted, Goal, Closing, Out, Charged
<1>2. \/ Ends(ex[e], ex'[e], "cancelled", "cancelled", FALSE)
      \/ ex'[e].pc \in {"refundCancel", "upstream", "call", "after", "refundFailed", "settle",
                        "exit"}
      \/ ex'[e].pc = "get" /\ ex'[e].ret \in {"checkDispatch", "call", "upstream"}
  BY ChecksDo, UpstreamDoes, CallDoes, AfterDoes
  DEF CheckReserved, CheckDispatch, At, Goes, Takes, Saves
<1>3. ~Delivering(ex'[e]) /\ (ex'[e].pc = "record" => ex'[e].note # "succeeded")
  BY <1>2 DEF Ends, Delivering, Closing
<1> QED BY <1>1, <1>3, UnsettledPaid

LEMMA RefundingPaid ==
  ASSUME TypeInv, CourseInv, PaidInv, NEW e \in Execs, Alone(e),
         CancelledEarly => CancelledEarly', UndoSub(e) \/ RefundCancel(e) \/ RefundFailed(e)
  PROVE  PaidInv'
<1>1. /\ UNCHANGED <<row, gen>> /\ ~Closing(ex[e]) /\ ~Out(ex[e])
      /\ \E s \in {"failed", "cancelled"}, n \in {"failed", "cancelled"} : \E b :
           Ends(ex[e], ex'[e], s, n, b)
  BY RefundsDo DEF Closing, Out
<1>2. /\ ~Delivering(ex'[e]) /\ ex'[e].note # "succeeded"
      /\ Quoted(ex'[e]) => FALSE
  BY <1>1
  DEF Ends, Delivering, Closing, Quoted, Goal, Uncharged, Charged, Queueing, Waiting
<1> QED BY <1>1, <1>2, UnsettledPaid

\* Of a price of which o is left, at most the bill is left when the answer is
\* settled; and exactly the bill if nothing of the price had been given back.
LEMMA SettledPaid ==
  ASSUME TypeInv, TypeInv', HeldInv, NEW e \in Execs, Settle(e), ex[e].images > 0
  PROVE  /\ Outstanding' <= Bill(ex'[e].images)
         /\ back["sub"] = 0 /\ back["bal"] = 0 => Outstanding' = Bill(ex'[e].images)
<1>1. ex[e].pc = "settle" BY SettleDoes
<1>2. held["sub"] + held["bal"] = Requested
  BY <1>1 DEF HeldInv, HeldFits, Goal, Charged
<1>3. /\ Outstanding <= Requested /\ Outstanding \in Nat
      /\ back["sub"] = 0 /\ back["bal"] = 0 => Outstanding = Requested
      /\ Requested \in Nat \ {0} /\ ex[e].images \in Nat
  BY <1>2, Owed, HeldFields, ExecFields
<1>4. CASE /\ ex[e].images < Requested /\ ex'[e].images = ex[e].images
           /\ RefundPartial /\ RefundOnFailure
           /\ Outstanding' = IF Missing(ex[e].images) <= Outstanding
                             THEN Outstanding - Missing(ex[e].images) ELSE 0
  BY <1>3, <1>4 DEF Missing, Bill
<1>5. CASE /\ ex[e].images < Requested /\ ex'[e].images = ex[e].images
           /\ ~(RefundPartial /\ RefundOnFailure) /\ UNCHANGED <<held, back>>
  <2>1. Outstanding' = Outstanding BY <1>5 DEF Outstanding, Refundable
  <2> QED BY <1>3, <1>5, <2>1 DEF Bill
<1>6. CASE ex'[e].images = Requested /\ UNCHANGED <<held, back>>
  <2>1. Outstanding' = Outstanding BY <1>6 DEF Outstanding, Refundable
  <2> QED BY <1>3, <1>6, <2>1 DEF Bill
<1>7. CASE /\ ex[e].images > Requested /\ ex'[e].images = ex[e].images /\ back' = back
           /\ \E w \in Wallets :
                held' = [held EXCEPT ![w] = @ + (ex[e].images - Requested)]
  <2>1. PICK w \in Wallets : held' = [held EXCEPT ![w] = @ + (ex[e].images - Requested)]
    BY <1>7
  <2>2. held \in [Wallets -> Nat] BY DEF TypeInv, TypeOK
  <2>3. held'["sub"] + held'["bal"] = held["sub"] + held["bal"] + (ex[e].images - Requested)
    BY <1>3, <2>1, <2>2 DEF Wallets
  <2>4. /\ Refundable("sub")' = held'["sub"] - back["sub"]
        /\ Refundable("bal")' = held'["bal"] - back["bal"]
        /\ Outstanding' = Refundable("sub")' + Refundable("bal")'
    BY <1>7 DEF Outstanding, Refundable
  <2>5. /\ held'["sub"] \in Nat /\ held'["bal"] \in Nat
        /\ back["sub"] \in Nat /\ back["bal"] \in Nat
    BY <1>3, <1>7, <2>1, <2>2, HeldFields DEF Wallets
  <2>6. /\ Outstanding' <= ex[e].images
        /\ back["sub"] = 0 /\ back["bal"] = 0 => Outstanding' = ex[e].images
    BY <1>2, <1>3, <2>3, <2>4, <2>5
  <2> QED BY <1>3, <1>7, <2>6 DEF Bill
<1> QED BY <1>4, <1>5, <1>6, <1>7, SettleDoes DEF Less

LEMMA SettlingPaid ==
  ASSUME TypeInv, TypeInv', CourseInv, HeldInv, PaidInv, NEW e \in Execs, Alone(e),
         CancelledEarly => CancelledEarly', Settle(e) \/ CheckSettled(e)
  PROVE  PaidInv'
<1>1. Wrote(ex[e], gen) /\ Course(ex[e], row.job, row.due) BY DEF PaidInv, CourseInv
<1>2. CASE Settle(e)
  <2>1. /\ UNCHANGED <<row, gen>> /\ ex[e].pc = "settle" /\ ex'[e].pc = "checkSettled"
    BY <1>2, SettleDoes
  <2>2. gen # "succeeded" /\ row.job.status # "succeeded" /\ ex[e].images > 0
    BY <1>1, <2>1 DEF Wrote, Course, Closing, Out
  <2>3. ASSUME ~Clock, ~CancelledEarly'
        PROVE  PaidFits(ex'[e], row'.job, gen', back'["sub"], back'["bal"], Outstanding')
    <3>1. back["sub"] = 0 /\ back["bal"] = 0
      BY <2>1, <2>3 DEF PaidInv, PaidFits, Quoted, Goal, Charged
    <3>2. Outstanding' = Bill(ex'[e].images) BY <1>2, <2>2, <3>1, SettledPaid
    <3> QED BY <2>1, <3>2
      DEF PaidFits, Quoted, Goal, Uncharged, Charged, Queueing, Waiting
  <2>4. Wrote(ex'[e], gen') BY <2>1, <2>2 DEF Wrote
  <2>5. CostFits(ex'[e], row'.job, gen', Outstanding')
    BY <1>2, <2>2, SettledPaid DEF CostFits
  <2> QED BY <2>3, <2>4, <2>5 DEF PaidInv, Alone
<1>3. CASE CheckSettled(e)
  <2>1. UNCHANGED <<row, gen, held, back>> /\ ex[e].pc = "checkSettled"
    BY <1>3, CheckSettledDoes DEF Quietly
  <2>2. PICK s \in {"cancelled", "succeeded"} : \E b : Ends(ex[e], ex'[e], s, s, b)
    BY <1>3, CheckSettledDoes
  <2>3. /\ ex'[e].images = ex[e].images /\ ~Quoted(ex'[e]) /\ Delivering(ex[e])
        /\ Wrote(ex'[e], gen')
    BY <1>1, <2>1, <2>2
    DEF Ends, Carries, Quoted, Goal, Delivering, Wrote, Closing, Out, Uncharged, Charged,
        Queueing, Waiting
  <2>4. Less BY <2>1, SameOwed
  <2> QED BY <2>1, <2>3, <2>4, PaidStays
<1> QED BY <1>2, <1>3

LEMMA WritingPaid ==
  ASSUME TypeInv, TypeInv', CourseInv, PaidInv, NEW e \in Execs, Alone(e),
         CancelledEarly => CancelledEarly',
         Record(e) \/ SaveGet(e) \/ SavePut(e) \/ Exit(e)
  PROVE  PaidInv'
<1>1. /\ Wrote(ex[e], gen) /\ Course(ex[e], row.job, row.due)
      /\ UNCHANGED <<held, back>> /\ Less
  BY RecordDoes, SaveGetDoes, SavePutDoes, ExitDoes, SameOwed DEF PaidInv, CourseInv, Quietly
<1>2. CASE Record(e)
  <2>1. /\ row' = row /\ ex[e].pc = "record" /\ Saves(ex[e], ex'[e], "exit", ex[e].mem)
        /\ gen' \in {gen, ex[e].note}
    BY <1>2, RecordDoes
  <2>2. /\ ex'[e].images = ex[e].images /\ ~Quoted(ex'[e])
        /\ Delivering(ex'[e]) => Delivering(ex[e])
        /\ Wrote(ex'[e], gen')
        /\ gen' = "succeeded" => gen = "succeeded" \/ Delivering(ex[e])
    BY <1>1, <2>1
    DEF Saves, Carries, Quoted, Goal, Delivering, Wrote, Closing, Out, Uncharged, Charged,
        Queueing, Waiting
  <2> QED BY <1>1, <2>1, <2>2, PaidStays
<1>3. CASE Exit(e)
  <2>1. UNCHANGED <<row, gen>> /\ ex'[e].pc = "done" /\ ex'[e].images = ex[e].images
    BY <1>3, ExitDoes DEF Quietly
  <2>2. ~Quoted(ex'[e]) /\ ~Delivering(ex'[e]) /\ Wrote(ex'[e], gen')
    BY <2>1
    DEF Quoted, Goal, Delivering, Wrote, Closing, Out, Uncharged, Charged, Queueing, Waiting
  <2> QED BY <1>1, <2>1, <2>2, PaidStays
<1>4. CASE SaveGet(e) \/ SavePut(e)
  <2>1. /\ gen' = gen /\ ex[e].pc \in {"get", "put"} /\ ex'[e].pc \in {"put", ex[e].ret}
        /\ ex'[e].ret = ex[e].ret /\ ex'[e].images = ex[e].images
        /\ row'.job.status \in {row.job.status, ex[e].mem.status}
        /\ \/ ex'[e].mem.status = ex[e].mem.status
           \/ ex[e].mem.status \notin Final /\ ex'[e].pc = ex[e].ret
    BY <1>4, SaveGetDoes, SavePutDoes, SavedDoes DEF Quietly, Goes, Takes, Carries
  <2>2. ex[e].ret \in {"placeQueued", "checkReserved", "checkDispatch", "upstream", "call",
                       "exit"}
    BY ExecFields DEF ExecRet
  <2>3. /\ Quoted(ex'[e]) => Quoted(ex[e])
        /\ Delivering(ex'[e]) => Delivering(ex[e])
        /\ ex[e].mem.status = "succeeded" => Delivering(ex[e])
    BY <1>1, <2>1, <2>2
    DEF Course, Quoted, Goal, Delivering, Closing, Out, Uncharged, Charged, Queueing, Waiting
  <2>4. Wrote(ex'[e], gen')
    BY <1>1, <2>1, <2>2 DEF Wrote, Closing, Out
  <2> QED BY <1>1, <2>1, <2>3, <2>4, PaidStays
<1> QED BY <1>2, <1>3, <1>4

\* Nobody else touches the money, unless the job was cancelled early or
\* reconciled; and nobody else charges anything.
LEMMA OthersPaid ==
  ASSUME TypeInv, TypeInv', CourseInv, PaidInv, NEW e \in Execs, Alone(e),
         CancelledEarly => CancelledEarly',
         \/ \E c \in Cancels : CancelStep(c) \/ \E i \in Instances : CancelBefore(c, i)
         \/ \E i \in Instances : ReconcileList(i) \/ ReconcileStep(i)
         \/ Heartbeat \/ LeaseOver \/ RowAges
         \/ \E i \in Instances : Crash(i)
  PROVE  PaidInv'
<1>1. Wrote(ex[e], gen) BY DEF PaidInv
<1>2. ASSUME NEW c \in Cancels, CancelStep(c) \/ \E i \in Instances : CancelBefore(c, i)
      PROVE  PaidInv'
  <2>0. held' = held BY <1>2, RequestDoes
  <2>1. /\ ex'[e] \in {ex[e], [ex[e] EXCEPT !.live = FALSE]}
        /\ gen' = "succeeded" => gen = "succeeded"
        /\ row'.job.status = "succeeded" => row.job.status = "succeeded"
    <3>1. CASE CancelPut(c) \/ CancelSnapshot(c) \/ CancelFinal(c)
      <4>1. cx[c].item.status \in CancelStatus /\ cx[c].item \in Job
        BY <3>1, CancelOf, RequestSaves DEF CourseInv, RequestFits
      <4>2. row'.job.status \in CancelStatus BY <3>1, <4>1, RequestSaves, SavedDoes
      <4> QED BY <3>1, <4>2, RequestSaves DEF CancelStatus
    <3>2. CASE CancelMark(c) BY <3>2, RequestMarks DEF MarkGeneration
    <3>3. CASE CancelRefund(c) \/ CancelRefundSub(c) BY <3>3, RequestRefunds
    <3>4. CASE CancelGet(c) \/ \E i \in Instances : CancelBefore(c, i)
      BY <3>4, RequestReads
    <3>5. CASE CancelSignal(c) BY <3>5, RequestSignals
    <3> QED BY <1>2, <3>1, <3>2, <3>3, <3>4, <3>5 DEF CancelStep
  <2>2. /\ ex'[e].pc = ex[e].pc /\ ex'[e].ret = ex[e].ret /\ ex'[e].mem = ex[e].mem
        /\ ex'[e].images = ex[e].images /\ ex'[e].note = ex[e].note
    BY <2>1, ExecOf DEF GoodExec, Execution
  <2>3. /\ Quoted(ex'[e]) => Quoted(ex[e])
        /\ Delivering(ex'[e]) => Delivering(ex[e])
        /\ Wrote(ex'[e], gen')
    BY <1>1, <2>1, <2>2 DEF Quoted, Goal, Delivering, Closing, Out, Wrote
  <2>4. Less
    BY <1>2, <2>0, RequestSaves, RequestReads, RequestRefunds, RequestMarks, RequestSignals,
       SameOwed
    DEF CancelStep
  <2>5. ~CancelledEarly' => back' = back
    <3>1. CASE back' = back BY <3>1
    <3>2. CASE back' # back
      <4>1. cx[c].early /\ cx[c].item.status \in CancelStatus
        BY <1>2, <3>2, RequestSaves, RequestReads, RequestRefunds, RequestMarks,
           RequestSignals
        DEF CancelStep, CourseInv, RequestFits
      <4> QED BY <4>1 DEF CancelledEarly
    <3> QED BY <3>1, <3>2
  <2> QED BY <2>1, <2>2, <2>3, <2>4, <2>5, PaidStays
<1>3. ASSUME NEW i \in Instances, ReconcileList(i) \/ ReconcileStep(i)
      PROVE  PaidInv'
  <2>1. /\ ex' = ex
        /\ gen' = "succeeded" => gen = "succeeded"
        /\ row'.job.status = "succeeded" => row.job.status = "succeeded"
    <3>1. \/ row'.job = row.job \/ row'.job.status = StaleFinal(row.job)
      BY <1>3, ReconcileDoes
    <3>2. gen' = gen \/ MarkGeneration(rc[i].final) BY <1>3, ReconcileDoes
    <3>3. ex' = ex BY <1>3, ReconcileDoes
    <3>4. rc[i].final # "succeeded" BY DEF TypeInv, TypeOK, Reconciliation
    <3> QED BY <3>1, <3>2, <3>3, <3>4 DEF StaleFinal, MarkGeneration
  <2>2. Clock BY <1>3, ReconcileDoes DEF CourseInv, PassFits
  <2>3. Wrote(ex'[e], gen') BY <1>1, <2>1 DEF Wrote
  <2>4. Less BY <1>3, ReconcileDoes
  <2> QED BY <2>1, <2>2, <2>3, <2>4, PaidStays
<1>4. CASE LeaseOver \/ RowAges
  <2>1. /\ Clock /\ Rests(ex[e], ex'[e]) /\ gen' = gen
        /\ row'.job.status = row.job.status /\ UNCHANGED <<held, back>>
    BY <1>4, TimeDoes
  <2>2. /\ Wrote(ex'[e], gen') /\ ex'[e].images = ex[e].images
        /\ Quoted(ex'[e]) => Quoted(ex[e])
        /\ Delivering(ex'[e]) => Delivering(ex[e])
    BY <1>1, <2>1 DEF Wrote, Rests, Carries, Quoted, Goal, Delivering, Closing, Out
  <2>3. Less BY <2>1, SameOwed
  <2> QED BY <2>1, <2>2, <2>3, PaidStays
<1>5. CASE Heartbeat BY <1>1, <1>5, HeartbeatDoes, SameOwed, PaidStays
<1>6. CASE \E i \in Instances : Crash(i)
  <2>1. /\ UNCHANGED <<row, gen, held, back>> /\ ex'[e].images = ex[e].images
        /\ ex'[e] = ex[e] \/ ex'[e].pc = "dead"
        /\ Less
    BY <1>6, CrashDoes, SameOwed
  <2>2. /\ Quoted(ex'[e]) => Quoted(ex[e])
        /\ Delivering(ex'[e]) => Delivering(ex[e])
        /\ Wrote(ex'[e], gen')
    BY <1>1, <2>1
    DEF Quoted, Goal, Delivering, Closing, Out, Wrote, Uncharged, Charged, Queueing, Waiting
  <2> QED BY <2>1, <2>2, PaidStays
<1> QED BY <1>2, <1>3, <1>4, <1>5, <1>6

LEMMA InitPaid == ASSUME Init PROVE PaidInv
BY DEF Init, Idle, NoJob, Wallets, PaidInv, PaidFits, CostFits, Wrote, Delivering, Closing

LEMMA NextPaid ==
  ASSUME NEW e \in Execs, Alone(e), TypeInv, TypeInv', CourseInv, HeldInv, PaidInv,
         [Next]_vars
  PROVE  PaidInv'
<1>0. CancelledEarly => CancelledEarly' BY EarlyStays
<1>1. CASE Claims BY <1>0, <1>1, QueueingPaid DEF Claims, Alone
<1>2. ASSUME ExecStep(e) PROVE PaidInv'
  BY <1>0, <1>2, QueueingPaid, ReservingPaid, SendingPaid, RefundingPaid, SettlingPaid,
     WritingPaid
  DEF ExecStep
<1>3. CASE UNCHANGED vars
  BY <1>3 DEF vars, PaidInv, PaidFits, CostFits, Wrote, CancelledEarly, Outstanding, Refundable
<1>4. CASE CancelArrives BY <1>0, <1>4, OthersPaid DEF CancelArrives
<1> QED BY <1>0, <1>1, <1>2, <1>3, <1>4, OthersPaid DEF Next, Rest, Alone

LEMMA PaymentHolds ==
  ASSUME NEW e, Execs = {e}
  PROVE  Spec => [](TypeInv /\ CourseInv /\ HeldInv /\ PaidInv)
<1>0. e \in Execs /\ Alone(e) BY DEF Alone
<1>1. Init => TypeInv /\ CourseInv /\ HeldInv /\ PaidInv
  BY <1>0, InitTypes, InitCourse, InitHeld, InitPaid
<1>2. TypeInv /\ CourseInv /\ HeldInv /\ PaidInv /\ [Next]_vars
        => (TypeInv /\ CourseInv /\ HeldInv /\ PaidInv)'
  BY <1>0, NextTypes, NextCourse, NextHeld, NextPaid
<1> QED BY <1>1, <1>2, PTL DEF Spec

\* Of a job that is executed once, leases or not and whoever cancels, crashes
\* or reconciles it: what was delivered has never cost more than its bill
\* (executeProviderImageGenerate, its refunds and its extra reserve).
THEOREM OneDeliveryCostsItsBill ==
  ASSUME NEW e, Execs = {e}
  PROVE  Spec => []DeliveryCostsItsBill
<1>1. PaidInv => DeliveryCostsItsBill BY DEF PaidInv, CostFits, DeliveryCostsItsBill
<1> QED BY <1>1, PaymentHolds, PTL

\* ... and all three promises about what was not delivered, where failures
\* are refunded and the execution has not saved a lease that was over:
\* nothing for a failure, nothing for an early cancellation, nothing beyond
\* the bill.
THEOREM OneEndingIsFree ==
  ASSUME NEW e, Execs = {e}, RefundOnFailure
  PROVE  Spec => [](~Outlived => EndingsAreFree)
BY OneFailureIsFree, OneEarlyCancelIsFree, OneDeliveryCostsItsBill, PTL DEF EndingsAreFree

\* Of a job that is executed once, by the time no lease can run out: pictures
\* that were delivered are paid for, each one once, whatever else was given
\* back or reserved on the way and whoever cancels or crashes
\* (executeProviderImageGenerate, its refunds and its extra reserve).
THEOREM OneDeliveryIsPaid ==
  ASSUME NEW e, Execs = {e}, ~Clock
  PROVE  Spec => []PicturesArePaid
<1>1. PaidInv => PicturesArePaid BY DEF PaidInv, PaidFits, PicturesArePaid
<1> QED BY <1>1, PaymentHolds, PTL

-----------------------------------------------------------------------------
(* What the conversation shows.  A cancel request that is over has seen to *)
(* the generation; whoever writes it as unfinished again has charged       *)
(* nothing.                                                                *)

Asked == \E c \in Cancels : CancelOpen(c)
Witnessed == crashes = 0 \/ NobodyCancelled
Calm == Witnessed /\ ~Asked
Charge == held["sub"] + held["bal"]

\* It has not been answered, or not been claimed.
Unanswered == {"upstream", "call", "after", "idle"}

ShownFits(v, job, due, g, r, h, calm, nobody) ==
  /\ due # "no" /\ ~Late(v) => \A i \in Instances : r[i].pc = "update" => g \in Final
  /\ "failed" \in {job.status, v.mem.status} /\ Goal(v) \in Unanswered /\ ~Late(v) =>
       g \in Final
  /\ calm /\ g \notin Final =>
       /\ ~v.live => h = 0
       /\ Closing(v) /\ v.pc # "record" => v.mem.status = "failed" /\ h = 0
       /\ v.pc = "record" /\ v.note = "skip" => v.mem.status = "failed" /\ h = 0
       /\ v.pc \in {"exit", "done"} => job.status = "failed" /\ (h = 0 \/ Late(v))
       /\ v.pc = "idle" => job.status \notin Final
  /\ nobody /\ job.status \in Final =>
       g \in Final \/ (job.status = "failed" /\ (h = 0 \/ Late(v)))
  /\ v.pc = "record" => /\ v.note \in Final \cup {"skip"}
                        /\ v.bound => v.mem.status \in {"failed", "succeeded"}

\* Nobody has cancelled.
Untouched(v, job, r) ==
  /\ v.live /\ v.pc # "refundCancel" /\ \A i \in Instances : r[i].final = "failed"
  /\ v.mem.status \notin CancelStatus /\ job.status \notin CancelStatus

\* Neither a cancellation nor a crash: the two agree.
AgreeFits(v, job, g) ==
  /\ v.pc = "record" =>
       v.note = v.mem.status
         \/ (v.note = "skip" /\ v.mem.status = "failed" /\ g \in {"queued", "failed"})
  /\ Goal(v) \in {"idle"} \cup Queueing => g \in {"queued", "failed"}
  /\ ~Closing(v) /\ ~Out(v) => g \in {"queued", "running", "failed"}
  /\ Closing(v) /\ v.pc # "record" =>
       g = v.mem.status \/ (v.mem.status = "failed" /\ g = "queued")
  /\ v.pc \in {"exit", "done"} =>
       /\ job.status \in Final
       /\ g = job.status \/ (job.status = "failed" /\ (g = "queued" \/ Late(v)))

ShownInv ==
  \A e \in Execs :
    /\ ShownFits(ex[e], row.job, row.due, gen, rc, Charge, Calm, NobodyCancelled)
    /\ NobodyCancelled => Untouched(ex[e], row.job, rc)
    /\ NobodyCancelled /\ crashes = 0 => AgreeFits(ex[e], row.job, gen)

LEMMA SameRequests ==
  ASSUME UNCHANGED <<cx, crashes>>
  PROVE  /\ NobodyCancelled' = NobodyCancelled /\ Calm' = Calm
         /\ Witnessed' = Witnessed /\ Asked' = Asked
BY DEF NobodyCancelled, Calm, Witnessed, Asked, CancelOpen

\* One step of the execution, from what held of it.
LEMMA ShownStep ==
  ASSUME ShownInv, NEW e \in Execs, Alone(e), UNCHANGED <<cx, rc, crashes>>,
         NEW calm, calm = Calm, NEW nobody, nobody = NobodyCancelled,
         ShownFits(ex'[e], row'.job, row'.due, gen', rc, Charge', calm, nobody),
         nobody => Untouched(ex'[e], row'.job, rc),
         nobody /\ crashes = 0 => AgreeFits(ex'[e], row'.job, gen')
  PROVE  ShownInv'
BY SameRequests DEF ShownInv, Alone

LEMMA ShownOf ==
  ASSUME TypeInv, CourseInv, HeldInv, ShownInv, NEW e \in Execs
  PROVE  /\ ShownFits(ex[e], row.job, row.due, gen, rc, Charge, Calm, NobodyCancelled)
         /\ NobodyCancelled => Untouched(ex[e], row.job, rc)
         /\ NobodyCancelled /\ crashes = 0 => AgreeFits(ex[e], row.job, gen)
         /\ NobodyCancelled => Calm
         /\ Course(ex[e], row.job, row.due)
         /\ Goal(ex[e]) \in Uncharged => Charge = 0
         /\ Goal(ex[e]) \in Charged \/ Delivering(ex[e]) => Charge # 0
         /\ gen \in GenStatus
<1>1. NobodyCancelled => Calm BY DEF NobodyCancelled, Calm, Witnessed, Asked, CancelOpen
<1>2. HeldFits(ex[e], row.job, held["sub"], held["bal"]) BY DEF HeldInv
<1>3. /\ Goal(ex[e]) \in Uncharged => Charge = 0
      /\ Goal(ex[e]) \in Charged \/ Delivering(ex[e]) => Charge # 0
  BY <1>2, HeldFields DEF HeldFits, Charge
<1> QED BY <1>1, <1>3 DEF ShownInv, CourseInv, TypeInv, TypeOK

\* The end of a path.
LEMMA EndingShown ==
  ASSUME TypeInv, CourseInv, HeldInv, ShownInv, NEW e \in Execs, Alone(e),
         UNCHANGED <<row, gen, held, cx, rc, crashes>>, ~Closing(ex[e]), ~Out(ex[e]),
         NEW s \in Final, NEW n \in {"failed", "cancelled", "succeeded", "skip"},
         NEW b \in BOOLEAN, Ends(ex[e], ex'[e], s, n, b),
         n = s \/ (n = "skip" /\ s = "failed" /\ Goal(ex[e]) \in Queueing),
         b => s \in {"failed", "succeeded"}, NobodyCancelled => s # "cancelled"
  PROVE  ShownInv'
<1> DEFINE v == ex[e]
           w == ex'[e]
           calm == Calm
           nobody == NobodyCancelled
<1>1. Charge' = Charge BY DEF Charge
<1>2. /\ w.live = v.live /\ Late(w) = Late(v) /\ w.pc = "record" /\ w.mem.status = s /\ w.note = n /\ w.bound = b
      /\ Goal(w) = "record" /\ Closing(w)
  BY DEF Ends, Carries, Goal, Closing, Late
<1>3. n = "skip" => Charge = 0 BY ShownOf DEF Uncharged, Final
<1>4. ShownFits(w, row.job, row.due, gen, rc, Charge, calm, nobody)
  BY <1>2, <1>3, ShownOf DEF ShownFits, Unanswered, Final
<1>5. nobody => Untouched(w, row.job, rc)
  BY <1>2, ShownOf DEF Untouched, Final, CancelStatus
<1>6. nobody /\ crashes = 0 => AgreeFits(w, row.job, gen)
  BY <1>2, ShownOf DEF AgreeFits, Final, Queueing, Out
<1> QED BY <1>1, <1>4, <1>5, <1>6, ShownStep

\* On its way it neither ends nor writes the row.
LEMMA MovingShown ==
  ASSUME TypeInv, CourseInv, HeldInv, ShownInv, NEW e \in Execs, Alone(e),
         UNCHANGED <<row, gen, cx, rc, crashes>>, ~Closing(ex[e]), ~Out(ex[e]),
         ~Closing(ex'[e]), ~Out(ex'[e]), ex'[e].live = ex[e].live,
         ex[e].failover => ex'[e].failover,
         ex'[e].mem.status \in {ex[e].mem.status, row.job.status, "queued"},
         Goal(ex'[e]) # "idle", NobodyCancelled => ex'[e].pc # "refundCancel",
         Goal(ex'[e]) \in Queueing => Goal(ex[e]) \in Queueing,
         Goal(ex'[e]) \in Unanswered =>
           \/ Goal(ex[e]) \in Unanswered
           \/ ex[e].mem.status # "failed" /\ row.job.status # "failed",
         \/ Charge' = Charge \/ Charge # 0
         \/ (ex[e].live /\ (row.job.status \in Final /\ NobodyCancelled => gen \in Final))
  PROVE  ShownInv'
<1> DEFINE v == ex[e]
           w == ex'[e]
           calm == Calm
           nobody == NobodyCancelled
<1>1. ShownFits(w, row.job, row.due, gen, rc, Charge', calm, nobody)
  <2>1. w.pc # "idle" /\ (Late(v) => Late(w)) BY DEF Goal, Late
  <2> QED BY <2>1, ShownOf DEF ShownFits, Unanswered, Out, Closing
<1>2. nobody => Untouched(w, row.job, rc) BY ShownOf DEF Untouched, CancelStatus
<1>3. nobody /\ crashes = 0 => AgreeFits(w, row.job, gen)
  BY ShownOf DEF AgreeFits, Out, Closing, Goal
<1> QED BY <1>1, <1>2, <1>3, ShownStep

LEMMA StartShown ==
  ASSUME TypeInv, CourseInv, HeldInv, ShownInv, NEW e \in Execs, Alone(e),
         Start(e) \/ Precheck(e) \/ Admission(e) \/ CheckRunning(e)
  PROVE  ShownInv'
<1>1. /\ UNCHANGED <<row, gen, held, cx, rc, crashes>> /\ ~Closing(ex[e]) /\ ~Out(ex[e])
      /\ Charge' = Charge
      /\ Goal(ex[e]) \in Queueing \cup {"admission", "checkRunning"}
      /\ Start(e) => Goal(ex[e]) \in Queueing
  BY StartDoes, PrecheckDoes, AdmissionDoes, ChecksDo
  DEF Quietly, CheckRunning, At, Closing, Out, Charge, Goal, Queueing
<1>2. CASE \E s \in {"failed", "cancelled"} : \E n, b : Ends(ex[e], ex'[e], s, n, b)
  <2>1. PICK s \in {"failed", "cancelled"}, n \in {"failed", "cancelled", "skip"},
             b \in BOOLEAN :
               /\ Ends(ex[e], ex'[e], s, n, b)
               /\ n = s \/ (n = "skip" /\ s = "failed" /\ Goal(ex[e]) \in Queueing)
               /\ b => s = "failed"
               /\ s = "cancelled" => ~ex[e].live \/ row.job.status \in CancelStatus
    <3>1. CASE Start(e)
      <4>1. ex'[e].pc = "record" BY <1>2 DEF Ends
      <4>2. \E n \in {"skip", "failed"} : Ends(ex[e], ex'[e], "failed", n, FALSE)
        BY <3>1, <4>1, StartDoes DEF Goes
      <4> QED BY <1>1, <3>1, <4>2
    <3>2. CASE Precheck(e)
      <4>1. ex'[e].pc = "record" BY <1>2 DEF Ends
      <4> QED BY <3>2, <4>1, PrecheckDoes DEF Saves
    <3>3. CASE Admission(e)
      <4>1. ex'[e].pc = "record" BY <1>2 DEF Ends
      <4> QED BY <3>3, <4>1, AdmissionDoes DEF Goes
    <3>4. CASE CheckRunning(e)
      <4>1. ex'[e].pc = "record" BY <1>2 DEF Ends
      <4> QED BY <3>4, <4>1, ChecksDo DEF CheckRunning, At, Goes
    <3> QED BY <3>1, <3>2, <3>3, <3>4
  <2>2. NobodyCancelled => s # "cancelled" BY <2>1, ShownOf DEF Untouched
  <2> QED BY <1>1, <2>1, <2>2, EndingShown DEF Final
<1>3. CASE ~\E s \in {"failed", "cancelled"} : \E n, b : Ends(ex[e], ex'[e], s, n, b)
  <2>1. /\ ex'[e].live = ex[e].live /\ ex'[e].failover = ex[e].failover
        /\ ex'[e].mem.status \in {ex[e].mem.status, row.job.status, "queued"}
        /\ \/ ex'[e].pc \in {"precheck", "saveRunning", "placeRunning"}
              /\ (ex'[e].pc = "precheck" => ex[e].pc = "start")
           \/ ex[e].pc = "precheck" /\ ex'[e].pc = "get" /\ ex'[e].ret = "placeQueued"
    BY <1>3, StartDoes, PrecheckDoes, AdmissionDoes, ChecksDo
    DEF CheckRunning, At, Goes, Saves, Carries
  <2>2. /\ ~Closing(ex'[e]) /\ ~Out(ex'[e]) /\ Goal(ex'[e]) # "idle"
        /\ ex'[e].pc # "refundCancel"
        /\ Goal(ex'[e]) \in Queueing => Goal(ex[e]) \in Queueing
        /\ Goal(ex'[e]) \notin Unanswered
    BY <2>1 DEF Closing, Out, Goal, Queueing, Unanswered
  <2> QED BY <1>1, <2>1, <2>2, MovingShown
<1> QED BY <1>2, <1>3

LEMMA PlacingShown ==
  ASSUME TypeInv, CourseInv, HeldInv, ShownInv, NEW e \in Execs, Alone(e),
         PlaceQueued(e) \/ PlaceRunning(e)
  PROVE  ShownInv'
<1> DEFINE v == ex[e]
           w == ex'[e]
           calm == Calm
           nobody == NobodyCancelled
<1>1. /\ UNCHANGED <<row, cx, rc, crashes>> /\ Charge' = Charge
      /\ w.live = v.live /\ w.mem = v.mem /\ Late(w) = Late(v)
      /\ \/ v.pc = "placeQueued" /\ w.pc = "admission" /\ gen' = "queued"
         \/ /\ v.pc = "placeRunning" /\ w.pc = "reserveSub"
            /\ gen' = gen \/ (gen' = "running" /\ v.live)
  BY PlaceDoes DEF PlaceQueued, PlaceRunning, At, Goes, Carries, Charge, Late
<1>2. /\ Goal(v) \in Uncharged \cap (Queueing \cup Charging) /\ ~Closing(v) /\ ~Out(v)
      /\ ~Closing(w) /\ ~Out(w)
      /\ Goal(w) \notin Unanswered \cup Queueing \cup {"idle"}
  BY <1>1 DEF Goal, Uncharged, Queueing, Charging, Closing, Out, Unanswered
<1>3. Charge = 0 /\ row.due = "no" /\ row.job.status \notin {"failed", "succeeded"}
  BY <1>2, ShownOf DEF Course, Busy
<1>4. nobody => row.job.status \notin Final BY <1>3, ShownOf DEF Untouched, Final, CancelStatus
<1>5. ShownFits(w, row.job, row.due, gen', rc, Charge, calm, nobody)
  BY <1>1, <1>2, <1>3, <1>4 DEF ShownFits
<1>6. nobody => Untouched(w, row.job, rc) BY <1>1, ShownOf DEF Untouched
<1>7. nobody /\ crashes = 0 => AgreeFits(w, row.job, gen')
  BY <1>1, <1>2, ShownOf DEF AgreeFits, Out
<1> QED BY <1>1, <1>5, <1>6, <1>7, ShownStep

LEMMA ReservingShown ==
  ASSUME TypeInv, CourseInv, HeldInv, ShownInv, NEW e \in Execs, Alone(e),
         ReserveSub(e) \/ ReserveBal(e) \/ ReserveReply(e)
  PROVE  ShownInv'
<1>1. /\ UNCHANGED <<row, gen, cx, rc, crashes>>
      /\ ex[e].pc \in {"reserveSub", "reserveBal", "reserveReply"}
      /\ Charge' = Charge \/ ex[e].live
  BY ReserveSubDoes, ReserveBalDoes, ReserveReplyDoes DEF Quietly, Charge
<1>2. /\ ~Closing(ex[e]) /\ ~Out(ex[e]) /\ Goal(ex[e]) \in Charging
  BY <1>1 DEF Closing, Out, Goal, Charging
<1>3. row.job.status \notin {"failed", "succeeded"} BY <1>2, ShownOf DEF Course, Busy
<1>4. NobodyCancelled => row.job.status \notin Final
  BY <1>3, ShownOf DEF Untouched, Final, CancelStatus
<1>5. CASE held' = held /\ Ends(ex[e], ex'[e], "failed", "failed", TRUE)
  BY <1>1, <1>2, <1>5, EndingShown DEF Final
<1>6. CASE ~(held' = held /\ Ends(ex[e], ex'[e], "failed", "failed", TRUE))
  <2>1. /\ ex'[e].live = ex[e].live /\ ex'[e].mem = ex[e].mem
        /\ ex'[e].failover = ex[e].failover
        /\ \/ ex'[e].pc \in {"reserveBal", "reserveReply", "undoSub"}
           \/ ex'[e].pc = "get" /\ ex'[e].ret = "checkReserved"
    BY <1>6, ReserveSubDoes, ReserveBalDoes, ReserveReplyDoes DEF Goes, Saves, Carries
  <2>2. /\ ~Closing(ex'[e]) /\ ~Out(ex'[e]) /\ Goal(ex'[e]) # "idle"
        /\ ex'[e].pc # "refundCancel"
        /\ Goal(ex'[e]) \notin Queueing /\ Goal(ex'[e]) \notin Unanswered
    BY <2>1 DEF Closing, Out, Goal, Queueing, Unanswered
  <2> QED BY <1>1, <1>2, <1>4, <2>1, <2>2, MovingShown
<1> QED BY <1>5, <1>6

LEMMA SendingShown ==
  ASSUME TypeInv, CourseInv, HeldInv, ShownInv, NEW e \in Execs, Alone(e),
         CheckReserved(e) \/ CheckDispatch(e) \/ Upstream(e) \/ Call(e)
  PROVE  ShownInv'
<1>1. /\ UNCHANGED <<row, gen, cx, rc, crashes>> /\ Charge' = Charge
      /\ ex'[e].live = ex[e].live /\ (ex[e].failover => ex'[e].failover)
      /\ ex'[e].mem.status \in {ex[e].mem.status, row.job.status}
      /\ ex[e].pc \in {"checkReserved", "checkDispatch", "upstream", "call"}
  BY ChecksDo, UpstreamDoes, CallDoes
  DEF Quietly, CheckReserved, CheckDispatch, At, Goes, Saves, Takes, Carries, Charge
<1>2. /\ \/ ex'[e].pc = "refundCancel" /\ row.job.status \in CancelStatus
         \/ ex'[e].pc \in {"call", "after"} /\ ex[e].pc \in {"upstream", "call"}
         \/ ex'[e].pc = "upstream" /\ ex[e].pc = "checkDispatch"
         \/ ex'[e].pc = "get" /\ ex'[e].ret = "checkDispatch"
         \/ /\ ex'[e].pc = "get" /\ ex'[e].ret \in {"upstream", "call"}
            /\ ex[e].pc \in {"upstream", "call"}
  BY ChecksDo, UpstreamDoes, CallDoes
  DEF CheckReserved, CheckDispatch, At, Goes, Saves, Takes
<1>3. /\ ~Closing(ex[e]) /\ ~Out(ex[e]) /\ ~Closing(ex'[e]) /\ ~Out(ex'[e])
      /\ Goal(ex'[e]) # "idle" /\ Goal(ex'[e]) \notin Queueing
      /\ ex[e].pc # "checkDispatch" /\ Goal(ex'[e]) \in Unanswered
           => Goal(ex[e]) \in Unanswered
  BY <1>1, <1>2 DEF Closing, Out, Goal, Queueing, Unanswered
<1>4. NobodyCancelled => ex'[e].pc # "refundCancel" BY <1>2, ShownOf DEF Untouched
<1>5. ex[e].pc = "checkDispatch" => row.job.status # "failed" /\ ex[e].mem.status # "failed"
  <2>1. CASE ex[e].pc = "checkDispatch"
    <3>1. /\ Goal(ex[e]) \in Charging /\ Busy(ex[e]) /\ ~Closing(ex[e])
      BY <2>1 DEF Goal, Charging, Busy, Closing
    <3>2. row.job.status # "failed" /\ ~Late(ex[e])
      BY <3>1, ShownOf DEF Course, Late
    <3> QED BY <2>1, <3>1, <3>2, ShownOf DEF Course
  <2> QED BY <2>1
<1> QED BY <1>1, <1>3, <1>4, <1>5, MovingShown

LEMMA AfterShown ==
  ASSUME TypeInv, CourseInv, HeldInv, ShownInv, NEW e \in Execs, Alone(e), After(e)
  PROVE  ShownInv'
<1>1. /\ UNCHANGED <<row, gen, held, cx, rc, crashes>> /\ ex[e].pc = "after"
      /\ Charge' = Charge /\ ~Closing(ex[e]) /\ ~Out(ex[e])
      /\ Goal(ex[e]) \in Unanswered \ Queueing
  BY AfterDoes DEF Quietly, Charge, Closing, Out, Goal, Unanswered, Queueing
<1>2. CASE /\ row.job.status \in CancelStatus \/ (ex[e].images = 0 /\ ~ex[e].live)
           /\ Ends(ex[e], ex'[e], "cancelled", "cancelled", FALSE)
  <2>1. ~NobodyCancelled BY <1>2, ShownOf DEF Untouched
  <2> QED BY <1>1, <1>2, <2>1, EndingShown DEF Final
<1>3. CASE row.job.status \in Final \ CancelStatus /\ Takes(ex[e], ex'[e], "exit", row.job)
  <2> DEFINE v == ex[e]
             w == ex'[e]
             calm == Calm
             nobody == NobodyCancelled
  <2>1. row.job.status = "failed"
    BY <1>1, <1>3, ShownOf DEF Course, Final, CancelStatus
  <2>2. gen \in Final \/ Late(v) BY <1>1, <2>1, ShownOf DEF ShownFits
  <2>3. w.live = v.live /\ Late(w) = Late(v) /\ w.pc = "exit" /\ w.mem.status = "failed" /\ Goal(w) = "exit"
    BY <1>3, <2>1 DEF Takes, Carries, Goal, Late
  <2>4. ShownFits(w, row.job, row.due, gen, rc, Charge, calm, nobody)
    BY <2>1, <2>2, <2>3, ShownOf DEF ShownFits, Closing, Unanswered
  <2>5. nobody => Untouched(w, row.job, rc)
    BY <2>3, ShownOf DEF Untouched, CancelStatus
  <2>6. nobody /\ crashes = 0 => AgreeFits(w, row.job, gen)
    BY <1>1, <2>1, <2>2, <2>3, ShownOf DEF AgreeFits, Closing, Out, Queueing, Final
  <2> QED BY <1>1, <2>4, <2>5, <2>6, ShownStep
<1>4. CASE \/ /\ row.job.status \in CancelStatus \/ (ex[e].images = 0 /\ ~ex[e].live)
              /\ \/ Takes(ex[e], ex'[e], "refundCancel", row.job)
                 \/ Takes(ex[e], ex'[e], "refundCancel", ex[e].mem)
           \/ Goes(ex[e], ex'[e], "refundFailed")
           \/ Goes(ex[e], ex'[e], "settle")
  <2>1. /\ ex'[e].live = ex[e].live /\ ex'[e].failover = ex[e].failover
        /\ ex'[e].mem.status \in {ex[e].mem.status, row.job.status}
        /\ ex'[e].pc \in {"refundCancel", "refundFailed", "settle"}
        /\ ex'[e].pc = "refundCancel" =>
             row.job.status \in CancelStatus \/ ~ex[e].live
    BY <1>4 DEF Takes, Goes, Carries
  <2>2. /\ ~Closing(ex'[e]) /\ ~Out(ex'[e]) /\ Goal(ex'[e]) # "idle"
        /\ Goal(ex'[e]) \notin Queueing \cup Unanswered
    BY <2>1 DEF Closing, Out, Goal, Queueing, Unanswered
  <2>3. NobodyCancelled => ex'[e].pc # "refundCancel" BY <2>1, ShownOf DEF Untouched
  <2> QED BY <1>1, <2>1, <2>2, <2>3, MovingShown
<1> QED BY <1>2, <1>3, <1>4, AfterDoes

LEMMA SettlingShown ==
  ASSUME TypeInv, CourseInv, HeldInv, ShownInv, NEW e \in Execs, Alone(e),
         Settle(e) \/ CheckSettled(e) \/ UndoSub(e) \/ RefundCancel(e) \/ RefundFailed(e)
  PROVE  ShownInv'
<1>1. CASE Settle(e)
  <2>1. /\ UNCHANGED <<row, gen, cx, rc, crashes>> /\ ex[e].pc = "settle"
        /\ ex'[e].pc = "checkSettled" /\ ex'[e].live = ex[e].live
        /\ ex'[e].mem = ex[e].mem /\ ex'[e].failover = ex[e].failover
    BY <1>1, SettleDoes
  <2>2. /\ ~Closing(ex[e]) /\ ~Out(ex[e]) /\ ~Closing(ex'[e]) /\ ~Out(ex'[e])
        /\ Goal(ex'[e]) # "idle" /\ Goal(ex'[e]) \notin Queueing \cup Unanswered
        /\ Goal(ex[e]) \in Charged
    BY <2>1 DEF Closing, Out, Goal, Queueing, Unanswered, Charged
  <2>3. Charge # 0 BY <2>2, ShownOf
  <2> QED BY <2>1, <2>2, <2>3, MovingShown
<1>2. CASE CheckSettled(e)
  <2>1. /\ UNCHANGED <<row, gen, held, cx, rc, crashes>> /\ ~Closing(ex[e]) /\ ~Out(ex[e])
    BY <1>2, CheckSettledDoes DEF Quietly, Closing, Out
  <2>2. row.job.status \in CancelStatus => ~NobodyCancelled BY ShownOf DEF Untouched
  <2> QED BY <1>2, <2>1, <2>2, CheckSettledDoes, EndingShown DEF Final
<1>3. CASE UndoSub(e) \/ RefundCancel(e) \/ RefundFailed(e)
  <2>1. /\ UNCHANGED <<row, gen, held, cx, rc, crashes>> /\ ~Closing(ex[e]) /\ ~Out(ex[e])
        /\ \/ /\ ex[e].pc \in {"undoSub", "refundFailed"}
              /\ Ends(ex[e], ex'[e], "failed", "failed", TRUE)
           \/ /\ ex[e].pc = "refundCancel"
              /\ Ends(ex[e], ex'[e], "cancelled", "cancelled", FALSE)
    BY <1>3, RefundsDo DEF Less, Closing, Out
  <2>2. NobodyCancelled => ex[e].pc # "refundCancel" BY ShownOf DEF Untouched
  <2> QED BY <2>1, <2>2, EndingShown DEF Final
<1> QED BY <1>1, <1>2, <1>3

LEMMA RecordShown ==
  ASSUME TypeInv, CourseInv, HeldInv, ShownInv, NEW e \in Execs, Alone(e), Record(e)
  PROVE  ShownInv'
<1> DEFINE v == ex[e]
           w == ex'[e]
           calm == Calm
           nobody == NobodyCancelled
<1>1. /\ UNCHANGED <<row, cx, rc, crashes>> /\ Charge' = Charge /\ v.pc = "record"
      /\ w.live = v.live /\ Late(w) = Late(v) /\ w.mem = v.mem /\ w.pc = "get" /\ w.ret = "exit"
      /\ gen' = IF v.note = "skip" \/ (v.bound /\ ~v.live) THEN gen ELSE v.note
  BY RecordDoes DEF Saves, Carries, Charge, Late
<1>2. Closing(v) /\ Closing(w) /\ Goal(w) = "exit" BY <1>1 DEF Closing, Goal
<1>3. gen' \in Final \/ gen' = gen BY <1>1, ShownOf DEF ShownFits
<1>4. calm /\ gen' \notin Final => v.mem.status = "failed" /\ Charge = 0
  <2> SUFFICES ASSUME calm, gen' \notin Final
               PROVE  v.mem.status = "failed" /\ Charge = 0
    OBVIOUS
  <2>1. gen \notin Final BY <1>3
  <2>2. CASE v.note = "skip" BY <1>1, <2>1, <2>2, ShownOf DEF ShownFits
  <2>3. CASE v.note # "skip"
    <3>1. v.bound /\ ~v.live BY <1>1, <2>3, ShownOf DEF ShownFits
    <3>2. Charge = 0 /\ v.mem.status \in {"failed", "succeeded"}
      BY <1>1, <2>1, <3>1, ShownOf DEF ShownFits
    <3> QED BY <1>2, <3>2, ShownOf DEF Delivering
  <2> QED BY <2>2, <2>3
<1>5. ShownFits(w, row.job, row.due, gen', rc, Charge, calm, nobody)
  BY <1>1, <1>2, <1>3, <1>4, ShownOf DEF ShownFits, Unanswered
<1>6. nobody => Untouched(w, row.job, rc) BY <1>1, ShownOf DEF Untouched
<1>7. nobody /\ crashes = 0 => AgreeFits(w, row.job, gen')
  <2> SUFFICES ASSUME nobody, crashes = 0 PROVE AgreeFits(w, row.job, gen')
    OBVIOUS
  <2>1. AgreeFits(v, row.job, gen) /\ v.live BY ShownOf DEF Untouched
  <2>2. gen' = IF v.note = "skip" THEN gen ELSE v.note BY <1>1, <2>1
  <2>3. gen' = v.mem.status \/ (v.mem.status = "failed" /\ gen' = "queued")
    <3>1. v.pc = "record" BY <1>1
    <3>2. \/ v.note = v.mem.status
          \/ v.note = "skip" /\ v.mem.status = "failed" /\ gen \in {"queued", "failed"}
      BY <2>1, <3>1 DEF AgreeFits
    <3>3. CASE v.note = v.mem.status
      <4>1. v.note # "skip" BY <1>1, <3>3, ExecFields DEF Status
      <4> QED BY <2>2, <3>3, <4>1
    <3>4. CASE v.note # v.mem.status BY <2>2, <3>2, <3>4
    <3> QED BY <3>3, <3>4
  <2> QED BY <1>1, <1>2, <2>3 DEF AgreeFits, Queueing
<1> QED BY <1>1, <1>5, <1>6, <1>7, ShownStep

LEMMA SavingShown ==
  ASSUME TypeInv, TypeInv', CourseInv, HeldInv, ShownInv, NEW e \in Execs, Alone(e),
         SaveGet(e) \/ SavePut(e)
  PROVE  ShownInv'
<1> DEFINE v == ex[e]
           w == ex'[e]
           calm == Calm
           nobody == NobodyCancelled
<1>1. /\ UNCHANGED <<gen, cx, rc, crashes>> /\ Charge' = Charge /\ v.pc \in {"get", "put"}
      /\ w.ret = v.ret /\ w.live = v.live /\ w.failover = v.failover /\ Late(w) = Late(v)
      /\ v.ret \in ExecRet /\ v.mem.status \in Status
  BY SaveGetDoes, SavePutDoes, ExecFields DEF Quietly, Goes, Takes, Carries, Charge, Late
<1>2. CASE v.ret # "exit"
  <2>1. /\ ~Closing(v) /\ ~Out(v) /\ ~Closing(w) /\ ~Out(w)
        /\ Goal(w) = Goal(v) /\ Goal(v) = v.ret /\ Goal(w) \notin {"idle", "refundCancel"}
        /\ w.pc \notin {"idle", "refundCancel"}
    BY <1>1, <1>2, SaveGetDoes, SavePutDoes
    DEF Goes, Takes, Closing, Out, Goal, ExecRet
  <2>2. CASE SaveGet(e)
    <3>1. row' = row /\ w.mem.status \in {v.mem.status, row.job.status}
      BY <2>2, SaveGetDoes DEF Quietly, Goes, Takes
    <3> QED BY <1>1, <2>1, <3>1, MovingShown
  <2>3. CASE SavePut(e)
    <3>1. /\ row'.job.status = v.mem.status /\ w.mem.status = v.mem.status
          /\ row'.due = "no" \/ Late(v)
      BY <2>3, SavePutDoes, SavedDoes, SavedFresh DEF Takes
    <3>2. nobody /\ row'.job.status \in Final => row'.job.status = "failed" /\ Late(v)
      <4>1. SUFFICES ASSUME nobody, v.mem.status \in Final
                     PROVE  v.mem.status = "failed" /\ Late(v)
        BY <3>1
      <4>2. v.mem.status = "failed"
        BY <2>1, <4>1, ShownOf DEF Untouched, Course, Final, CancelStatus
      <4> QED BY <2>1, <4>2, ShownOf DEF Course, Out
    <3>3. ShownFits(w, row'.job, row'.due, gen, rc, Charge, calm, nobody)
      BY <1>1, <2>1, <3>1, <3>2, ShownOf DEF ShownFits, Closing, Out
    <3>4. nobody => Untouched(w, row'.job, rc) BY <1>1, <2>1, <3>1, ShownOf DEF Untouched
    <3>5. nobody /\ crashes = 0 => AgreeFits(w, row'.job, gen)
      BY <2>1, ShownOf DEF AgreeFits, Closing, Out
    <3> QED BY <1>1, <3>3, <3>4, <3>5, ShownStep
  <2> QED BY <2>2, <2>3
<1>3. CASE v.ret = "exit"
  <2>1. Closing(v) /\ v.pc # "record" /\ v.mem.status \in Final
    BY <1>1, <1>3, ShownOf DEF Closing, Course
  <2>2. CASE SaveGet(e)
    <3>1. row' = row /\ w.mem = v.mem /\ w.pc = "put" /\ Closing(w) /\ Goal(w) = Goal(v)
      BY <1>1, <1>3, <2>1, <2>2, SaveGetDoes DEF Quietly, Goes, Goal, Closing
    <3>2. ShownFits(w, row.job, row.due, gen, rc, Charge, calm, nobody)
      BY <1>1, <2>1, <3>1, ShownOf DEF ShownFits
    <3>3. nobody => Untouched(w, row.job, rc) BY <1>1, <3>1, ShownOf DEF Untouched
    <3>4. nobody /\ crashes = 0 => AgreeFits(w, row.job, gen)
      BY <1>1, <2>1, <3>1, ShownOf DEF AgreeFits
    <3> QED BY <1>1, <3>1, <3>2, <3>3, <3>4, ShownStep
  <2>3. CASE SavePut(e)
    <3>1. /\ row'.job.status = v.mem.status /\ w.mem.status = v.mem.status
          /\ row'.due = "no" \/ Late(v)
          /\ w.pc = "exit" /\ Goal(w) = "exit" /\ ~Closing(w)
      BY <1>3, <2>3, SavePutDoes, SavedDoes, SavedFresh DEF Takes, Goal, Closing
    <3>2. ShownFits(w, row'.job, row'.due, gen, rc, Charge, calm, nobody)
      BY <1>1, <2>1, <3>1, ShownOf DEF ShownFits, Unanswered
    <3>3. nobody => Untouched(w, row'.job, rc) BY <1>1, <3>1, ShownOf DEF Untouched
    <3>4. nobody /\ crashes = 0 => AgreeFits(w, row'.job, gen)
      BY <1>1, <2>1, <3>1, ShownOf DEF AgreeFits, Out, Queueing
    <3> QED BY <1>1, <3>1, <3>2, <3>3, <3>4, ShownStep
  <2> QED BY <2>2, <2>3
<1> QED BY <1>2, <1>3

LEMMA WritingShown ==
  ASSUME TypeInv, TypeInv', CourseInv, HeldInv, ShownInv, NEW e \in Execs, Alone(e),
         Exit(e) \/ SaveRunning(e) \/ \E i \in Instances : Claim(e, i)
  PROVE  ShownInv'
<1> DEFINE v == ex[e]
           w == ex'[e]
           calm == Calm
           nobody == NobodyCancelled
<1>1. UNCHANGED <<gen, held, cx, rc, crashes>> /\ Charge' = Charge
  BY ExitDoes, SaveRunningDoes, ClaimDoes DEF Quietly, Charge
<1>2. CASE Exit(e)
  <2>1. /\ row' = row /\ v.pc = "exit" /\ w.pc = "done" /\ w.live = v.live
        /\ Late(w) = Late(v)
        /\ w.mem.status = "queued" /\ Goal(w) = "done" /\ ~Closing(w)
    BY <1>2, ExitDoes DEF Quietly, NoJob, Goal, Closing, Late
  <2>2. ShownFits(w, row.job, row.due, gen, rc, Charge, calm, nobody)
    BY <2>1, ShownOf DEF ShownFits, Unanswered
  <2>3. nobody => Untouched(w, row.job, rc)
    BY <2>1, ShownOf DEF Untouched, CancelStatus
  <2>4. nobody /\ crashes = 0 => AgreeFits(w, row.job, gen)
    BY <2>1, ShownOf DEF AgreeFits, Out, Queueing
  <2> QED BY <1>1, <2>1, <2>2, <2>3, <2>4, ShownStep
<1>3. CASE SaveRunning(e)
  <2>1. v.pc = "saveRunning" /\ ~Closing(v) /\ ~Out(v)
    BY <1>3, SaveRunningDoes DEF Closing, Out
  <2>2. CASE row' = row /\ Ends(v, w, "failed", "failed", TRUE)
    BY <1>1, <2>1, <2>2, EndingShown DEF Final
  <2>3. CASE ~(row' = row /\ Ends(v, w, "failed", "failed", TRUE))
    <3>1. /\ row'.job.status = "running" /\ row'.due = "no" /\ w.pc = "checkRunning"
          /\ w.live = v.live /\ w.mem.status = "running"
          /\ ~Closing(w) /\ ~Out(w) /\ Goal(w) = "checkRunning"
      BY <1>3, <2>3, SaveRunningDoes DEF Closing, Out, Goal
    <3>2. ShownFits(w, row'.job, row'.due, gen, rc, Charge, calm, nobody)
      BY <3>1, ShownOf DEF ShownFits, Final, Out
    <3>3. nobody => Untouched(w, row'.job, rc)
      BY <3>1, ShownOf DEF Untouched, CancelStatus
    <3>4. nobody /\ crashes = 0 => AgreeFits(w, row'.job, gen)
      BY <2>1, <3>1, ShownOf DEF AgreeFits, Out, Queueing
    <3> QED BY <1>1, <3>2, <3>3, <3>4, ShownStep
  <2> QED BY <2>2, <2>3
<1>4. CASE \E i \in Instances : Claim(e, i)
  <2>1. /\ row'.job.status = "queued" /\ row'.due = "no" /\ w.pc = "start"
        /\ v.pc = "idle" /\ w.live = v.live /\ w.mem.status = "queued"
        /\ ~Closing(w) /\ ~Out(w) /\ Goal(w) = "start" /\ Goal(v) = "idle"
        /\ ~Closing(v) /\ ~Out(v)
    BY <1>4, ClaimDoes DEF Takes, Carries, NoJob, Closing, Out, Goal
  <2>2. ShownFits(w, row'.job, row'.due, gen, rc, Charge, calm, nobody)
    BY <2>1, ShownOf DEF ShownFits, Final, Out
  <2>3. nobody => Untouched(w, row'.job, rc)
    BY <2>1, ShownOf DEF Untouched, CancelStatus
  <2>4. nobody /\ crashes = 0 => AgreeFits(w, row'.job, gen)
    BY <2>1, ShownOf DEF AgreeFits, Out
  <2> QED BY <1>1, <2>2, <2>3, <2>4, ShownStep
<1> QED BY <1>2, <1>3, <1>4

\* The steps of the others leave the execution where it is.
Stays(v, w) ==
  /\ w.pc = v.pc /\ w.ret = v.ret /\ w.live = v.live /\ w.mem.status = v.mem.status
  /\ w.note = v.note /\ w.bound = v.bound /\ w.failover = v.failover

LEMMA RequestShown ==
  ASSUME TypeInv, CourseInv, HeldInv, ShownInv, NEW e \in Execs, Alone(e), NEW c \in Cancels,
         CancelStep(c) \/ \E i \in Instances : CancelBefore(c, i)
  PROVE  ShownInv'
<1> DEFINE v == ex[e]
           w == ex'[e]
<1>1. UNCHANGED <<held, rc, crashes>> /\ Charge' = Charge BY RequestDoes DEF Charge
<1>2. /\ w \in {v, [v EXCEPT !.live = FALSE]}
      /\ row'.job.status = row.job.status \/ row'.job.status \in CancelStatus
      /\ row' = row \/ row'.due = "no"
      /\ \/ gen' = gen /\ cx'[c].pc \notin {"idle", "done"}
         \/ gen' \in Final /\ cx'[c].pc # "idle"
  <2>1. CASE CancelPut(c) \/ CancelSnapshot(c) \/ CancelFinal(c)
    <3>1. cx[c].item.status \in CancelStatus /\ cx[c].item \in Job
      BY <2>1, CancelOf, RequestSaves DEF CourseInv, RequestFits
    <3>2. row'.job.status \in CancelStatus /\ row'.due = "no"
      BY <2>1, <3>1, RequestSaves, SavedDoes DEF CancelStatus
    <3> QED BY <2>1, <3>2, RequestSaves
  <2>2. CASE CancelMark(c)
    <3>1. gen' \in Final BY <2>2, RequestMarks DEF MarkGeneration, TypeInv, TypeOK, GenStatus, Final
    <3> QED BY <2>2, <3>1, RequestMarks
  <2>3. CASE CancelRefund(c) \/ CancelRefundSub(c) BY <2>3, RequestRefunds
  <2>4. CASE CancelGet(c) \/ \E i \in Instances : CancelBefore(c, i)
    BY <2>4, RequestReads
  <2>5. CASE CancelSignal(c) BY <2>5, RequestSignals
  <2> QED BY <2>1, <2>2, <2>3, <2>4, <2>5 DEF CancelStep
<1>3. ~NobodyCancelled' BY <1>2 DEF NobodyCancelled
<1>4. Calm' => gen' \in Final BY <1>2 DEF Calm, Asked, CancelOpen
<1>5. /\ w.pc = v.pc /\ w.ret = v.ret /\ w.mem = v.mem /\ w.note = v.note /\ w.bound = v.bound
      /\ Goal(w) = Goal(v) /\ Late(w) = Late(v)
  BY <1>2, ExecOf DEF GoodExec, Execution, Goal, Late
<1>6. ShownFits(w, row'.job, row'.due, gen', rc, Charge, Calm', NobodyCancelled')
  BY <1>2, <1>3, <1>4, <1>5, ShownOf DEF ShownFits, CancelStatus
<1> QED BY <1>1, <1>3, <1>6 DEF ShownInv, Alone

LEMMA ReconcileShown ==
  ASSUME TypeInv, CourseInv, HeldInv, ShownInv, NEW e \in Execs, Alone(e), NEW i \in Instances,
         ReconcileList(i) \/ ReconcileStep(i)
  PROVE  ShownInv'
<1> DEFINE v == ex[e]
           calm == Calm
           nobody == NobodyCancelled
<1>1. /\ UNCHANGED <<held, ex, cx, crashes>> /\ Charge' = Charge
      /\ \A k \in Instances \ {i} : rc'[k] = rc[k]
  BY ReconcileDoes DEF Charge
<1>2. ASSUME ShownFits(v, row'.job, row'.due, gen', rc', Charge, calm, nobody),
             nobody => Untouched(v, row'.job, rc'),
             nobody /\ crashes = 0 => AgreeFits(v, row'.job, gen')
      PROVE  ShownInv'
  BY <1>1, <1>2, SameRequests DEF ShownInv, Alone
<1>3. CASE /\ row' = row /\ gen' = gen
           /\ rc'[i].pc \in {"idle", "refund", "refundSub", "mark"} \/ row.due = "no"
           /\ rc'[i].final \in {"failed", rc[i].final, StaleFinal(row.job)}
  <2>1. row.due # "no" /\ ~Late(v) =>
          \A k \in Instances : rc'[k].pc = "update" => gen \in Final
    BY <1>1, <1>3, ShownOf DEF ShownFits
  <2>2. ShownFits(v, row'.job, row'.due, gen', rc', Charge, calm, nobody)
    BY <1>3, <2>1, ShownOf DEF ShownFits
  <2>3. nobody => \A k \in Instances : rc'[k].final = "failed"
    BY <1>1, <1>3, ShownOf DEF Untouched, StaleFinal, CancelStatus
  <2>4. nobody => Untouched(v, row'.job, rc') BY <1>3, <2>3, ShownOf DEF Untouched
  <2>5. nobody /\ crashes = 0 => AgreeFits(v, row'.job, gen')
    BY <1>3, ShownOf
  <2> QED BY <1>2, <2>2, <2>4, <2>5
<1>4. CASE row' = row /\ MarkGeneration(rc[i].final) /\ rc'[i].final = rc[i].final
  <2>1. /\ gen' \in Final
        /\ gen \in Final => gen' = gen
        /\ gen \notin Final => gen' = rc[i].final
    BY <1>4 DEF MarkGeneration, TypeInv, TypeOK, GenStatus, Reconciliation, Final
  <2>2. ShownFits(v, row'.job, row'.due, gen', rc', Charge, calm, nobody)
    BY <1>4, <2>1, ShownOf DEF ShownFits
  <2>3. nobody => Untouched(v, row'.job, rc') BY <1>1, <1>4, ShownOf DEF Untouched
  <2>4. nobody /\ crashes = 0 => AgreeFits(v, row'.job, gen')
    BY <1>4, <2>1, ShownOf DEF AgreeFits, Untouched, Course, Final
  <2> QED BY <1>2, <2>2, <2>3, <2>4
<1>5. CASE /\ rc[i].pc = "update" /\ row.due # "no" /\ gen' = gen /\ rc'[i].final = "failed"
           /\ row'.job.status = StaleFinal(row.job) /\ row'.due = "no"
  <2>1. /\ ~Late(v) => gen \in Final
        /\ row.job.status \notin Final
        /\ v.pc = "idle" => ~Late(v)
    BY <1>5, ShownOf DEF ShownFits, CourseInv, RowFits, Course, Late, Goal
  <2>2. nobody => row'.job.status = "failed"
    BY <1>5, ShownOf DEF Untouched, StaleFinal, CancelStatus
  <2>3. ShownFits(v, row'.job, row'.due, gen', rc', Charge, calm, nobody)
    <3>1. /\ v.pc \in {"exit", "done"} /\ calm /\ gen \notin Final => FALSE
          /\ v.pc = "idle" => gen \in Final
          /\ row'.job.status = "failed" /\ Goal(v) \in Unanswered /\ ~Late(v) => gen \in Final
      BY <2>1, ShownOf DEF ShownFits, Final
    <3> QED BY <1>5, <2>1, <2>2, <3>1, ShownOf DEF ShownFits
  <2>4. nobody => Untouched(v, row'.job, rc')
    BY <1>1, <1>5, <2>2, ShownOf DEF Untouched, CancelStatus
  <2>5. nobody /\ crashes = 0 => AgreeFits(v, row'.job, gen')
    BY <1>5, <2>1, ShownOf DEF AgreeFits
  <2> QED BY <1>2, <2>3, <2>4, <2>5
<1> QED BY <1>3, <1>4, <1>5, ReconcileDoes

LEMMA TimeShown ==
  ASSUME TypeInv, CourseInv, HeldInv, ShownInv, NEW e \in Execs, Alone(e),
         Heartbeat \/ LeaseOver \/ RowAges
  PROVE  ShownInv'
<1> DEFINE v == ex[e]
           w == ex'[e]
           calm == Calm
           nobody == NobodyCancelled
<1>1. /\ UNCHANGED <<gen, held, cx, rc, crashes>> /\ Charge' = Charge
      /\ row'.job.status = row.job.status
      /\ row'.due = "no" \/ \A i \in Instances : rc[i].pc = "idle"
      /\ Stays(v, w) /\ Goal(w) = Goal(v)
  <2>1. CASE Heartbeat BY <2>1, HeartbeatDoes DEF Stays, Charge
  <2>2. CASE LeaseOver \/ RowAges
    BY <2>2, TimeDoes DEF Rests, Carries, Stays, Goal, Charge
  <2> QED BY <2>1, <2>2
<1>2. ShownFits(w, row'.job, row'.due, gen, rc, Charge, calm, nobody)
  BY <1>1, ShownOf DEF ShownFits, Stays, Closing, Late
<1>3. nobody => Untouched(w, row'.job, rc) BY <1>1, ShownOf DEF Untouched, Stays
<1>4. nobody /\ crashes = 0 => AgreeFits(w, row'.job, gen)
  BY <1>1, ShownOf DEF AgreeFits, Stays, Closing, Out, Late
<1> QED BY <1>1, <1>2, <1>3, <1>4, ShownStep

LEMMA CrashShown ==
  ASSUME TypeInv, CourseInv, HeldInv, ShownInv, NEW e \in Execs, Alone(e), NEW i \in Instances,
         Crash(i)
  PROVE  ShownInv'
<1> DEFINE v == ex[e]
           w == ex'[e]
<1>1. /\ UNCHANGED <<row, gen, held>> /\ Charge' = Charge /\ crashes' = crashes + 1
      /\ \A k \in Instances :
           rc'[k] = rc[k] \/ (rc'[k].pc = "idle" /\ rc'[k].final = "failed")
  BY CrashDoes DEF Charge, Reconciler
<1>2. crashes' # 0 BY <1>1 DEF TypeInv, TypeOK
<1>3. NobodyCancelled' = NobodyCancelled BY CrashDoes DEF NobodyCancelled
<1>4. Calm' => NobodyCancelled BY <1>2, <1>3 DEF Calm, Witnessed
<1>5. \/ w = v
      \/ /\ w.pc = "dead" /\ w.live = v.live /\ Late(w) = Late(v) /\ w.mem.status = "queued"
         /\ Goal(w) = "dead" /\ ~Closing(w)
  BY CrashDoes DEF NoJob, Goal, Closing, Late
<1>6. ShownFits(w, row.job, row.due, gen, rc', Charge, Calm', NobodyCancelled')
  BY <1>1, <1>3, <1>4, <1>5, ShownOf DEF ShownFits, Unanswered
<1>7. NobodyCancelled => Untouched(w, row.job, rc')
  BY <1>1, <1>5, ShownOf DEF Untouched, CancelStatus
<1> QED BY <1>1, <1>2, <1>3, <1>6, <1>7 DEF ShownInv, Alone

LEMMA InitShown == ASSUME Init PROVE ShownInv
BY DEF Init, Idle, NoJob, Reconciler, ShownInv, ShownFits, Untouched, AgreeFits, Goal, Closing,
       Out, Unanswered, Final, CancelStatus

LEMMA NextShown ==
  ASSUME NEW e \in Execs, Alone(e), TypeInv, TypeInv', CourseInv, HeldInv, ShownInv,
         [Next]_vars
  PROVE  ShownInv'
<1>1. CASE Claims BY <1>1, WritingShown DEF Claims, Alone
<1>2. ASSUME ExecStep(e) PROVE ShownInv'
  BY <1>2, StartShown, PlacingShown, ReservingShown, SendingShown, AfterShown, SettlingShown,
     RecordShown, SavingShown, WritingShown
  DEF ExecStep
<1>3. CASE UNCHANGED vars
  BY <1>3, SameRequests
  DEF vars, ShownInv, ShownFits, Untouched, AgreeFits, Charge
<1>4. CASE CancelArrives \/ \E c \in Cancels : CancelStep(c)
  BY <1>4, RequestShown DEF CancelArrives
<1> QED BY <1>1, <1>2, <1>3, <1>4, ReconcileShown, TimeShown, CrashShown
        DEF Next, Rest, Alone

\* Of a job that is executed once: what the conversation shows in the end is
\* what became of the job and what it cost, whatever the clock, the
\* reconciler, cancel requests and crashes did in between
\* (recordProviderImageGeneration, MarkGenerationFinished, saveJob).
THEOREM OneConversationIsRight ==
  ASSUME NEW e, Execs = {e}
  PROVE  Spec => []ConversationIsRight
<1>0. e \in Execs /\ Alone(e) BY DEF Alone
<1>1. Init => TypeInv /\ CourseInv /\ HeldInv /\ FreeInv /\ ShownInv
  BY <1>0, InitTypes, InitCourse, InitHeld, InitFree, InitShown
<1>2. TypeInv /\ CourseInv /\ HeldInv /\ FreeInv /\ ShownInv /\ [Next]_vars
        => (TypeInv /\ CourseInv /\ HeldInv /\ FreeInv /\ ShownInv)'
  BY <1>0, NextTypes, NextCourse, NextHeld, NextFree, NextShown
<1>3. ASSUME TypeInv, CourseInv, HeldInv, FreeInv, ShownInv, Settled
      PROVE  /\ NobodyCancelled /\ crashes = 0 =>
                  \/ gen = row.job.status
                  \/ (gen = "queued" \/ Outlived) /\ row.job.status = "failed"
             /\ (crashes = 0 \/ NobodyCancelled) /\ gen \notin Final =>
                  row.job.status = "failed" /\ (Outlived \/ Charge = 0)
  <2>0. Late(ex[e]) => Outlived BY <1>0 DEF Late, Outlived
  <2>1. /\ ex[e].pc \in {"idle", "done", "dead"} /\ row.job.status \in Final
        /\ Witnessed => Calm
    BY <1>0, <1>3 DEF Settled, Quiet, InFlight, Calm, Asked
  <2>2. ex[e].pc = "dead" => crashes # 0 BY <1>0, <1>3 DEF FreeInv, TypeInv, TypeOK
  <2>3. NobodyCancelled /\ crashes = 0 =>
          \/ gen = row.job.status
          \/ (gen = "queued" \/ Outlived) /\ row.job.status = "failed"
    <3> SUFFICES ASSUME NobodyCancelled, crashes = 0
                 PROVE  \/ gen = row.job.status
                        \/ (gen = "queued" \/ Outlived) /\ row.job.status = "failed"
      OBVIOUS
    <3>1. CASE ex[e].pc = "done" BY <1>0, <1>3, <2>0, <3>1, ShownOf DEF AgreeFits
    <3>2. CASE ex[e].pc = "idle"
      <4>1. row.job.status = "failed"
        BY <1>0, <1>3, <2>1, <3>2, ShownOf DEF Untouched, Course, Closing, Out, Final, CancelStatus
      <4>2. gen \in Final
        BY <1>0, <1>3, <3>2, <4>1, ShownOf DEF ShownFits, Course, Late, Goal, Unanswered
      <4> QED BY <1>0, <1>3, <3>2, <4>1, <4>2, ShownOf DEF AgreeFits, Goal, Final
    <3> QED BY <2>1, <2>2, <3>1, <3>2
  <2>4. Witnessed /\ gen \notin Final =>
          row.job.status = "failed" /\ (Outlived \/ Charge = 0)
    BY <1>0, <1>3, <2>0, <2>1, <2>2, ShownOf DEF ShownFits, Witnessed
  <2> QED BY <2>3, <2>4 DEF Witnessed
<1>4. TypeInv /\ CourseInv /\ HeldInv /\ FreeInv /\ ShownInv => ConversationIsRight
  BY <1>3 DEF ConversationIsRight, RowAndGenerationAgree, UnfinishedIsUncharged, Charge
<1> QED BY <1>1, <1>2, <1>4, PTL DEF Spec
=============================================================================

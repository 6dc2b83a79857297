---------------------------- MODULE WebJobsProofs ----------------------------
(***************************************************************************)
(* Proofs about WebJobs, for any number of requests in flight, jobs,       *)
(* sessions, blocks and lost replies, and for every client.                *)
(***************************************************************************)
EXTENDS WebJobs, TLAPS

-----------------------------------------------------------------------------
(* The inductive invariant *)

\* Where a handler is, it holds what it needs: the lock around the commands of a
\* request, a driver for a job; and a start that has not raced is the only
\* handler under way.
ReqAt(t) ==
    /\ req[t].pc \in {"clear", "testoff", "zero", "register"} => req[t].op \in Starts
    /\ req[t].pc \in {"setup", "start", "zero"} => req[t].op = "job"
    /\ req[t].pc \in {"in", "open", "off", "copyon", "copyoff"} => lock = Slot(t)
    /\ req[t].op = "job" => req[t].drv # None
    /\ req[t].pc \in {"lock", "in", "open", "off", "copyon", "copyoff"} =>
         req[t].op \in LockOps /\ ~req[t].raced
    /\ t \in UnderWay /\ req[t].op \in Starts /\ ~req[t].raced => UnderWay = {t}

ReqInv == \A t \in Slots : ReqAt(t)

\* Of every job: the lock goes with the body, so the session cannot change once
\* a block was worked on; a final state is that of the job that is shown.
JobAtAll(j) ==
    /\ j > started => jobs[j] = NoJob /\ j # job
    /\ jobs[j].pc = "none" => told[j] = NotTold /\ ~jobs[j].alone
    /\ jobs[j].pc = "wait" => jobs[j].work = 0
    /\ jobs[j].pc \in {"check", "work"} => lock = Job(j)
    /\ jobs[j].pc \in {"path", "meta", "link"} /\ IsTool(j) => lock = Job(j)
    /\ jobs[j].pc \in {"check", "work"} /\ jobs[j].work > 0 => jobs[j].drv = dev
    /\ jobs[j].state \in Finals => j = job /\ jobs[j].pc = "gone"

JobInv == \A j \in Jobs : JobAtAll(j)

\* Of a job that started alone: while its thread has work left it is the one
\* that is shown, and no handler is past its look; while it is shown, no other
\* thread has work left.
AloneAt(j) ==
    jobs[j].alone =>
      /\ Alive(j) => job = j /\ Running(j) /\ UnderWay = {}
      /\ j = job => \A i \in Jobs \ {j} : ~Alive(i)

AloneInv == \A j \in Jobs : AloneAt(j)

\* How far the record of such a job is, by the step its thread is at.
Complete(j) ==
    /\ jobs[j].end \in {"done", "failed"} => jobs[j].report
    /\ jobs[j].end = "done" /\ jobs[j].file => jobs[j].download

RecordAt(j) ==
    jobs[j].alone =>
      /\ jobs[j].pc \in {"wait", "check", "work", "tail", "path", "meta", "link"} =>
           ~jobs[j].download
      /\ jobs[j].pc = "report" /\ ~IsTool(j) => ~jobs[j].download
      /\ jobs[j].pc = "report" =>
           /\ jobs[j].end \in {"done", "failed"}
           /\ IsTool(j) /\ jobs[j].end = "done" /\ jobs[j].file => jobs[j].download
      /\ jobs[j].pc \in {"path", "meta", "link"} /\ ~IsTool(j) => jobs[j].report
      /\ jobs[j].pc = "tail" => jobs[j].end = "cancelled"
      /\ jobs[j].pc \in {"record", "keep", "final"} => Complete(j)
      /\ jobs[j].state \in Finals => Complete(j) /\ j \in history
      /\ jobs[j].pc = "keep" => j \in jobs[j].copy
      /\ jobs[j].pc = "final" => j \in history

RecordInv == \A j \in Jobs : RecordAt(j)

\* The result on the server is that of the job which says so.
ResultAt(j) ==
    jobs[j].alone /\ j = job =>
      /\ jobs[j].download => result = [path |-> j, meta |-> j]
      /\ jobs[j].pc \in {"meta", "link"} => result.path = j
      /\ jobs[j].pc = "link" => result.meta = j

ResultInv == \A j \in Jobs : ResultAt(j)

\* While a job that was told to cancel may look at the event, it is set.
ToldAt(j) ==
    jobs[j].alone /\ told[j] # NotTold =>
      /\ told[j] = 0 \/ told[j] = 1
      /\ InBody(j) => cancel
      /\ told[j] = 1 => jobs[j].pc \notin {"wait", "work"}

ToldInv == \A j \in Jobs : ToldAt(j)

ServerInv == ReqInv /\ JobInv /\ AloneInv /\ RecordInv /\ ResultInv /\ ToldInv

\* As long as nothing raced in the first session and no reply was lost, the
\* host's copy of the PIN_TEST mode is right whenever a job can begin.
Orderly ==
    /\ opened <= 1 /\ losses = 0
    /\ \A j \in 1..started : jobs[j].alone
    /\ \A t \in UnderWay : ~req[t].raced

PinsAt(t) ==
    /\ req[t].pc = "copyoff" => ~testing
    /\ req[t].pc \in {"zero", "register"} /\ req[t].op = "job" /\ dev # None => ~testing

CopyTrue ==
    dev # None /\ testing => pintest \/ \E t \in Slots : req[t].pc \in {"off", "copyon"}

NeverOpened == opened = 0 => dev = None /\ ~testing

PinsInv ==
    /\ NeverOpened
    /\ Orderly => /\ CopyTrue
                  /\ \A t \in Slots : PinsAt(t)
                  /\ \A j \in Jobs : Alive(j) /\ jobs[j].drv # None /\ dev # None => ~testing

-----------------------------------------------------------------------------
(* Types *)

RequestPcs == {"idle", "lock", "in", "open", "off", "copyon", "copyoff", "setup", "start",
               "clear", "testoff", "zero", "register"}
RequestType == [op : Ops \cup {"none"}, pc : RequestPcs, drv : Sessions \cup {None},
                raced : BOOLEAN]
JobPcs == {"none", "wait", "check", "work", "tail", "report", "path", "meta", "link",
           "record", "keep", "final", "gone", "dead"}
JobType == [state : Finals \cup {"none", "running"}, pc : JobPcs, drv : Sessions \cup {None},
            file : BOOLEAN, work : 0..MaxWork, end : Ends, report : BOOLEAN,
            download : BOOLEAN, copy : SUBSET Jobs, alone : BOOLEAN]

SharedType ==
    /\ asks \in [Slots -> SUBSET Ops]
    /\ dev \in Sessions \cup {None} /\ drv \in Sessions \cup {None}
    /\ opened \in 0..MaxConns /\ started \in 0..MaxJobs
    /\ pintest \in BOOLEAN /\ testing \in BOOLEAN /\ cancel \in BOOLEAN
    /\ job \in Jobs \cup {None}
    /\ result \in [path : Jobs \cup {None}, meta : Jobs \cup {None}]
    /\ losses \in 0..MaxLosses
    /\ history \subseteq Jobs
    /\ lock \in {Free} \cup {Slot(t) : t \in Slots} \cup {Job(j) : j \in Jobs}

LEMMA Parts ==
    TypeOK <=> /\ SharedType
               /\ req \in [Slots -> RequestType]
               /\ jobs \in [Jobs -> JobType]
               /\ told \in [Jobs -> 0..NotTold]
BY DEF TypeOK, SharedType, RequestType, RequestPcs, JobType, JobPcs

LEMMA PartsNext ==
    ASSUME SharedType', req' \in [Slots -> RequestType], jobs' \in [Jobs -> JobType],
           told' \in [Jobs -> 0..NotTold]
    PROVE  TypeOK'
BY DEF TypeOK, SharedType, RequestType, RequestPcs, JobType, JobPcs

(* What the bounds give: 0 is no job and no session. *)
LEMMA Bounds ==
    /\ MaxJobs \in Nat /\ MaxConns \in Nat /\ MaxWork \in Nat /\ MaxLosses \in Nat
    /\ MaxConns > 0 /\ MaxJobs > 0
    /\ Jobs = 1..MaxJobs /\ Sessions = 1..MaxConns /\ Jobs \subseteq Nat /\ Sessions \subseteq Nat
    /\ None \notin Jobs /\ None \notin Sessions
    /\ NotTold \in Nat /\ NotTold = MaxWork + 2 /\ None = 0 /\ 0 \in 0..MaxWork
BY BoundsAssumption DEF Jobs, Sessions, None, NotTold

LEMMA NextJob ==
    ASSUME started \in 0..MaxJobs, started < MaxJobs
    PROVE  started + 1 \in 0..MaxJobs /\ started + 1 \in Jobs /\ started + 1 > started
BY Bounds

LEMMA GotoType ==
    ASSUME req \in [Slots -> RequestType], NEW t \in Slots, NEW pc \in RequestPcs, Goto(t, pc)
    PROVE  req' \in [Slots -> RequestType]
BY DEF Goto, RequestType

LEMMA AnswerType ==
    ASSUME req \in [Slots -> RequestType], NEW t \in Slots, Answer(t)
    PROVE  req' \in [Slots -> RequestType]
BY DEF Answer, RequestType, RequestPcs, Idle

LEMMA GoOnType ==
    ASSUME req \in [Slots -> RequestType], NEW t \in Slots, NEW op \in Ops,
           NEW pc \in RequestPcs, GoOn(t, op, pc)
    PROVE  req' \in [Slots -> RequestType]
<1> DEFINE others == UnderWay \ {t}
           new(u) == IF u = t
                     THEN [op |-> op, pc |-> pc, drv |-> req[t].drv,
                           raced |-> op \in Starts /\ others # {}]
                     ELSE [req[u] EXCEPT !.raced = @ \/ (u \in others /\ req[u].op \in Starts)]
<1>1. req' = [u \in Slots |-> new(u)]
  BY DEF GoOn
<1>2. ASSUME NEW u \in Slots PROVE new(u) \in RequestType
  <2>1. req[u] \in RequestType /\ req[t] \in RequestType
    OBVIOUS
  <2>2. (op \in Starts /\ others # {}) \in BOOLEAN
        /\ (req[u].raced \/ (u \in others /\ req[u].op \in Starts)) \in BOOLEAN
    OBVIOUS
  <2>3. CASE u = t
    BY <2>1, <2>2, <2>3 DEF RequestType
  <2>4. CASE u # t
    <3> DEFINE r == req[u].raced \/ (u \in others /\ req[u].op \in Starts)
    <3>1. r \in BOOLEAN
      OBVIOUS
    <3>2. new(u) = [req[u] EXCEPT !.raced = r]
      BY <2>4
    <3> HIDE DEF r, new
    <3> QED BY <2>1, <3>1, <3>2 DEF RequestType
  <2> QED BY <2>3, <2>4
<1> HIDE DEF new
<1> QED BY <1>1, <1>2

LEMMA JobGotoType ==
    ASSUME jobs \in [Jobs -> JobType], NEW j \in Jobs, NEW pc \in JobPcs, JobGoto(j, pc)
    PROVE  jobs' \in [Jobs -> JobType]
BY DEF JobGoto, JobType

LEMMA BodyEndsType ==
    ASSUME jobs \in [Jobs -> JobType], NEW j \in Jobs, NEW pc \in JobPcs, NEW end \in Ends,
           BodyEnds(j, end, pc)
    PROVE  jobs' \in [Jobs -> JobType] /\ lock' = Free
<1>1. ASSUME NEW r \in JobType PROVE [r EXCEPT !.pc = pc, !.end = end] \in JobType
  BY DEF JobType
<1>2. jobs' = [jobs EXCEPT ![j] = [jobs[j] EXCEPT !.pc = pc, !.end = end]] /\ lock' = Free
  BY DEF BodyEnds
<1> QED BY <1>1, <1>2

LEMMA ForgottenType ==
    ASSUME jobs \in [Jobs -> JobType], NEW j \in Jobs
    PROVE  Forgotten(j) \in JobType
<1>1. NoJob \in JobType
  BY Bounds DEF NoJob, JobType, JobPcs, Ends, Finals
<1>2. ASSUME NEW r \in JobType, NEW pc \in JobPcs, NEW alone \in BOOLEAN
      PROVE  [r EXCEPT !.pc = pc, !.alone = alone] \in JobType
  BY DEF JobType
<1>3. jobs[j].pc \in JobPcs /\ jobs[j].alone \in BOOLEAN
  BY DEF JobType
<1> QED BY <1>1, <1>2, <1>3 DEF Forgotten

LEMMA RestType ==
    ASSUME jobs \in [Jobs -> JobType], NEW j \in Jobs
    PROVE  Rest(j) \in JobType
<1>1. ASSUME NEW r \in JobType, NEW f \in BOOLEAN
      PROVE  [r EXCEPT !.drv = None, !.work = 0, !.file = f] \in JobType
  BY Bounds DEF JobType
<1> DEFINE f == jobs[j].file /\ jobs[j].end = "done"
<1>2. f \in BOOLEAN /\ jobs[j] \in JobType
  OBVIOUS
<1>3. j = job => Rest(j) = [jobs[j] EXCEPT !.drv = None, !.work = 0, !.file = f]
  BY DEF Rest
<1> HIDE DEF f
<1> QED BY <1>1, <1>2, <1>3, ForgottenType DEF Rest

LEMMA WorkedType ==
    ASSUME told \in [Jobs -> 0..NotTold], NEW j \in Jobs, Worked(j)
    PROVE  told' \in [Jobs -> 0..NotTold]
<1>1. told[j] # NotTold => told[j] + 1 \in 0..NotTold
  BY Bounds
<1> QED BY <1>1 DEF Worked

LEMMA StopType ==
    ASSUME SharedType, Lose \/ UNCHANGED losses
    PROVE  losses' \in 0..MaxLosses
BY Bounds DEF Lose, SharedType

LEMMA InitType == Init => TypeOK
<1> SUFFICES ASSUME Init PROVE TypeOK
  OBVIOUS
<1>1. SharedType
  <2>1. opened \in 0..MaxConns /\ started \in 0..MaxJobs /\ losses \in 0..MaxLosses
    BY Bounds DEF Init
  <2> QED BY <2>1, BoundsAssumption DEF Init, SharedType
<1>2. req \in [Slots -> RequestType]
  BY DEF Init, Idle, RequestType, RequestPcs
<1>3. jobs \in [Jobs -> JobType]
  BY Bounds DEF Init, NoJob, JobType, JobPcs, Ends, Finals
<1>4. told \in [Jobs -> 0..NotTold]
  BY Bounds DEF Init
<1> QED BY <1>1, <1>2, <1>3, <1>4, Parts

LEMMA ArriveType ==
    ASSUME TypeOK, NEW t \in Slots, NEW op \in LockOps, Arrive(t, op)
    PROVE  TypeOK'
<1> USE DEF Arrive, session, pins, jobVars, threads
<1>1. SharedType'
  BY Parts, Bounds DEF SharedType
<1>2. req' \in [Slots -> RequestType]
  <2>1. {"lock", "clear"} \subseteq RequestPcs /\ {"job", "tool"} \subseteq Ops /\ LockOps \subseteq Ops
    BY DEF RequestPcs, Ops, LockOps
  <2> QED BY Parts, <2>1, GoOnType, AnswerType
<1>3. jobs' \in [Jobs -> JobType] /\ told' \in [Jobs -> 0..NotTold]
  BY Parts
<1> QED BY <1>1, <1>2, <1>3, PartsNext

LEMMA TakeLockType ==
    ASSUME TypeOK, NEW t \in Slots, TakeLock(t)
    PROVE  TypeOK'
<1> USE DEF TakeLock, session, pins, jobVars, threads
<1>1. SharedType'
  BY Parts, Bounds DEF SharedType
<1>2. req' \in [Slots -> RequestType]
  BY Parts, GotoType, AnswerType DEF RequestPcs
<1>3. jobs' \in [Jobs -> JobType] /\ told' \in [Jobs -> 0..NotTold]
  BY Parts
<1> QED BY <1>1, <1>2, <1>3, PartsNext

LEMMA DisconnectType ==
    ASSUME TypeOK, NEW t \in Slots, Disconnect(t)
    PROVE  TypeOK'
<1> USE DEF Disconnect, CloseSession, session, pins, jobVars, threads
<1>1. SharedType'
  BY Parts, Bounds DEF SharedType
<1>2. req' \in [Slots -> RequestType]
  BY Parts, GotoType, AnswerType DEF RequestPcs
<1>3. jobs' \in [Jobs -> JobType] /\ told' \in [Jobs -> 0..NotTold]
  BY Parts
<1> QED BY <1>1, <1>2, <1>3, PartsNext

LEMMA ConnectCloseType ==
    ASSUME TypeOK, NEW t \in Slots, ConnectClose(t)
    PROVE  TypeOK'
<1> USE DEF ConnectClose, CloseSession, session, pins, jobVars, threads
<1>1. SharedType'
  BY Parts, Bounds DEF SharedType
<1>2. req' \in [Slots -> RequestType]
  BY Parts, GotoType, AnswerType DEF RequestPcs
<1>3. jobs' \in [Jobs -> JobType] /\ told' \in [Jobs -> 0..NotTold]
  BY Parts
<1> QED BY <1>1, <1>2, <1>3, PartsNext

LEMMA ConnectOpenType ==
    ASSUME TypeOK, NEW t \in Slots, ConnectOpen(t)
    PROVE  TypeOK'
<1> USE DEF ConnectOpen, session, pins, jobVars, threads
<1>1. SharedType'
  BY Parts, Bounds DEF SharedType
<1>2. req' \in [Slots -> RequestType]
  BY Parts, GotoType, AnswerType DEF RequestPcs
<1>3. jobs' \in [Jobs -> JobType] /\ told' \in [Jobs -> 0..NotTold]
  BY Parts
<1> QED BY <1>1, <1>2, <1>3, PartsNext

LEMMA DetectType ==
    ASSUME TypeOK, NEW t \in Slots, Detect(t)
    PROVE  TypeOK'
<1> USE DEF Detect, Stop, Lose, session, pins, jobVars, threads
<1>1. SharedType'
  <2>1. losses' \in 0..MaxLosses
    BY Parts, StopType DEF SharedType
  <2>2. testing' \in BOOLEAN /\ pintest' \in BOOLEAN
    BY Parts DEF SharedType
  <2> QED BY Parts, <2>1, <2>2 DEF SharedType
<1>2. req' \in [Slots -> RequestType]
  BY Parts, GotoType, AnswerType DEF RequestPcs
<1>3. jobs' \in [Jobs -> JobType] /\ told' \in [Jobs -> 0..NotTold]
  BY Parts
<1> QED BY <1>1, <1>2, <1>3, PartsNext

LEMMA UseType ==
    ASSUME TypeOK, NEW t \in Slots, Use(t)
    PROVE  TypeOK'
<1> USE DEF Use, session, pins, jobVars, threads
<1>1. SharedType'
  BY Parts, Bounds DEF SharedType
<1>2. req' \in [Slots -> RequestType]
  BY Parts, GotoType, AnswerType DEF RequestPcs
<1>3. jobs' \in [Jobs -> JobType] /\ told' \in [Jobs -> 0..NotTold]
  BY Parts
<1> QED BY <1>1, <1>2, <1>3, PartsNext

LEMMA PinTestType ==
    ASSUME TypeOK, NEW t \in Slots, PinTest(t)
    PROVE  TypeOK'
<1> USE DEF PinTest, Lose, session, pins, jobVars, threads
<1>1. SharedType'
  <2>1. losses' \in 0..MaxLosses
    BY Parts, StopType DEF SharedType
  <2>2. testing' \in BOOLEAN /\ pintest' \in BOOLEAN
    BY Parts DEF SharedType
  <2> QED BY Parts, <2>1, <2>2 DEF SharedType
<1>2. req' \in [Slots -> RequestType]
  BY Parts, GotoType, AnswerType DEF RequestPcs
<1>3. jobs' \in [Jobs -> JobType] /\ told' \in [Jobs -> 0..NotTold]
  BY Parts
<1> QED BY <1>1, <1>2, <1>3, PartsNext

LEMMA PinTestCopyType ==
    ASSUME TypeOK, NEW t \in Slots, PinTestCopy(t)
    PROVE  TypeOK'
<1> USE DEF PinTestCopy, session, pins, jobVars, threads
<1>1. SharedType'
  BY Parts, Bounds DEF SharedType
<1>2. req' \in [Slots -> RequestType]
  BY Parts, GotoType, AnswerType DEF RequestPcs
<1>3. jobs' \in [Jobs -> JobType] /\ told' \in [Jobs -> 0..NotTold]
  BY Parts
<1> QED BY <1>1, <1>2, <1>3, PartsNext

LEMMA DoctorScanType ==
    ASSUME TypeOK, NEW t \in Slots, DoctorScan(t)
    PROVE  TypeOK'
<1> USE DEF DoctorScan, session, pins, jobVars, threads
<1>1. SharedType'
  BY Parts, Bounds DEF SharedType
<1>2. req' \in [Slots -> RequestType]
  BY Parts, GotoType, AnswerType DEF RequestPcs
<1>3. jobs' \in [Jobs -> JobType] /\ told' \in [Jobs -> 0..NotTold]
  BY Parts
<1> QED BY <1>1, <1>2, <1>3, PartsNext

LEMMA DoctorOffType ==
    ASSUME TypeOK, NEW t \in Slots, DoctorOff(t)
    PROVE  TypeOK'
<1> USE DEF DoctorOff, Stop, Lose, session, pins, jobVars, threads
<1>1. SharedType'
  <2>1. losses' \in 0..MaxLosses
    BY Parts, StopType DEF SharedType
  <2>2. testing' \in BOOLEAN /\ pintest' \in BOOLEAN
    BY Parts DEF SharedType
  <2> QED BY Parts, <2>1, <2>2 DEF SharedType
<1>2. req' \in [Slots -> RequestType]
  BY Parts, GotoType, AnswerType DEF RequestPcs
<1>3. jobs' \in [Jobs -> JobType] /\ told' \in [Jobs -> 0..NotTold]
  BY Parts
<1> QED BY <1>1, <1>2, <1>3, PartsNext

LEMMA CommonType ==
    ASSUME TypeOK, NEW t \in Slots, Common(t)
    PROVE  TypeOK'
<1> USE DEF Common, Idle, session, pins, jobVars, threads
<1>1. SharedType'
  BY Parts, Bounds DEF SharedType
<1>2. req' \in [Slots -> RequestType]
  BY Parts DEF RequestType, RequestPcs, Ops, LockOps, SharedType
<1>3. jobs' \in [Jobs -> JobType] /\ told' \in [Jobs -> 0..NotTold]
  BY Parts
<1> QED BY <1>1, <1>2, <1>3, PartsNext

LEMMA SetupType ==
    ASSUME TypeOK, NEW t \in Slots, Setup(t)
    PROVE  TypeOK'
<1> USE DEF Setup, session, pins, jobVars, threads
<1>1. SharedType'
  BY Parts, Bounds DEF SharedType
<1>2. req' \in [Slots -> RequestType]
  BY Parts, GotoType, AnswerType DEF RequestPcs
<1>3. jobs' \in [Jobs -> JobType] /\ told' \in [Jobs -> 0..NotTold]
  BY Parts
<1> QED BY <1>1, <1>2, <1>3, PartsNext

LEMMA StartCheckType ==
    ASSUME TypeOK, NEW t \in Slots, StartCheck(t)
    PROVE  TypeOK'
<1> USE DEF StartCheck, session, pins, jobVars, threads
<1>1. SharedType'
  BY Parts, Bounds DEF SharedType
<1>2. req' \in [Slots -> RequestType]
  <2>1. {"lock", "clear"} \subseteq RequestPcs /\ {"job", "tool"} \subseteq Ops /\ LockOps \subseteq Ops
    BY DEF RequestPcs, Ops, LockOps
  <2> QED BY Parts, <2>1, GoOnType, AnswerType
<1>3. jobs' \in [Jobs -> JobType] /\ told' \in [Jobs -> 0..NotTold]
  BY Parts
<1> QED BY <1>1, <1>2, <1>3, PartsNext

LEMMA ToolCheckType ==
    ASSUME TypeOK, NEW t \in Slots, ToolCheck(t)
    PROVE  TypeOK'
<1> USE DEF ToolCheck, session, pins, jobVars, threads
<1>1. SharedType'
  BY Parts, Bounds DEF SharedType
<1>2. req' \in [Slots -> RequestType]
  <2>1. {"lock", "clear"} \subseteq RequestPcs /\ {"job", "tool"} \subseteq Ops /\ LockOps \subseteq Ops
    BY DEF RequestPcs, Ops, LockOps
  <2> QED BY Parts, <2>1, GoOnType, AnswerType
<1>3. jobs' \in [Jobs -> JobType] /\ told' \in [Jobs -> 0..NotTold]
  BY Parts
<1> QED BY <1>1, <1>2, <1>3, PartsNext

LEMMA ClearCancelType ==
    ASSUME TypeOK, NEW t \in Slots, ClearCancel(t)
    PROVE  TypeOK'
<1> USE DEF ClearCancel, session, pins, jobVars, threads
<1>1. SharedType'
  BY Parts, Bounds DEF SharedType
<1>2. req' \in [Slots -> RequestType]
  BY Parts, GotoType, AnswerType DEF RequestPcs
<1>3. jobs' \in [Jobs -> JobType] /\ told' \in [Jobs -> 0..NotTold]
  BY Parts
<1> QED BY <1>1, <1>2, <1>3, PartsNext

LEMMA StartTestOffType ==
    ASSUME TypeOK, NEW t \in Slots, StartTestOff(t)
    PROVE  TypeOK'
<1> USE DEF StartTestOff, Stop, Lose, session, pins, jobVars, threads
<1>1. SharedType'
  <2>1. losses' \in 0..MaxLosses
    BY Parts, StopType DEF SharedType
  <2>2. testing' \in BOOLEAN /\ pintest' \in BOOLEAN
    BY Parts DEF SharedType
  <2> QED BY Parts, <2>1, <2>2 DEF SharedType
<1>2. req' \in [Slots -> RequestType]
  BY Parts, GotoType, AnswerType DEF RequestPcs
<1>3. jobs' \in [Jobs -> JobType] /\ told' \in [Jobs -> 0..NotTold]
  BY Parts
<1> QED BY <1>1, <1>2, <1>3, PartsNext

LEMMA StartTestZeroType ==
    ASSUME TypeOK, NEW t \in Slots, StartTestZero(t)
    PROVE  TypeOK'
<1> USE DEF StartTestZero, session, pins, jobVars, threads
<1>1. SharedType'
  BY Parts, Bounds DEF SharedType
<1>2. req' \in [Slots -> RequestType]
  BY Parts, GotoType, AnswerType DEF RequestPcs
<1>3. jobs' \in [Jobs -> JobType] /\ told' \in [Jobs -> 0..NotTold]
  BY Parts
<1> QED BY <1>1, <1>2, <1>3, PartsNext

LEMMA RegisterType ==
    ASSUME TypeOK, NEW t \in Slots, Register(t)
    PROVE  TypeOK'
<1> USE DEF Register, session, pins, jobVars, threads
<1>1. SharedType'
  <2>1. started \in 0..MaxJobs /\ started < MaxJobs /\ started' = started + 1 /\ job' = started'
    BY Parts DEF SharedType
  <2>2. started + 1 \in 0..MaxJobs /\ started + 1 \in Jobs
    BY <2>1, NextJob
  <2>3. UNCHANGED << asks, dev, drv, opened, pintest, testing, losses, history, result, cancel, lock >>
    OBVIOUS
  <2> QED BY Parts, <2>1, <2>2, <2>3 DEF SharedType
<1>2. req' \in [Slots -> RequestType]
  BY Parts, AnswerType
<1>3. jobs' \in [Jobs -> JobType]
  <2> DEFINE alone == ~req[t].raced /\ \A i \in Jobs : ~Alive(i)
             of == IF req[t].op = "job" THEN req[t].drv ELSE None
             first(file) == [NoJob EXCEPT !.state = "running", !.pc = "wait", !.file = file,
                               !.drv = of, !.alone = alone]
  <2>1. of \in Sessions \cup {None} /\ alone \in BOOLEAN
    BY Parts DEF RequestType
  <2>2. PICK file \in BOOLEAN :
          jobs' = [j \in Jobs |-> IF j = started + 1 THEN first(file)
                                  ELSE IF Alive(j) THEN jobs[j] ELSE Forgotten(j)]
    OBVIOUS
  <2> HIDE DEF alone, of
  <2>3. first(file) \in JobType
    BY <2>1, Bounds DEF NoJob, JobType, JobPcs, Ends, Finals
  <2> HIDE DEF first
  <2> QED BY Parts, <2>2, <2>3, ForgottenType
<1>4. told' \in [Jobs -> 0..NotTold]
  BY Parts
<1> QED BY <1>1, <1>2, <1>3, <1>4, PartsNext

LEMMA CancelJobType ==
    ASSUME TypeOK, CancelJob
    PROVE  TypeOK'
<1> USE DEF CancelJob, session, pins, threads
<1>1. SharedType'
  BY Parts DEF SharedType
<1>2. told' \in [Jobs -> 0..NotTold]
  <2>1. 0 \in 0..NotTold
    BY Bounds
  <2> QED BY Parts, <2>1
<1> QED BY Parts, <1>1, <1>2, PartsNext

LEMMA JobLockType ==
    ASSUME TypeOK, NEW j \in Jobs, JobLock(j)
    PROVE  TypeOK'
<1> USE DEF JobLock, session, pins, threads
<1>1. SharedType'
  BY Parts, Bounds DEF SharedType, BodyEnds
<1>2. req' \in [Slots -> RequestType]
  BY Parts
<1>3. jobs' \in [Jobs -> JobType]
  BY Parts, JobGotoType, BodyEndsType DEF JobPcs, Ends, Finals
<1>4. told' \in [Jobs -> 0..NotTold]
  BY Parts, Bounds, WorkedType
<1> QED BY <1>1, <1>2, <1>3, <1>4, PartsNext

LEMMA JobCheckType ==
    ASSUME TypeOK, NEW j \in Jobs, JobCheck(j)
    PROVE  TypeOK'
<1> USE DEF JobCheck, session, pins, threads
<1>1. SharedType'
  BY Parts, Bounds DEF SharedType, BodyEnds
<1>2. req' \in [Slots -> RequestType]
  BY Parts
<1>3. jobs' \in [Jobs -> JobType]
  <2>1. "cancelled" \in Ends /\ {"tail", "record", "work"} \subseteq JobPcs
    BY DEF Ends, Finals, JobPcs
  <2> QED BY Parts, <2>1, JobGotoType, BodyEndsType
<1>4. told' \in [Jobs -> 0..NotTold]
  BY Parts, Bounds, WorkedType
<1> QED BY <1>1, <1>2, <1>3, <1>4, PartsNext

LEMMA JobTailType ==
    ASSUME TypeOK, NEW j \in Jobs, JobTail(j)
    PROVE  TypeOK'
<1> USE DEF JobTail, session, pins, threads
<1>1. SharedType'
  BY Parts, Bounds DEF SharedType, BodyEnds
<1>2. req' \in [Slots -> RequestType]
  BY Parts
<1>3. jobs' \in [Jobs -> JobType]
  BY Parts, JobGotoType, BodyEndsType DEF JobPcs, Ends, Finals
<1>4. told' \in [Jobs -> 0..NotTold]
  BY Parts, Bounds, WorkedType
<1> QED BY <1>1, <1>2, <1>3, <1>4, PartsNext

LEMMA JobWorkType ==
    ASSUME TypeOK, NEW j \in Jobs, JobWork(j)
    PROVE  TypeOK'
<1> USE DEF JobWork, session, pins, threads
<1>1. SharedType'
  BY Parts, Bounds DEF SharedType, BodyEnds
<1>2. req' \in [Slots -> RequestType]
  BY Parts
<1>3. jobs' \in [Jobs -> JobType]
  <2>1. {"done", "failed", "raised"} \subseteq Ends /\ {"report", "check", "record"} \subseteq JobPcs
    BY DEF Ends, Finals, JobPcs
  <2>2. CASE BodyEnds(j, "raised", "record") \/ \E end \in {"done", "failed"} : BodyEnds(j, end, "report")
    BY Parts, <2>1, <2>2, BodyEndsType
  <2>3. CASE /\ jobs[j].work < MaxWork
             /\ jobs' = [jobs EXCEPT ![j].pc = "check", ![j].work = @ + 1]
    <3>1. jobs[j] \in JobType /\ jobs[j].work \in 0..MaxWork
      BY Parts DEF JobType
    <3>2. jobs[j].work + 1 \in 0..MaxWork
      BY <2>3, <3>1, Bounds
    <3> QED BY Parts, <2>1, <2>3, <3>1, <3>2 DEF JobType
  <2> QED BY <2>2, <2>3
<1>4. told' \in [Jobs -> 0..NotTold]
  BY Parts, Bounds, WorkedType
<1> QED BY <1>1, <1>2, <1>3, <1>4, PartsNext

LEMMA ToolWorkType ==
    ASSUME TypeOK, NEW j \in Jobs, ToolWork(j)
    PROVE  TypeOK'
<1> USE DEF ToolWork, session, pins, threads
<1>1. SharedType'
  BY Parts, Bounds DEF SharedType, BodyEnds
<1>2. req' \in [Slots -> RequestType]
  BY Parts
<1>3. jobs' \in [Jobs -> JobType]
  <2>1. {"done", "failed", "raised"} \subseteq Ends /\ {"report", "record", "path"} \subseteq JobPcs
    BY DEF Ends, Finals, JobPcs
  <2> QED BY Parts, <2>1, JobGotoType, BodyEndsType
<1>4. told' \in [Jobs -> 0..NotTold]
  BY Parts, Bounds, WorkedType
<1> QED BY <1>1, <1>2, <1>3, <1>4, PartsNext

LEMMA JobReportType ==
    ASSUME TypeOK, NEW j \in Jobs, JobReport(j)
    PROVE  TypeOK'
<1> USE DEF JobReport, session, pins, threads
<1>1. SharedType'
  BY Parts, Bounds DEF SharedType, BodyEnds
<1>2. req' \in [Slots -> RequestType]
  BY Parts
<1>3. jobs' \in [Jobs -> JobType]
  <2> DEFINE pc == IF ~IsTool(j) /\ jobs[j].file /\ jobs[j].end = "done" THEN "path" ELSE "record"
  <2>1. pc \in JobPcs /\ jobs[j] \in JobType
    BY Parts DEF JobPcs
  <2>2. jobs' = [jobs EXCEPT ![j] = [jobs[j] EXCEPT !.report = TRUE, !.pc = pc]]
    BY Parts
  <2> HIDE DEF pc
  <2>3. [jobs[j] EXCEPT !.report = TRUE, !.pc = pc] \in JobType
    BY <2>1 DEF JobType
  <2> QED BY Parts, <2>2, <2>3
<1>4. told' \in [Jobs -> 0..NotTold]
  BY Parts, Bounds, WorkedType
<1> QED BY <1>1, <1>2, <1>3, <1>4, PartsNext

LEMMA ResultPathType ==
    ASSUME TypeOK, NEW j \in Jobs, ResultPath(j)
    PROVE  TypeOK'
<1> USE DEF ResultPath, session, pins, threads
<1>1. SharedType'
  BY Parts, Bounds DEF SharedType, BodyEnds
<1>2. req' \in [Slots -> RequestType]
  BY Parts
<1>3. jobs' \in [Jobs -> JobType]
  BY Parts, JobGotoType, BodyEndsType DEF JobPcs, Ends, Finals
<1>4. told' \in [Jobs -> 0..NotTold]
  BY Parts, Bounds, WorkedType
<1> QED BY <1>1, <1>2, <1>3, <1>4, PartsNext

LEMMA ResultMetaType ==
    ASSUME TypeOK, NEW j \in Jobs, ResultMeta(j)
    PROVE  TypeOK'
<1> USE DEF ResultMeta, session, pins, threads
<1>1. SharedType'
  BY Parts, Bounds DEF SharedType, BodyEnds
<1>2. req' \in [Slots -> RequestType]
  BY Parts
<1>3. jobs' \in [Jobs -> JobType]
  BY Parts, JobGotoType, BodyEndsType DEF JobPcs, Ends, Finals
<1>4. told' \in [Jobs -> 0..NotTold]
  BY Parts, Bounds, WorkedType
<1> QED BY <1>1, <1>2, <1>3, <1>4, PartsNext

LEMMA ResultLinkType ==
    ASSUME TypeOK, NEW j \in Jobs, ResultLink(j)
    PROVE  TypeOK'
<1> USE DEF ResultLink, session, pins, threads
<1>1. SharedType'
  BY Parts, Bounds DEF SharedType, BodyEnds
<1>2. req' \in [Slots -> RequestType]
  BY Parts
<1>3. jobs' \in [Jobs -> JobType]
  <2>1. ASSUME NEW r \in JobType PROVE [r EXCEPT !.download = TRUE, !.pc = "record"] \in JobType
    BY DEF JobType, JobPcs
  <2>2. jobs' = [jobs EXCEPT ![j] = [jobs[j] EXCEPT !.download = TRUE, !.pc = "record"]]
    OBVIOUS
  <2>3. jobs[j] \in JobType
    BY Parts
  <2> QED BY Parts, <2>1, <2>2, <2>3
<1>4. told' \in [Jobs -> 0..NotTold]
  BY Parts, Bounds, WorkedType
<1> QED BY <1>1, <1>2, <1>3, <1>4, PartsNext

LEMMA ToolLinkType ==
    ASSUME TypeOK, NEW j \in Jobs, ToolLink(j)
    PROVE  TypeOK'
<1> USE DEF ToolLink, session, pins, threads
<1>1. SharedType'
  BY Parts, Bounds DEF SharedType, BodyEnds
<1>2. req' \in [Slots -> RequestType]
  BY Parts
<1>3. jobs' \in [Jobs -> JobType]
  <2>1. PICK end \in {"done", "failed", "raised"} :
          jobs' = [i \in Jobs |->
                     LET linked == [jobs[i] EXCEPT !.download = (@ \/ i = job)]
                     IN IF i = j THEN [linked EXCEPT !.pc = IF end = "raised" THEN "record"
                                                            ELSE "report",
                                                     !.end = end]
                        ELSE linked]
    OBVIOUS
  <2> DEFINE pc == IF end = "raised" THEN "record" ELSE "report"
             dl(i) == jobs[i].download \/ i = job
             linked(i) == [jobs[i] EXCEPT !.download = dl(i)]
  <2>2. pc \in JobPcs /\ end \in Ends
    BY DEF JobPcs, Ends, Finals
  <2>3. ASSUME NEW i \in Jobs PROVE linked(i) \in JobType
    <3>1. jobs[i] \in JobType /\ dl(i) \in BOOLEAN
      BY Parts
    <3> HIDE DEF dl
    <3> QED BY <3>1 DEF JobType
  <2>4. jobs' = [i \in Jobs |-> IF i = j THEN [linked(i) EXCEPT !.pc = pc, !.end = end]
                                ELSE linked(i)]
    BY <2>1
  <2> HIDE DEF pc, linked
  <2>5. [linked(j) EXCEPT !.pc = pc, !.end = end] \in JobType
    BY <2>2, <2>3 DEF JobType
  <2> QED BY <2>3, <2>4, <2>5
<1>4. told' \in [Jobs -> 0..NotTold]
  BY Parts, Bounds, WorkedType
<1> QED BY <1>1, <1>2, <1>3, <1>4, PartsNext

LEMMA JobRecordType ==
    ASSUME TypeOK, NEW j \in Jobs, JobRecord(j)
    PROVE  TypeOK'
<1> USE DEF JobRecord, session, pins, threads
<1>1. SharedType'
  BY Parts, Bounds DEF SharedType, BodyEnds
<1>2. req' \in [Slots -> RequestType]
  BY Parts
<1>3. jobs' \in [Jobs -> JobType]
  <2>1. ASSUME NEW r \in JobType PROVE [r EXCEPT !.pc = "keep", !.copy = history'] \in JobType
    <3>1. history' \subseteq Jobs /\ "keep" \in JobPcs
      BY Parts DEF SharedType, JobPcs
    <3> QED BY <3>1 DEF JobType
  <2> QED BY Parts, <2>1, RestType
<1>4. told' \in [Jobs -> 0..NotTold]
  BY Parts, Bounds, WorkedType
<1> QED BY <1>1, <1>2, <1>3, <1>4, PartsNext

LEMMA JobKeepType ==
    ASSUME TypeOK, NEW j \in Jobs, JobKeep(j)
    PROVE  TypeOK'
<1> USE DEF JobKeep, session, pins, threads
<1>1. SharedType'
  <2>1. history' \subseteq Jobs
    BY Parts DEF JobType
  <2> QED BY Parts, <2>1 DEF SharedType
<1>2. req' \in [Slots -> RequestType]
  BY Parts
<1>3. jobs' \in [Jobs -> JobType]
  <2>1. ASSUME NEW r \in JobType, NEW pc \in {"final", "dead"}
        PROVE  [r EXCEPT !.pc = pc, !.copy = {}] \in JobType
    BY DEF JobType, JobPcs
  <2>2. PICK pc \in {"final", "dead"} :
          jobs' = [jobs EXCEPT ![j] = [Rest(j) EXCEPT !.pc = pc, !.copy = {}]]
    OBVIOUS
  <2> QED BY Parts, <2>1, <2>2, RestType
<1>4. told' \in [Jobs -> 0..NotTold]
  BY Parts, Bounds, WorkedType
<1> QED BY <1>1, <1>2, <1>3, <1>4, PartsNext

LEMMA JobFinalType ==
    ASSUME TypeOK, NEW j \in Jobs, JobFinal(j)
    PROVE  TypeOK'
<1> USE DEF JobFinal, session, pins, threads
<1>1. SharedType'
  BY Parts, Bounds DEF SharedType, BodyEnds
<1>2. req' \in [Slots -> RequestType]
  BY Parts
<1>3. jobs' \in [Jobs -> JobType]
  <2> DEFINE state == IF j = job THEN Final(jobs[j].end) ELSE "none"
  <2>1. jobs[j].end \in Ends
    BY Parts DEF JobType
  <2>2. state \in Finals \cup {"none"}
    BY <2>1 DEF Ends, Finals, Final
  <2>3. ASSUME NEW r \in JobType PROVE [r EXCEPT !.pc = "gone", !.state = state] \in JobType
    <3> HIDE DEF state
    <3> QED BY <2>2 DEF JobType, JobPcs
  <2> QED BY Parts, <2>3, RestType
<1>4. told' \in [Jobs -> 0..NotTold]
  BY Parts, Bounds, WorkedType
<1> QED BY <1>1, <1>2, <1>3, <1>4, PartsNext

-----------------------------------------------------------------------------
(* The server *)

LEMMA Threads ==
    /\ \A t, u \in Slots : Slot(t) = Slot(u) => t = u
    /\ \A i, j \in Jobs : Job(i) = Job(j) => i = j
    /\ \A t \in Slots : Slot(t) # Free
    /\ \A j \in Jobs : Job(j) # Free
    /\ \A t \in Slots, j \in Jobs : Slot(t) # Job(j)
BY DEF Slot, Job, Free

LEMMA InitServer == Init => ServerInv
<1> SUFFICES ASSUME Init PROVE ServerInv
  OBVIOUS
<1>1. ReqInv
  BY DEF Init, ReqInv, ReqAt, Idle, UnderWay
<1>2. JobInv
  BY Bounds DEF Init, JobInv, JobAtAll, NoJob, Finals
<1>3. AloneInv /\ RecordInv /\ ResultInv /\ ToldInv
  BY DEF Init, AloneInv, AloneAt, RecordInv, RecordAt, ResultInv, ResultAt, ToldInv, ToldAt, NoJob
<1> QED BY <1>1, <1>2, <1>3 DEF ServerInv

(* Requests.  What the steps of a handler do to the others: nothing, but that   *)
(* they may have raced, and that the lock is taken or given back.               *)

HotPcs == {"lock", "in", "open", "off", "copyon", "copyoff", "clear", "testoff", "zero",
           "register"}
ColdPcs == {"idle", "setup", "start"}
LockStep(t) == lock' = lock \/ lock = Free \/ lock = Slot(t)

LEMMA UnderWayIs ==
    ASSUME TypeOK, NEW t \in Slots
    PROVE  (t \in UnderWay <=> req[t].pc \notin ColdPcs)
BY DEF UnderWay, ColdPcs

LEMMA GotoFields ==
    ASSUME TypeOK, NEW t \in Slots, NEW pc, Goto(t, pc)
    PROVE  /\ req'[t].pc = pc /\ req'[t].op = req[t].op /\ req'[t].drv = req[t].drv
           /\ req'[t].raced = req[t].raced
           /\ \A u \in Slots : u # t => req'[u] = req[u]
BY DEF TypeOK, Goto

LEMMA AnswerFields ==
    ASSUME TypeOK, NEW t \in Slots, Answer(t)
    PROVE  req'[t] = Idle /\ \A u \in Slots : u # t => req'[u] = req[u]
BY DEF TypeOK, Answer

LEMMA GoOnFields ==
    ASSUME TypeOK, NEW t \in Slots, NEW op, NEW pc, GoOn(t, op, pc)
    PROVE  /\ req'[t].pc = pc /\ req'[t].op = op /\ req'[t].drv = req[t].drv
           /\ req'[t].raced <=> op \in Starts /\ UnderWay \ {t} # {}
           /\ \A u \in Slots : u # t =>
                /\ req'[u].pc = req[u].pc /\ req'[u].op = req[u].op /\ req'[u].drv = req[u].drv
                /\ req'[u].raced <=> req[u].raced \/ (u \in UnderWay /\ req[u].op \in Starts)
<1>1. req'[t] = [op |-> op, pc |-> pc, drv |-> req[t].drv,
                 raced |-> op \in Starts /\ UnderWay \ {t} # {}]
  BY DEF GoOn
<1>2. ASSUME NEW u \in Slots, u # t
      PROVE  req'[u] = [req[u] EXCEPT !.raced = req[u].raced \/ (u \in UnderWay \ {t} /\ req[u].op \in Starts)]
  BY <1>2 DEF GoOn
<1>3. ASSUME NEW u \in Slots, u # t
      PROVE  /\ req'[u].pc = req[u].pc /\ req'[u].op = req[u].op /\ req'[u].drv = req[u].drv
             /\ req'[u].raced <=> req[u].raced \/ (u \in UnderWay /\ req[u].op \in Starts)
  <2> DEFINE r == req[u].raced \/ (u \in UnderWay \ {t} /\ req[u].op \in Starts)
  <2>1. req'[u] = [req[u] EXCEPT !.raced = r]
    BY <1>2, <1>3
  <2>2. r <=> req[u].raced \/ (u \in UnderWay /\ req[u].op \in Starts)
    BY <1>3
  <2>3. req[u] = [op |-> req[u].op, pc |-> req[u].pc, drv |-> req[u].drv, raced |-> req[u].raced]
    BY DEF TypeOK
  <2> HIDE DEF r
  <2>4. /\ req'[u].pc = req[u].pc /\ req'[u].op = req[u].op /\ req'[u].drv = req[u].drv
        /\ req'[u].raced = r
    BY <2>1, <2>3
  <2> QED BY <2>2, <2>4
<1>4. /\ req'[t].pc = pc /\ req'[t].op = op /\ req'[t].drv = req[t].drv
      /\ req'[t].raced <=> op \in Starts /\ UnderWay \ {t} # {}
  <2> DEFINE r == op \in Starts /\ UnderWay \ {t} # {}
  <2>1. req'[t] = [op |-> op, pc |-> pc, drv |-> req[t].drv, raced |-> r]
    BY <1>1
  <2> HIDE DEF r
  <2>2. /\ req'[t].pc = pc /\ req'[t].op = op /\ req'[t].drv = req[t].drv
        /\ req'[t].raced = r
    BY <2>1
  <2> QED BY <2>2 DEF r
<1> QED BY <1>3, <1>4

(* A handler under way goes on. *)
LEMMA GotoReq ==
    ASSUME TypeOK, ReqInv, NEW t \in Slots, t \in UnderWay, NEW pc \in HotPcs, Goto(t, pc),
           pc \in {"clear", "testoff", "zero", "register"} => req[t].op \in Starts,
           pc = "zero" => req[t].op = "job",
           pc \in {"in", "open", "off", "copyon", "copyoff"} => lock' = Slot(t),
           pc \in {"lock", "in", "open", "off", "copyon", "copyoff"} =>
             req[t].op \in LockOps /\ ~req[t].raced,
           LockStep(t)
    PROVE  ReqInv' /\ UnderWay' = UnderWay
<1>1. /\ req'[t].pc = pc /\ req'[t].op = req[t].op /\ req'[t].drv = req[t].drv
      /\ req'[t].raced = req[t].raced
      /\ \A u \in Slots : u # t => req'[u] = req[u]
  BY GotoFields
<1>2. UnderWay' = UnderWay
  BY <1>1 DEF UnderWay, HotPcs
<1>3. ReqAt(t)'
  BY <1>1, <1>2 DEF ReqInv, ReqAt, HotPcs
<1>4. ASSUME NEW u \in Slots, u # t PROVE ReqAt(u)'
  <2>1. lock = Slot(u) => lock' = Slot(u)
    BY <1>4, Threads DEF LockStep
  <2>2. req'[u] = req[u] /\ ReqAt(u)
    BY <1>1, <1>4 DEF ReqInv
  <2> QED BY <1>2, <2>1, <2>2 DEF ReqAt
<1> QED BY <1>2, <1>3, <1>4 DEF ReqInv

(* A handler answers. *)
LEMMA AnswerReq ==
    ASSUME TypeOK, ReqInv, NEW t \in Slots, Answer(t), LockStep(t)
    PROVE  ReqInv' /\ UnderWay' = UnderWay \ {t}
<1>1. req'[t] = Idle /\ \A u \in Slots : u # t => req'[u] = req[u]
  BY AnswerFields
<1>2. UnderWay' = UnderWay \ {t}
  BY <1>1 DEF UnderWay, Idle
<1>3. ReqAt(t)'
  BY <1>1, <1>2 DEF ReqAt, Idle
<1>4. ASSUME NEW u \in Slots, u # t PROVE ReqAt(u)'
  <2>1. lock = Slot(u) => lock' = Slot(u)
    BY <1>4, Threads DEF LockStep
  <2>2. req'[u] = req[u] /\ ReqAt(u)
    BY <1>1, <1>4 DEF ReqInv
  <2> QED BY <1>2, <1>4, <2>1, <2>2 DEF ReqAt
<1> QED BY <1>2, <1>3, <1>4 DEF ReqInv

(* A handler found no job running. *)
LEMMA GoOnReq ==
    ASSUME TypeOK, ReqInv, NEW t \in Slots, t \notin UnderWay, NEW op, NEW pc, GoOn(t, op, pc),
           \/ pc = "lock" /\ op \in LockOps
           \/ pc = "clear" /\ op = "tool"
           \/ pc = "clear" /\ op = "job" /\ req[t].drv # None,
           lock' = lock
    PROVE  ReqInv' /\ UnderWay' = UnderWay \cup {t}
<1>1. /\ req'[t].pc = pc /\ req'[t].op = op /\ req'[t].drv = req[t].drv
      /\ req'[t].raced <=> op \in Starts /\ UnderWay \ {t} # {}
      /\ \A u \in Slots : u # t =>
           /\ req'[u].pc = req[u].pc /\ req'[u].op = req[u].op /\ req'[u].drv = req[u].drv
           /\ req'[u].raced <=> req[u].raced \/ (u \in UnderWay /\ req[u].op \in Starts)
  BY GoOnFields
<1>2. UnderWay' = UnderWay \cup {t}
  BY <1>1 DEF UnderWay
<1>3. ReqAt(t)'
  <2>1. op \in Starts /\ ~req'[t].raced => UnderWay' = {t}
    BY <1>1, <1>2
  <2> QED BY <1>1, <2>1 DEF ReqAt, LockOps, Starts
<1>4. ASSUME NEW u \in Slots, u # t PROVE ReqAt(u)'
  <2>1. /\ req'[u].pc = req[u].pc /\ req'[u].op = req[u].op /\ req'[u].drv = req[u].drv
        /\ req'[u].raced <=> req[u].raced \/ (u \in UnderWay /\ req[u].op \in Starts)
        /\ ReqAt(u)
    BY <1>1, <1>4 DEF ReqInv
  <2>2. u \in UnderWay' /\ req'[u].op \in Starts => req'[u].raced
    BY <1>2, <1>4, <2>1
  <2> QED BY <2>1, <2>2 DEF ReqAt, LockOps, Starts
<1> QED BY <1>2, <1>3, <1>4 DEF ReqInv

(* The invariants of the jobs, after a step of a handler that leaves their     *)
(* records alone.  If a job is running that started alone, the handler is not   *)
(* past its look, so it touches nothing.                                        *)
Calm == UnderWay' = UnderWay /\ cancel' = cancel

LEMMA SlotServer ==
    ASSUME TypeOK, ServerInv, NEW t \in Slots, UNCHANGED jobVars, ReqInv',
           t \in UnderWay \/ ~Busy \/ Calm, LockStep(t), dev' = dev \/ lock = Slot(t)
    PROVE  ServerInv'
<1> USE DEF jobVars
<1>1. ASSUME NEW j \in Jobs PROVE JobAtAll(j)'
  <2>1. lock = Job(j) => lock' = Job(j) /\ dev' = dev
    BY Threads DEF LockStep
  <2> QED BY <2>1 DEF ServerInv, JobInv, JobAtAll, IsTool
<1>2. ASSUME NEW j \in Jobs, jobs[j].alone, Alive(j) PROVE Calm
  <2>1. job = j /\ Running(j) /\ UnderWay = {}
    BY <1>2 DEF ServerInv, AloneInv, AloneAt
  <2>2. Busy
    BY <2>1, Bounds DEF Busy, Running
  <2> QED BY <2>1, <2>2
<1>3. AloneInv'
  BY <1>2 DEF ServerInv, AloneInv, AloneAt, Alive, Running, Calm
<1>4. RecordInv' /\ ResultInv'
  BY DEF ServerInv, RecordInv, RecordAt, ResultInv, ResultAt, Complete, IsTool
<1>5. ToldInv'
  BY <1>2 DEF ServerInv, ToldInv, ToldAt, InBody, Alive, Calm
<1> QED BY <1>1, <1>3, <1>4, <1>5 DEF ServerInv, JobInv

LEMMA ArriveServer ==
    ASSUME TypeOK, ServerInv, NEW t \in Slots, NEW op \in LockOps, Arrive(t, op)
    PROVE  ServerInv'
<1> USE DEF Arrive, At, session
<1>1. t \notin UnderWay /\ ReqInv
  BY DEF ServerInv, UnderWay, CanPost, Idle
<1>2. ReqInv'
  BY <1>1, GoOnReq
<1> QED BY <1>1, <1>2, SlotServer DEF LockStep

LEMMA TakeLockServer ==
    ASSUME TypeOK, ServerInv, NEW t \in Slots, TakeLock(t)
    PROVE  ServerInv'
<1> USE DEF TakeLock, At, session
<1>1. ReqAt(t) /\ t \in UnderWay /\ ReqInv
  BY DEF ServerInv, ReqInv, UnderWay
<1>2. Goto(t, "in") /\ LockStep(t)
  BY <1>1 DEF LockStep, ReqAt
<1>3. ReqInv' /\ UnderWay' = UnderWay
  BY <1>1, <1>2, GotoReq DEF HotPcs, ReqAt
<1> QED BY <1>1, <1>2, <1>3, SlotServer DEF ReqAt

LEMMA DisconnectServer ==
    ASSUME TypeOK, ServerInv, NEW t \in Slots, Disconnect(t)
    PROVE  ServerInv'
<1> USE DEF Disconnect, At, CloseSession, session
<1>1. ReqAt(t) /\ t \in UnderWay /\ ReqInv
  BY DEF ServerInv, ReqInv, UnderWay
<1>2. Answer(t) /\ LockStep(t)
  BY <1>1 DEF LockStep, ReqAt
<1>3. ReqInv' /\ UnderWay' = UnderWay \ {t}
  BY <1>1, <1>2, AnswerReq
<1> QED BY <1>1, <1>2, <1>3, SlotServer DEF ReqAt

LEMMA ConnectCloseServer ==
    ASSUME TypeOK, ServerInv, NEW t \in Slots, ConnectClose(t)
    PROVE  ServerInv'
<1> USE DEF ConnectClose, At, CloseSession, session
<1>1. ReqAt(t) /\ t \in UnderWay /\ ReqInv
  BY DEF ServerInv, ReqInv, UnderWay
<1>2. Goto(t, "open") /\ LockStep(t)
  BY <1>1 DEF LockStep, ReqAt
<1>3. ReqInv' /\ UnderWay' = UnderWay
  BY <1>1, <1>2, GotoReq DEF HotPcs, ReqAt
<1> QED BY <1>1, <1>2, <1>3, SlotServer DEF ReqAt

LEMMA ConnectOpenServer ==
    ASSUME TypeOK, ServerInv, NEW t \in Slots, ConnectOpen(t)
    PROVE  ServerInv'
<1> USE DEF ConnectOpen, At, session
<1>1. ReqAt(t) /\ t \in UnderWay /\ ReqInv
  BY DEF ServerInv, ReqInv, UnderWay
<1>2. Answer(t) /\ LockStep(t)
  BY <1>1 DEF LockStep, ReqAt
<1>3. ReqInv' /\ UnderWay' = UnderWay \ {t}
  BY <1>1, <1>2, AnswerReq
<1> QED BY <1>1, <1>2, <1>3, SlotServer DEF ReqAt

LEMMA DetectServer ==
    ASSUME TypeOK, ServerInv, NEW t \in Slots, Detect(t)
    PROVE  ServerInv'
<1> USE DEF Detect, At, session
<1>1. ReqAt(t) /\ t \in UnderWay /\ ReqInv
  BY DEF ServerInv, ReqInv, UnderWay
<1>2. Answer(t) /\ LockStep(t)
  BY <1>1 DEF LockStep, ReqAt
<1>3. ReqInv' /\ UnderWay' = UnderWay \ {t}
  BY <1>1, <1>2, AnswerReq
<1> QED BY <1>1, <1>2, <1>3, SlotServer DEF ReqAt

LEMMA UseServer ==
    ASSUME TypeOK, ServerInv, NEW t \in Slots, Use(t)
    PROVE  ServerInv'
<1> USE DEF Use, At, session
<1>1. ReqAt(t) /\ t \in UnderWay /\ ReqInv
  BY DEF ServerInv, ReqInv, UnderWay
<1>2. Answer(t) /\ LockStep(t)
  BY <1>1 DEF LockStep, ReqAt
<1>3. ReqInv' /\ UnderWay' = UnderWay \ {t}
  BY <1>1, <1>2, AnswerReq
<1> QED BY <1>1, <1>2, <1>3, SlotServer DEF ReqAt

LEMMA PinTestServer ==
    ASSUME TypeOK, ServerInv, NEW t \in Slots, PinTest(t)
    PROVE  ServerInv'
<1> USE DEF PinTest, At, session
<1>1. ReqAt(t) /\ t \in UnderWay /\ ReqInv
  BY DEF ServerInv, ReqInv, UnderWay
<1>2. CASE Answer(t) /\ lock' = Free
  <2>1. LockStep(t) /\ Answer(t)
    BY <1>1, <1>2 DEF LockStep, ReqAt
  <2>2. ReqInv'
    BY <1>1, <2>1, AnswerReq
  <2> QED BY <1>1, <1>2, <2>1, <2>2, SlotServer DEF ReqAt
<1>3. CASE testing' /\ Goto(t, "copyon") /\ lock' = lock
  <2>1. LockStep(t) /\ Goto(t, "copyon")
    BY <1>1, <1>3 DEF LockStep, ReqAt
  <2>2. ReqInv'
    BY <1>1, <1>3, <2>1, GotoReq DEF HotPcs, ReqAt, Starts
  <2> QED BY <1>1, <1>3, <2>1, <2>2, SlotServer DEF ReqAt
<1>4. CASE ~testing' /\ Goto(t, "copyoff") /\ lock' = lock
  <2>1. LockStep(t) /\ Goto(t, "copyoff")
    BY <1>1, <1>4 DEF LockStep, ReqAt
  <2>2. ReqInv'
    BY <1>1, <1>4, <2>1, GotoReq DEF HotPcs, ReqAt, Starts
  <2> QED BY <1>1, <1>4, <2>1, <2>2, SlotServer DEF ReqAt
<1> QED BY <1>2, <1>3, <1>4

LEMMA PinTestCopyServer ==
    ASSUME TypeOK, ServerInv, NEW t \in Slots, PinTestCopy(t)
    PROVE  ServerInv'
<1> USE DEF PinTestCopy, At, session
<1>1. ReqAt(t) /\ t \in UnderWay /\ ReqInv
  BY DEF ServerInv, ReqInv, UnderWay
<1>2. Answer(t) /\ LockStep(t)
  BY <1>1 DEF LockStep, ReqAt
<1>3. ReqInv' /\ UnderWay' = UnderWay \ {t}
  BY <1>1, <1>2, AnswerReq
<1> QED BY <1>1, <1>2, <1>3, SlotServer DEF ReqAt

LEMMA DoctorScanServer ==
    ASSUME TypeOK, ServerInv, NEW t \in Slots, DoctorScan(t)
    PROVE  ServerInv'
<1> USE DEF DoctorScan, At, session
<1>1. ReqAt(t) /\ t \in UnderWay /\ ReqInv
  BY DEF ServerInv, ReqInv, UnderWay
<1>2. CASE Answer(t) /\ lock' = Free
  <2>1. LockStep(t) /\ Answer(t)
    BY <1>1, <1>2 DEF LockStep, ReqAt
  <2>2. ReqInv'
    BY <1>1, <2>1, AnswerReq
  <2> QED BY <1>1, <1>2, <2>1, <2>2, SlotServer DEF ReqAt
<1>3. CASE Goto(t, "off") /\ lock' = lock
  <2>1. LockStep(t) /\ Goto(t, "off")
    BY <1>1, <1>3 DEF LockStep, ReqAt
  <2>2. ReqInv'
    BY <1>1, <1>3, <2>1, GotoReq DEF HotPcs, ReqAt, Starts
  <2> QED BY <1>1, <1>3, <2>1, <2>2, SlotServer DEF ReqAt
<1> QED BY <1>2, <1>3

LEMMA DoctorOffServer ==
    ASSUME TypeOK, ServerInv, NEW t \in Slots, DoctorOff(t)
    PROVE  ServerInv'
<1> USE DEF DoctorOff, At, session
<1>1. ReqAt(t) /\ t \in UnderWay /\ ReqInv
  BY DEF ServerInv, ReqInv, UnderWay
<1>2. Answer(t) /\ LockStep(t)
  BY <1>1 DEF LockStep, ReqAt
<1>3. ReqInv' /\ UnderWay' = UnderWay \ {t}
  BY <1>1, <1>2, AnswerReq
<1> QED BY <1>1, <1>2, <1>3, SlotServer DEF ReqAt

LEMMA CommonServer ==
    ASSUME TypeOK, ServerInv, NEW t \in Slots, Common(t)
    PROVE  ServerInv'
<1> USE DEF Common, At, session
<1>1. t \notin UnderWay /\ ReqInv /\ ReqAt(t)
  BY DEF ServerInv, ReqInv, UnderWay, Idle
<1>2. /\ req'[t] = [Idle EXCEPT !.op = "job", !.pc = "setup", !.drv = drv]
      /\ \A u \in Slots : u # t => req'[u] = req[u]
  BY DEF TypeOK
<1>3. /\ req'[t].op = "job" /\ req'[t].pc = "setup" /\ req'[t].drv = drv
  BY <1>2 DEF Idle
<1>4. UnderWay' = UnderWay
  BY <1>1, <1>2, <1>3 DEF UnderWay
<1>5. ASSUME NEW u \in Slots PROVE ReqAt(u)'
  <2>1. CASE u = t
    BY <1>1, <1>3, <1>4, <2>1 DEF ReqAt
  <2>2. CASE u # t
    BY <1>2, <1>4, <2>2 DEF ServerInv, ReqInv, ReqAt
  <2> QED BY <2>1, <2>2
<1> QED BY <1>4, <1>5, SlotServer DEF ReqInv, Calm, LockStep

LEMMA SetupServer ==
    ASSUME TypeOK, ServerInv, NEW t \in Slots, Setup(t)
    PROVE  ServerInv'
<1> USE DEF Setup, At, session
<1>1. t \notin UnderWay /\ ReqInv /\ ReqAt(t)
  BY DEF ServerInv, ReqInv, UnderWay, Idle
<1>2. CASE Answer(t)
  <2>1. ReqInv' /\ UnderWay' = UnderWay
    BY <1>1, <1>2, AnswerReq DEF LockStep
  <2> QED BY <2>1, SlotServer DEF Calm, LockStep
<1>3. CASE Goto(t, "start")
  <2>1. /\ req'[t].op = req[t].op /\ req'[t].pc = "start" /\ req'[t].drv = req[t].drv
        /\ \A u \in Slots : u # t => req'[u] = req[u]
    BY <1>3, GotoFields
  <2>2. UnderWay' = UnderWay
    BY <1>1, <2>1 DEF UnderWay
  <2>3. ASSUME NEW u \in Slots PROVE ReqAt(u)'
    <3>1. CASE u = t
      BY <1>1, <2>1, <2>2, <3>1 DEF ReqAt
    <3>2. CASE u # t
      BY <2>1, <2>2, <3>2 DEF ServerInv, ReqInv, ReqAt
    <3> QED BY <3>1, <3>2
  <2> QED BY <2>2, <2>3, SlotServer DEF ReqInv, Calm, LockStep
<1> QED BY <1>2, <1>3

LEMMA StartCheckServer ==
    ASSUME TypeOK, ServerInv, NEW t \in Slots, StartCheck(t)
    PROVE  ServerInv'
<1> USE DEF StartCheck, At, session
<1>1. t \notin UnderWay /\ ReqInv /\ ReqAt(t)
  BY DEF ServerInv, ReqInv, UnderWay, Idle
<1>2. CASE Busy /\ Answer(t)
  <2>1. ReqInv' /\ UnderWay' = UnderWay
    BY <1>1, <1>2, AnswerReq DEF LockStep
  <2> QED BY <2>1, SlotServer DEF Calm, LockStep
<1>3. CASE ~Busy /\ GoOn(t, "job", "clear")
  <2>1. req[t].drv # None
    BY <1>1 DEF ReqAt
  <2>2. ReqInv'
    BY <1>1, <1>3, <2>1, GoOnReq
  <2> QED BY <1>3, <2>2, SlotServer DEF LockStep
<1> QED BY <1>2, <1>3

LEMMA ToolCheckServer ==
    ASSUME TypeOK, ServerInv, NEW t \in Slots, ToolCheck(t)
    PROVE  ServerInv'
<1> USE DEF ToolCheck, At, session
<1>1. t \notin UnderWay /\ ReqInv /\ ReqAt(t)
  BY DEF ServerInv, ReqInv, UnderWay, Idle
<1>2. ReqInv'
  BY <1>1, GoOnReq
<1> QED BY <1>2, SlotServer DEF LockStep

LEMMA ClearCancelServer ==
    ASSUME TypeOK, ServerInv, NEW t \in Slots, ClearCancel(t)
    PROVE  ServerInv'
<1> USE DEF ClearCancel, At, session
<1>1. ReqAt(t) /\ t \in UnderWay /\ ReqInv
  BY DEF ServerInv, ReqInv, UnderWay
<1>2. Goto(t, "testoff") /\ LockStep(t)
  BY <1>1 DEF LockStep, ReqAt
<1>3. ReqInv' /\ UnderWay' = UnderWay
  BY <1>1, <1>2, GotoReq DEF HotPcs, ReqAt
<1> QED BY <1>1, <1>2, <1>3, SlotServer DEF ReqAt

LEMMA StartTestOffServer ==
    ASSUME TypeOK, ServerInv, NEW t \in Slots, StartTestOff(t)
    PROVE  ServerInv'
<1> USE DEF StartTestOff, At, session
<1>1. ReqAt(t) /\ t \in UnderWay /\ ReqInv
  BY DEF ServerInv, ReqInv, UnderWay
<1>2. CASE req[t].op = "job" /\ Goto(t, "zero")
  <2>1. LockStep(t) /\ Goto(t, "zero")
    BY <1>1, <1>2 DEF LockStep, ReqAt
  <2>2. ReqInv'
    BY <1>1, <1>2, <2>1, GotoReq DEF HotPcs, ReqAt, Starts
  <2> QED BY <1>1, <1>2, <2>1, <2>2, SlotServer DEF ReqAt
<1>3. CASE Goto(t, "register")
  <2>1. LockStep(t) /\ Goto(t, "register")
    BY <1>1, <1>3 DEF LockStep, ReqAt
  <2>2. ReqInv'
    BY <1>1, <1>3, <2>1, GotoReq DEF HotPcs, ReqAt, Starts
  <2> QED BY <1>1, <1>3, <2>1, <2>2, SlotServer DEF ReqAt
<1> QED BY <1>2, <1>3

LEMMA StartTestZeroServer ==
    ASSUME TypeOK, ServerInv, NEW t \in Slots, StartTestZero(t)
    PROVE  ServerInv'
<1> USE DEF StartTestZero, At, session
<1>1. ReqAt(t) /\ t \in UnderWay /\ ReqInv
  BY DEF ServerInv, ReqInv, UnderWay
<1>2. Goto(t, "register") /\ LockStep(t)
  BY <1>1 DEF LockStep, ReqAt
<1>3. ReqInv' /\ UnderWay' = UnderWay
  BY <1>1, <1>2, GotoReq DEF HotPcs, ReqAt
<1> QED BY <1>1, <1>2, <1>3, SlotServer DEF ReqAt

LEMMA CancelJobServer ==
    ASSUME TypeOK, ServerInv, CancelJob
    PROVE  ServerInv'
<1> USE DEF CancelJob, session, pins, threads
<1>1. ReqInv' /\ AloneInv' /\ RecordInv' /\ ResultInv'
  BY DEF ServerInv, ReqInv, ReqAt, UnderWay, AloneInv, AloneAt, Alive, Running, RecordInv, RecordAt,
         Complete, IsTool, ResultInv, ResultAt
<1>2. ASSUME NEW j \in Jobs
      PROVE  \/ told'[j] = told[j]
             \/ told'[j] = 0 /\ told[j] = NotTold /\ InBody(j)
  BY <1>2 DEF TypeOK
<1>3. 0 # NotTold
  BY Bounds
<1>4. ASSUME NEW j \in Jobs PROVE JobAtAll(j)' /\ ToldAt(j)'
  BY <1>2, <1>3, <1>4 DEF ServerInv, JobInv, JobAtAll, ToldInv, ToldAt, InBody, IsTool
<1> QED BY <1>1, <1>4 DEF ServerInv, JobInv, ToldInv

(* The next job is registered.  If it starts alone, its handler was the only   *)
(* one under way and no other thread has work left.                             *)
LEMMA RegisterFields ==
    ASSUME TypeOK, ServerInv, NEW t \in Slots, Register(t)
    PROVE  \E k \in Jobs :
             /\ k = started + 1 /\ k > started /\ job' = k /\ started' = k
             /\ jobs'[k].state = "running" /\ jobs'[k].pc = "wait" /\ ~jobs'[k].download
             /\ jobs'[k].work = 0
             /\ jobs'[k].drv = IF req[t].op = "job" THEN req[t].drv ELSE None
             /\ jobs'[k].alone <=> ~req[t].raced /\ \A i \in Jobs : ~Alive(i)
             /\ told[k] = NotTold
             /\ \A i \in Jobs : i # k =>
                  /\ jobs'[i].alone = jobs[i].alone /\ jobs'[i].pc = jobs[i].pc
                  /\ Alive(i) => jobs'[i] = jobs[i]
                  /\ ~Alive(i) => jobs'[i] = Forgotten(i)
<1>1. PICK k \in Jobs : k = started + 1 /\ k > started
  BY Parts, NextJob DEF SharedType, Register
<1>2. PICK file \in BOOLEAN :
        jobs' = [j \in Jobs |->
                    IF j = started + 1
                    THEN [NoJob EXCEPT !.state = "running", !.pc = "wait", !.file = file,
                            !.drv = IF req[t].op = "job" THEN req[t].drv ELSE None,
                            !.alone = ~req[t].raced /\ \A i \in Jobs : ~Alive(i)]
                    ELSE IF Alive(j) THEN jobs[j] ELSE Forgotten(j)]
  BY DEF Register
<1> DEFINE alone == ~req[t].raced /\ \A i \in Jobs : ~Alive(i)
           of == IF req[t].op = "job" THEN req[t].drv ELSE None
<1>3. jobs'[k] = [NoJob EXCEPT !.state = "running", !.pc = "wait", !.file = file, !.drv = of,
                               !.alone = alone]
  BY <1>1, <1>2
<1>4. /\ jobs'[k].state = "running" /\ jobs'[k].pc = "wait" /\ ~jobs'[k].download
      /\ jobs'[k].work = 0 /\ jobs'[k].drv = of /\ jobs'[k].alone = alone
  <2> HIDE DEF alone, of
  <2> QED BY <1>3 DEF NoJob
<1>5. ASSUME NEW i \in Jobs, i # k
      PROVE  /\ jobs'[i].alone = jobs[i].alone /\ jobs'[i].pc = jobs[i].pc
             /\ Alive(i) => jobs'[i] = jobs[i]
             /\ ~Alive(i) => jobs'[i] = Forgotten(i)
  <2>1. jobs'[i] = IF Alive(i) THEN jobs[i] ELSE Forgotten(i)
    BY <1>1, <1>2, <1>5
  <2>2. Forgotten(i).alone = jobs[i].alone /\ Forgotten(i).pc = jobs[i].pc
    <3> DEFINE a == jobs[i].alone
    <3>1. Forgotten(i) = [NoJob EXCEPT !.pc = jobs[i].pc, !.alone = a]
      BY DEF Forgotten
    <3> HIDE DEF a
    <3>2. Forgotten(i).alone = a /\ Forgotten(i).pc = jobs[i].pc
      BY <3>1 DEF NoJob
    <3> QED BY <3>2 DEF a
  <2> QED BY <2>1, <2>2
<1>6. told[k] = NotTold
  BY <1>1 DEF ServerInv, JobInv, JobAtAll, NoJob
<1>7. job' = k /\ started' = k
  BY <1>1 DEF Register
<1> QED BY <1>1, <1>4, <1>5, <1>6, <1>7

LEMMA ForgottenFields ==
    ASSUME NEW j \in Jobs
    PROVE  Forgotten(j).state = "none" /\ Forgotten(j).pc = jobs[j].pc
           /\ Forgotten(j).alone = jobs[j].alone /\ ~Forgotten(j).download
<1> DEFINE a == jobs[j].alone
<1>1. Forgotten(j) = [NoJob EXCEPT !.pc = jobs[j].pc, !.alone = a]
  BY DEF Forgotten
<1> HIDE DEF a
<1>2. Forgotten(j).state = "none" /\ Forgotten(j).pc = jobs[j].pc /\ Forgotten(j).alone = a
      /\ Forgotten(j).download = FALSE
  BY <1>1 DEF NoJob
<1> QED BY <1>2 DEF a

LEMMA RegisterServer ==
    ASSUME TypeOK, ServerInv, NEW t \in Slots, Register(t)
    PROVE  ServerInv'
<1>1. PICK k \in Jobs :
             /\ k = started + 1 /\ k > started /\ job' = k /\ started' = k
             /\ jobs'[k].state = "running" /\ jobs'[k].pc = "wait" /\ ~jobs'[k].download
             /\ jobs'[k].work = 0
             /\ jobs'[k].alone <=> ~req[t].raced /\ \A i \in Jobs : ~Alive(i)
             /\ told[k] = NotTold
             /\ \A i \in Jobs : i # k =>
                  /\ jobs'[i].alone = jobs[i].alone /\ jobs'[i].pc = jobs[i].pc
                  /\ Alive(i) => jobs'[i] = jobs[i]
                  /\ ~Alive(i) => jobs'[i] = Forgotten(i)
  BY RegisterFields
<1>2. /\ req[t].pc = "register" /\ Answer(t) /\ lock' = lock /\ dev' = dev /\ cancel' = cancel
      /\ told' = told /\ result' = result /\ history' = history
  BY DEF Register, At, session
<1>3. t \in UnderWay /\ req[t].op \in Starts
  BY <1>2 DEF ServerInv, ReqInv, ReqAt, UnderWay
<1>4. ReqInv' /\ UnderWay' = UnderWay \ {t}
  BY <1>2, AnswerReq DEF ServerInv, LockStep
<1>5. \A i \in Jobs : jobs[i].alone => ~Alive(i)
  BY <1>3 DEF ServerInv, AloneInv, AloneAt
<1>6. ASSUME NEW i \in Jobs, i # k PROVE jobs'[i].alone => ~Alive(i)' /\ jobs'[i] = Forgotten(i)
  BY <1>1, <1>5, <1>6 DEF Alive
<1>7. jobs'[k].alone => UnderWay' = {} /\ \A i \in Jobs \ {k} : ~Alive(i)'
  <2>1. ASSUME jobs'[k].alone PROVE UnderWay = {t}
    BY <1>1, <1>3, <2>1 DEF ServerInv, ReqInv, ReqAt
  <2> QED BY <1>1, <1>4, <2>1 DEF Alive
<1>8. ASSUME NEW i \in Jobs PROVE JobAtAll(i)'
  <2>1. CASE i = k
    <3>1. ~(k > started')
      <4>1. k \in Nat
        BY Bounds
      <4> QED BY <1>1, <4>1
    <3>2. jobs'[k].state = "running" /\ jobs'[k].pc = "wait" /\ jobs'[k].work = 0
      BY <1>1
    <3> QED BY <2>1, <3>1, <3>2 DEF JobAtAll, Finals
  <2>2. CASE i # k /\ Alive(i)
    <3>1. jobs'[i] = jobs[i] /\ JobAtAll(i)
      BY <1>1, <2>2 DEF ServerInv, JobInv
    <3>2. ~(i > started)
      BY <2>2, <3>1 DEF JobAtAll, Alive, NoJob
    <3>3. ~(i > started')
      <4>1. i \in Nat /\ started \in Nat /\ k \in Nat
        BY Bounds, Parts DEF SharedType
      <4> QED BY <1>1, <3>2, <4>1
    <3>4. jobs[i].state \notin Finals
      <4>1. jobs[i].pc \notin {"none", "gone", "dead"}
        BY <2>2 DEF Alive
      <4> QED BY <4>1, <3>1 DEF JobAtAll
    <3> QED BY <1>1, <1>2, <3>1, <3>3, <3>4 DEF JobAtAll, IsTool
  <2>3. CASE i # k /\ ~Alive(i)
    <3>1. jobs'[i] = Forgotten(i) /\ JobAtAll(i)
      BY <1>1, <2>3 DEF ServerInv, JobInv
    <3>2. jobs'[i].state = "none" /\ jobs'[i].pc = jobs[i].pc /\ jobs'[i].alone = jobs[i].alone
      BY <3>1, ForgottenFields
    <3>3. jobs[i].pc \in {"none", "gone", "dead"}
      BY <2>3 DEF Alive
    <3>4. i > started' => jobs'[i] = NoJob
      <4>1. ASSUME i > started' PROVE i > started
        <5>1. i \in Nat /\ started \in Nat /\ k \in Nat
          BY Bounds, Parts DEF SharedType
        <5> QED BY <1>1, <4>1, <5>1
      <4>2. jobs[i] = NoJob => Forgotten(i) = NoJob
        BY DEF Forgotten, NoJob
      <4> QED BY <3>1, <4>1, <4>2 DEF JobAtAll
    <3> QED BY <1>1, <1>2, <2>3, <3>1, <3>2, <3>3, <3>4 DEF JobAtAll, Finals
  <2> QED BY <2>1, <2>2, <2>3
<1>9. ASSUME NEW i \in Jobs PROVE AloneAt(i)' /\ RecordAt(i)' /\ ResultAt(i)' /\ ToldAt(i)'
  <2>1. CASE i = k
    <3>1. AloneAt(i)'
      BY <1>1, <1>7, <2>1 DEF AloneAt, Running
    <3>2. RecordAt(i)' /\ ResultAt(i)'
      BY <1>1, <2>1 DEF RecordAt, ResultAt, Finals
    <3>3. ToldAt(i)'
      BY <1>1, <1>2, <2>1 DEF ToldAt
    <3> QED BY <3>1, <3>2, <3>3
  <2>2. CASE i # k
    <3>1. AloneAt(i)' /\ ResultAt(i)'
      BY <1>1, <1>6, <2>2 DEF AloneAt, ResultAt
    <3>2. jobs'[i].alone => jobs'[i].state = "none" /\ jobs'[i].pc \in {"none", "gone", "dead"}
      BY <1>1, <1>6, <2>2, ForgottenFields DEF Alive
    <3>3. RecordAt(i)'
      BY <3>2 DEF RecordAt, Finals
    <3>4. ToldAt(i)'
      BY <1>1, <1>2, <2>2, <3>2 DEF ServerInv, ToldInv, ToldAt, InBody
    <3> QED BY <3>1, <3>3, <3>4
  <2> QED BY <2>1, <2>2
<1> QED BY <1>4, <1>8, <1>9 DEF ServerInv, JobInv, AloneInv, RecordInv, ResultInv, ToldInv

(* The thread of a job.  It changes its own record, and of those of the others  *)
(* at most the link of the job that is shown.                                    *)

Others(j) ==
    \A i \in Jobs : i # j =>
      /\ i # job => jobs'[i] = jobs[i]
      /\ jobs'[i].state = jobs[i].state /\ jobs'[i].pc = jobs[i].pc /\ jobs'[i].drv = jobs[i].drv
      /\ jobs'[i].work = jobs[i].work /\ jobs'[i].alone = jobs[i].alone
      /\ told'[i] = told[i]

JobLockStep(j) == lock' = lock \/ lock = Free \/ lock = Job(j)

LEMMA JobStep ==
    ASSUME TypeOK, ServerInv, NEW j \in Jobs, Alive(j), Others(j), JobLockStep(j),
           UNCHANGED << dev, job, started, cancel, req >>,
           jobs'[j].alone = jobs[j].alone, JobAtAll(j)',
           jobs[j].alone =>
             (Alive(j)' => Running(j)') /\ RecordAt(j)' /\ ResultAt(j)' /\ ToldAt(j)'
    PROVE  ServerInv'
<1>1. UnderWay' = UnderWay
  BY DEF UnderWay
<1>2. ReqInv'
  <2>1. ASSUME NEW t \in Slots PROVE lock = Slot(t) => lock' = Slot(t)
    BY Threads DEF JobLockStep
  <2> QED BY <1>1, <2>1 DEF ServerInv, ReqInv, ReqAt
<1>3. ASSUME NEW i \in Jobs, i # j PROVE JobAtAll(i)'
  <2>1. lock = Job(i) => lock' = Job(i)
    BY <1>3, Threads DEF JobLockStep
  <2>2. JobAtAll(i) /\ (i > started => jobs'[i] = jobs[i])
    BY <1>3 DEF ServerInv, JobInv, JobAtAll, Others
  <2>3. /\ jobs'[i].state = jobs[i].state /\ jobs'[i].pc = jobs[i].pc /\ jobs'[i].drv = jobs[i].drv
        /\ jobs'[i].work = jobs[i].work /\ jobs'[i].alone = jobs[i].alone /\ told'[i] = told[i]
    BY <1>3 DEF Others
  <2> QED BY <2>1, <2>2, <2>3 DEF JobAtAll, IsTool
<1>4. ASSUME NEW i \in Jobs, i # j, jobs[i].alone PROVE i # job /\ ~Alive(i)
  BY <1>4 DEF ServerInv, AloneInv, AloneAt
<1>5. ASSUME NEW i \in Jobs, i # j
      PROVE  AloneAt(i)' /\ RecordAt(i)' /\ ResultAt(i)' /\ ToldAt(i)'
  <2>1. jobs'[i].pc = jobs[i].pc /\ jobs'[i].alone = jobs[i].alone /\ told'[i] = told[i]
        /\ jobs'[i].state = jobs[i].state
    BY <1>5 DEF Others
  <2>2. CASE ~jobs[i].alone
    BY <2>1, <2>2 DEF AloneAt, RecordAt, ResultAt, ToldAt
  <2>3. CASE jobs[i].alone
    <3>1. i # job /\ ~Alive(i) /\ jobs[i].state \notin Finals
      BY <1>4, <1>5, <2>3 DEF ServerInv, JobInv, JobAtAll
    <3>2. jobs[i].pc = "none" \/ jobs[i].pc = "gone" \/ jobs[i].pc = "dead"
      BY <3>1 DEF Alive
    <3>3. AloneAt(i)' /\ ResultAt(i)'
      BY <2>1, <3>1 DEF AloneAt, ResultAt, Alive
    <3>4. RecordAt(i)'
      BY <2>1, <3>1, <3>2 DEF RecordAt
    <3>5. ToldAt(i)'
      BY <2>1, <3>2 DEF ServerInv, ToldInv, ToldAt, InBody
    <3> QED BY <3>3, <3>4, <3>5
  <2> QED BY <2>2, <2>3
<1>6. AloneAt(j)'
  <2>1. CASE ~jobs[j].alone
    BY <2>1 DEF AloneAt
  <2>2. CASE jobs[j].alone
    <3>1. job = j /\ UnderWay = {} /\ \A i \in Jobs \ {j} : ~Alive(i)
      BY <2>2 DEF ServerInv, AloneInv, AloneAt
    <3>2. \A i \in Jobs \ {j} : ~Alive(i)'
      BY <3>1 DEF Others, Alive
    <3> QED BY <1>1, <2>2, <3>1, <3>2 DEF AloneAt
  <2> QED BY <2>1, <2>2
<1>7. RecordAt(j)' /\ ResultAt(j)' /\ ToldAt(j)'
  BY DEF RecordAt, ResultAt, ToldAt
<1> QED BY <1>2, <1>3, <1>5, <1>6, <1>7
        DEF ServerInv, JobInv, AloneInv, RecordInv, ResultInv, ToldInv

(* What holds of the job whose thread makes a step. *)
LEMMA Before ==
    ASSUME ServerInv, NEW j \in Jobs, Alive(j)
    PROVE  /\ JobAtAll(j)
           /\ jobs[j].alone =>
                job = j /\ Running(j) /\ RecordAt(j) /\ ResultAt(j) /\ ToldAt(j)
           /\ jobs[j].state \notin Finals /\ ~(j > started)
<1>1. JobAtAll(j) /\ AloneAt(j) /\ RecordAt(j) /\ ResultAt(j) /\ ToldAt(j)
  BY DEF ServerInv, JobInv, AloneInv, RecordInv, ResultInv, ToldInv
<1>2. ~(j > started) /\ jobs[j].state \notin Finals
  BY <1>1 DEF JobAtAll, Alive, NoJob
<1> QED BY <1>1, <1>2 DEF AloneAt

\* What a step leaves of the record of its job: all but pc, end and work.
Kept(j) ==
    /\ jobs'[j].state = jobs[j].state /\ jobs'[j].drv = jobs[j].drv
    /\ jobs'[j].file = jobs[j].file /\ jobs'[j].alone = jobs[j].alone
    /\ jobs'[j].report = jobs[j].report /\ jobs'[j].download = jobs[j].download

LEMMA JobGotoFields ==
    ASSUME TypeOK, NEW j \in Jobs, NEW pc, JobGoto(j, pc)
    PROVE  /\ \A i \in Jobs : i # j => jobs'[i] = jobs[i]
           /\ Kept(j) /\ jobs'[j].pc = pc /\ jobs'[j].end = jobs[j].end
           /\ jobs'[j].work = jobs[j].work
BY DEF TypeOK, JobGoto, Kept

LEMMA BodyEndsFields ==
    ASSUME TypeOK, NEW j \in Jobs, NEW pc, NEW end, BodyEnds(j, end, pc)
    PROVE  /\ \A i \in Jobs : i # j => jobs'[i] = jobs[i]
           /\ Kept(j) /\ jobs'[j].pc = pc /\ jobs'[j].end = end
           /\ jobs'[j].work = jobs[j].work /\ lock' = Free
BY DEF TypeOK, BodyEnds, Kept

LEMMA WorkedFields ==
    ASSUME TypeOK, ServerInv, NEW j \in Jobs, jobs[j].pc = "work", Worked(j)
    PROVE  /\ \A i \in Jobs : i # j => told'[i] = told[i]
           /\ jobs[j].alone /\ told'[j] # NotTold => cancel /\ told'[j] = 1
<1>1. jobs[j].alone /\ told[j] # NotTold => told[j] = 0 /\ cancel
  BY DEF ServerInv, ToldInv, ToldAt, InBody
<1> QED BY <1>1, Bounds DEF TypeOK, Worked

LEMMA JobLockServer ==
    ASSUME TypeOK, ServerInv, NEW j \in Jobs, JobLock(j)
    PROVE  ServerInv'
<1> USE DEF JobLock, JobAt, session, pins, threads
<1>1. Alive(j)
  BY DEF Alive
<1>2. JobAtAll(j) /\ jobs[j].state \notin Finals /\ ~(j > started)
  BY <1>1, Before
<1>3. /\ \A i \in Jobs : i # j => jobs'[i] = jobs[i] /\ told'[i] = told[i]
      /\ Kept(j) /\ jobs'[j].end = jobs[j].end /\ jobs'[j].work = jobs[j].work
      /\ jobs'[j].pc = IF IsTool(j) THEN "work" ELSE "check"
      /\ told'[j] = told[j] /\ lock' = Job(j) /\ jobs[j].pc = "wait" /\ lock = Free
      /\ jobs'[j].work = 0
  BY <1>2, JobGotoFields DEF JobAtAll
<1>4. Others(j) /\ JobLockStep(j)
  BY <1>1, <1>2, <1>3 DEF Others, JobLockStep, JobAtAll
<1>5. JobAtAll(j)'
  BY <1>2, <1>3 DEF JobAtAll, IsTool, Kept, Finals
<1>6. ASSUME jobs[j].alone
      PROVE  (Alive(j)' => Running(j)') /\ RecordAt(j)' /\ ResultAt(j)' /\ ToldAt(j)'
  <2>1. job = j /\ Running(j) /\ RecordAt(j) /\ ResultAt(j) /\ ToldAt(j)
    BY <1>1, <1>6, Before
  <2>2. Alive(j)' => Running(j)'
    BY <1>3, <2>1 DEF Running, Kept, Alive
  <2>3. RecordAt(j)'
    BY <1>3, <1>6, <2>1, <2>2 DEF RecordAt, Running, IsTool, Kept, Complete, Finals
  <2>4. ResultAt(j)'
    BY <1>3, <1>6, <2>1 DEF RecordAt, ResultAt, Kept
  <2>5. ToldAt(j)'
    BY <1>3, <1>6, <2>1 DEF ToldAt, InBody, Kept
  <2> QED BY <2>2, <2>3, <2>4, <2>5
<1> QED BY <1>1, <1>3, <1>4, <1>5, <1>6, JobStep DEF Kept

LEMMA JobCheckServer ==
    ASSUME TypeOK, ServerInv, NEW j \in Jobs, JobCheck(j)
    PROVE  ServerInv'
<1> USE DEF JobCheck, JobAt, session, pins, threads
<1>1. Alive(j)
  BY DEF Alive
<1>2. JobAtAll(j) /\ jobs[j].state \notin Finals /\ ~(j > started)
  BY <1>1, Before
<1>3. /\ \A i \in Jobs : i # j => jobs'[i] = jobs[i] /\ told'[i] = told[i]
      /\ Kept(j) /\ jobs'[j].work = jobs[j].work
      /\ \/ /\ cancel /\ jobs'[j].pc \in {"tail", "record"}
             /\ jobs'[j].end = "cancelled" /\ lock' = Free
         \/ ~cancel /\ jobs'[j].pc = "work" /\ jobs'[j].end = jobs[j].end /\ lock' = lock
      /\ told'[j] = told[j] /\ jobs[j].pc = "check" /\ lock = Job(j)
  BY <1>2, JobGotoFields, BodyEndsFields DEF JobAtAll
<1>4. Others(j) /\ JobLockStep(j)
  BY <1>1, <1>2, <1>3 DEF Others, JobLockStep, JobAtAll
<1>5. JobAtAll(j)'
  BY <1>2, <1>3 DEF JobAtAll, IsTool, Kept, Finals
<1>6. ASSUME jobs[j].alone
      PROVE  (Alive(j)' => Running(j)') /\ RecordAt(j)' /\ ResultAt(j)' /\ ToldAt(j)'
  <2>1. job = j /\ Running(j) /\ RecordAt(j) /\ ResultAt(j) /\ ToldAt(j)
    BY <1>1, <1>6, Before
  <2>2. Alive(j)' => Running(j)'
    BY <1>3, <2>1 DEF Running, Kept, Alive
  <2>3. RecordAt(j)'
    BY <1>3, <1>6, <2>1, <2>2 DEF RecordAt, Running, IsTool, Kept, Complete, Finals
  <2>4. ResultAt(j)'
    BY <1>3, <1>6, <2>1 DEF RecordAt, ResultAt, Kept
  <2>5. ToldAt(j)'
    BY <1>3, <1>6, <2>1 DEF ToldAt, InBody, Kept
  <2> QED BY <2>2, <2>3, <2>4, <2>5
<1> QED BY <1>1, <1>3, <1>4, <1>5, <1>6, JobStep DEF Kept

LEMMA JobTailServer ==
    ASSUME TypeOK, ServerInv, NEW j \in Jobs, JobTail(j)
    PROVE  ServerInv'
<1> USE DEF JobTail, JobAt, session, pins, threads
<1>1. Alive(j)
  BY DEF Alive
<1>2. JobAtAll(j) /\ jobs[j].state \notin Finals /\ ~(j > started)
  BY <1>1, Before
<1>3. /\ \A i \in Jobs : i # j => jobs'[i] = jobs[i] /\ told'[i] = told[i]
      /\ Kept(j) /\ jobs'[j].end = jobs[j].end /\ jobs'[j].work = jobs[j].work
      /\ jobs'[j].pc = "record" /\ jobs[j].pc = "tail" /\ told'[j] = told[j] /\ lock' = lock
  BY JobGotoFields
<1>4. Others(j) /\ JobLockStep(j)
  BY <1>1, <1>2, <1>3 DEF Others, JobLockStep, JobAtAll
<1>5. JobAtAll(j)'
  BY <1>2, <1>3 DEF JobAtAll, IsTool, Kept, Finals
<1>6. ASSUME jobs[j].alone
      PROVE  (Alive(j)' => Running(j)') /\ RecordAt(j)' /\ ResultAt(j)' /\ ToldAt(j)'
  <2>1. job = j /\ Running(j) /\ RecordAt(j) /\ ResultAt(j) /\ ToldAt(j)
    BY <1>1, <1>6, Before
  <2>2. Alive(j)' => Running(j)'
    BY <1>3, <2>1 DEF Running, Kept, Alive
  <2>3. RecordAt(j)'
    BY <1>3, <1>6, <2>1, <2>2 DEF RecordAt, Running, IsTool, Kept, Complete, Finals
  <2>4. ResultAt(j)'
    BY <1>3, <1>6, <2>1 DEF RecordAt, ResultAt, Kept
  <2>5. ToldAt(j)'
    BY <1>3, <1>6, <2>1 DEF ToldAt, InBody, Kept
  <2> QED BY <2>2, <2>3, <2>4, <2>5
<1> QED BY <1>1, <1>3, <1>4, <1>5, <1>6, JobStep DEF Kept

LEMMA JobReportServer ==
    ASSUME TypeOK, ServerInv, NEW j \in Jobs, JobReport(j)
    PROVE  ServerInv'
<1> USE DEF JobReport, JobAt, session, pins, threads
<1>1. Alive(j)
  BY DEF Alive
<1>2. JobAtAll(j) /\ jobs[j].state \notin Finals /\ ~(j > started)
  BY <1>1, Before
<1>3. /\ \A i \in Jobs : i # j => jobs'[i] = jobs[i] /\ told'[i] = told[i]
      /\ jobs'[j].state = jobs[j].state /\ jobs'[j].drv = jobs[j].drv
      /\ jobs'[j].file = jobs[j].file /\ jobs'[j].alone = jobs[j].alone
      /\ jobs'[j].report = TRUE /\ jobs'[j].download = jobs[j].download
      /\ jobs'[j].end = jobs[j].end /\ jobs'[j].work = jobs[j].work
      /\ jobs'[j].pc = IF ~IsTool(j) /\ jobs[j].file /\ jobs[j].end = "done" THEN "path" ELSE "record"
      /\ jobs[j].pc = "report" /\ told'[j] = told[j] /\ lock' = lock /\ result' = result
  BY DEF TypeOK
<1>4. Others(j) /\ JobLockStep(j)
  BY <1>1, <1>2, <1>3 DEF Others, JobLockStep, JobAtAll
<1>5. JobAtAll(j)'
  BY <1>2, <1>3 DEF JobAtAll, IsTool, Kept, Finals
<1>6. ASSUME jobs[j].alone
      PROVE  (Alive(j)' => Running(j)') /\ RecordAt(j)' /\ ResultAt(j)' /\ ToldAt(j)'
  <2>1. job = j /\ Running(j) /\ RecordAt(j) /\ ResultAt(j) /\ ToldAt(j)
    BY <1>1, <1>6, Before
  <2>2. Alive(j)' => Running(j)'
    BY <1>3, <2>1 DEF Running, Kept, Alive
  <2>3. RecordAt(j)'
    BY <1>3, <1>6, <2>1, <2>2 DEF RecordAt, Running, IsTool, Kept, Complete, Finals
  <2>4. ResultAt(j)'
    BY <1>3, <1>6, <2>1 DEF RecordAt, ResultAt, Kept
  <2>5. ToldAt(j)'
    BY <1>3, <1>6, <2>1 DEF ToldAt, InBody, Kept
  <2> QED BY <2>2, <2>3, <2>4, <2>5
<1> QED BY <1>1, <1>3, <1>4, <1>5, <1>6, JobStep DEF Kept

LEMMA ResultPathServer ==
    ASSUME TypeOK, ServerInv, NEW j \in Jobs, ResultPath(j)
    PROVE  ServerInv'
<1> USE DEF ResultPath, JobAt, session, pins, threads
<1>1. Alive(j)
  BY DEF Alive
<1>2. JobAtAll(j) /\ jobs[j].state \notin Finals /\ ~(j > started)
  BY <1>1, Before
<1>3. /\ \A i \in Jobs : i # j => jobs'[i] = jobs[i] /\ told'[i] = told[i]
      /\ Kept(j) /\ jobs'[j].end = jobs[j].end /\ jobs'[j].work = jobs[j].work
      /\ jobs'[j].pc = "meta" /\ jobs[j].pc = "path" /\ told'[j] = told[j] /\ lock' = lock
      /\ result'.path = j
  BY JobGotoFields DEF TypeOK
<1>4. Others(j) /\ JobLockStep(j)
  BY <1>1, <1>2, <1>3 DEF Others, JobLockStep, JobAtAll
<1>5. JobAtAll(j)'
  BY <1>2, <1>3 DEF JobAtAll, IsTool, Kept, Finals
<1>6. ASSUME jobs[j].alone
      PROVE  (Alive(j)' => Running(j)') /\ RecordAt(j)' /\ ResultAt(j)' /\ ToldAt(j)'
  <2>1. job = j /\ Running(j) /\ RecordAt(j) /\ ResultAt(j) /\ ToldAt(j)
    BY <1>1, <1>6, Before
  <2>2. Alive(j)' => Running(j)'
    BY <1>3, <2>1 DEF Running, Kept, Alive
  <2>3. RecordAt(j)'
    BY <1>3, <1>6, <2>1, <2>2 DEF RecordAt, Running, IsTool, Kept, Complete, Finals
  <2>4. ResultAt(j)'
    BY <1>3, <1>6, <2>1 DEF RecordAt, ResultAt, Kept
  <2>5. ToldAt(j)'
    BY <1>3, <1>6, <2>1 DEF ToldAt, InBody, Kept
  <2> QED BY <2>2, <2>3, <2>4, <2>5
<1> QED BY <1>1, <1>3, <1>4, <1>5, <1>6, JobStep DEF Kept

LEMMA ResultMetaServer ==
    ASSUME TypeOK, ServerInv, NEW j \in Jobs, ResultMeta(j)
    PROVE  ServerInv'
<1> USE DEF ResultMeta, JobAt, session, pins, threads
<1>1. Alive(j)
  BY DEF Alive
<1>2. JobAtAll(j) /\ jobs[j].state \notin Finals /\ ~(j > started)
  BY <1>1, Before
<1>3. /\ \A i \in Jobs : i # j => jobs'[i] = jobs[i] /\ told'[i] = told[i]
      /\ Kept(j) /\ jobs'[j].end = jobs[j].end /\ jobs'[j].work = jobs[j].work
      /\ jobs'[j].pc = "link" /\ jobs[j].pc = "meta" /\ told'[j] = told[j] /\ lock' = lock
      /\ result'.path = result.path /\ result'.meta = j
  BY JobGotoFields DEF TypeOK
<1>4. Others(j) /\ JobLockStep(j)
  BY <1>1, <1>2, <1>3 DEF Others, JobLockStep, JobAtAll
<1>5. JobAtAll(j)'
  BY <1>2, <1>3 DEF JobAtAll, IsTool, Kept, Finals
<1>6. ASSUME jobs[j].alone
      PROVE  (Alive(j)' => Running(j)') /\ RecordAt(j)' /\ ResultAt(j)' /\ ToldAt(j)'
  <2>1. job = j /\ Running(j) /\ RecordAt(j) /\ ResultAt(j) /\ ToldAt(j)
    BY <1>1, <1>6, Before
  <2>2. Alive(j)' => Running(j)'
    BY <1>3, <2>1 DEF Running, Kept, Alive
  <2>3. RecordAt(j)'
    BY <1>3, <1>6, <2>1, <2>2 DEF RecordAt, Running, IsTool, Kept, Complete, Finals
  <2>4. ResultAt(j)'
    BY <1>3, <1>6, <2>1 DEF RecordAt, ResultAt, Kept
  <2>5. ToldAt(j)'
    BY <1>3, <1>6, <2>1 DEF ToldAt, InBody, Kept
  <2> QED BY <2>2, <2>3, <2>4, <2>5
<1> QED BY <1>1, <1>3, <1>4, <1>5, <1>6, JobStep DEF Kept

LEMMA JobWorkServer ==
    ASSUME TypeOK, ServerInv, NEW j \in Jobs, JobWork(j)
    PROVE  ServerInv'
<1> USE DEF JobWork, JobAt, session, pins, threads
<1>1. Alive(j)
  BY DEF Alive
<1>2. JobAtAll(j) /\ jobs[j].state \notin Finals /\ ~(j > started)
  BY <1>1, Before
<1>3. /\ \A i \in Jobs : i # j => jobs'[i] = jobs[i] /\ told'[i] = told[i]
      /\ Kept(j)
      /\ jobs[j].pc = "work" /\ lock = Job(j) /\ ~IsTool(j) /\ dev' = dev
      /\ \/ (jobs'[j].pc = "report" /\ jobs'[j].end \in {"done", "failed"} /\ lock' = Free)
         \/ (jobs'[j].pc = "record" /\ jobs'[j].end = "raised" /\ lock' = Free)
         \/ (jobs'[j].pc = "check" /\ lock' = lock /\ jobs[j].drv = dev)
      /\ jobs[j].alone /\ told'[j] # NotTold =>
           (told'[j] = told[j] /\ jobs'[j].pc = "record") \/ (cancel /\ told'[j] = 1)
  <2>1. jobs[j].pc = "work" /\ lock = Job(j) /\ ~IsTool(j) /\ dev' = dev
    BY <1>2 DEF JobAtAll
  <2>2. CASE BodyEnds(j, "raised", "record") /\ UNCHANGED told
    BY <2>1, <2>2, BodyEndsFields
  <2>3. CASE Worked(j) /\ BodyEnds(j, "raised", "record")
    BY <2>1, <2>3, BodyEndsFields, WorkedFields
  <2>4. CASE Worked(j) /\ BodyEnds(j, "done", "report")
    BY <2>1, <2>4, BodyEndsFields, WorkedFields
  <2>5. CASE Worked(j) /\ BodyEnds(j, "failed", "report")
    BY <2>1, <2>5, BodyEndsFields, WorkedFields
  <2>6. CASE /\ jobs[j].drv = dev /\ Worked(j) /\ lock' = lock
             /\ jobs' = [jobs EXCEPT ![j].pc = "check", ![j].work = @ + 1]
    <3>1. /\ \A i \in Jobs : i # j => jobs'[i] = jobs[i]
          /\ Kept(j) /\ jobs'[j].pc = "check" /\ jobs'[j].end = jobs[j].end
      BY <2>6 DEF TypeOK, Kept
    <3> QED BY <2>1, <2>6, <3>1, WorkedFields
  <2> QED BY <2>1, <2>2, <2>3, <2>4, <2>5, <2>6
<1>4. Others(j) /\ JobLockStep(j)
  BY <1>1, <1>2, <1>3 DEF Others, JobLockStep, JobAtAll
<1>5. JobAtAll(j)'
  BY <1>2, <1>3 DEF JobAtAll, IsTool, Kept, Finals
<1>6. ASSUME jobs[j].alone
      PROVE  (Alive(j)' => Running(j)') /\ RecordAt(j)' /\ ResultAt(j)' /\ ToldAt(j)'
  <2>1. job = j /\ Running(j) /\ RecordAt(j) /\ ResultAt(j) /\ ToldAt(j)
    BY <1>1, <1>6, Before
  <2>2. Alive(j)' => Running(j)'
    BY <1>3, <2>1 DEF Running, Kept, Alive
  <2>3. RecordAt(j)'
    BY <1>3, <1>6, <2>1, <2>2 DEF RecordAt, Running, IsTool, Kept, Complete, Finals
  <2>4. ResultAt(j)'
    BY <1>3, <1>6, <2>1 DEF RecordAt, ResultAt, Kept
  <2>5. ToldAt(j)'
    BY <1>3, <1>6, <2>1 DEF ToldAt, InBody, Kept
  <2> QED BY <2>2, <2>3, <2>4, <2>5
<1> QED BY <1>1, <1>3, <1>4, <1>5, <1>6, JobStep DEF Kept

LEMMA ToolWorkServer ==
    ASSUME TypeOK, ServerInv, NEW j \in Jobs, ToolWork(j)
    PROVE  ServerInv'
<1> USE DEF ToolWork, JobAt, session, pins, threads
<1>1. Alive(j)
  BY DEF Alive
<1>2. JobAtAll(j) /\ jobs[j].state \notin Finals /\ ~(j > started)
  BY <1>1, Before
<1>3. /\ \A i \in Jobs : i # j => jobs'[i] = jobs[i] /\ told'[i] = told[i]
      /\ Kept(j)
      /\ jobs[j].pc = "work" /\ lock = Job(j) /\ IsTool(j)
      /\ \/ (jobs'[j].pc = "report" /\ jobs'[j].end = "failed" /\ lock' = Free)
         \/ (jobs'[j].pc = "report" /\ jobs'[j].end = "done" /\ ~jobs[j].file /\ lock' = Free)
         \/ (jobs'[j].pc = "record" /\ jobs'[j].end = "raised" /\ lock' = Free)
         \/ (jobs'[j].pc = "path" /\ lock' = lock)
      /\ jobs[j].alone /\ told'[j] # NotTold => cancel /\ told'[j] = 1
  <2>1. jobs[j].pc = "work" /\ lock = Job(j) /\ IsTool(j)
    BY <1>2 DEF JobAtAll
  <2>2. CASE BodyEnds(j, "raised", "record")
    BY <2>1, <2>2, BodyEndsFields, WorkedFields
  <2>3. CASE ~jobs[j].file /\ BodyEnds(j, "done", "report")
    BY <2>1, <2>3, BodyEndsFields, WorkedFields
  <2>4. CASE BodyEnds(j, "failed", "report")
    BY <2>1, <2>4, BodyEndsFields, WorkedFields
  <2>5. CASE JobGoto(j, "path") /\ lock' = lock
    BY <2>1, <2>5, JobGotoFields, WorkedFields
  <2> QED BY <2>2, <2>3, <2>4, <2>5
<1>4. Others(j) /\ JobLockStep(j)
  BY <1>1, <1>2, <1>3 DEF Others, JobLockStep, JobAtAll
<1>5. JobAtAll(j)'
  BY <1>2, <1>3 DEF JobAtAll, IsTool, Kept, Finals
<1>6. ASSUME jobs[j].alone
      PROVE  (Alive(j)' => Running(j)') /\ RecordAt(j)' /\ ResultAt(j)' /\ ToldAt(j)'
  <2>1. job = j /\ Running(j) /\ RecordAt(j) /\ ResultAt(j) /\ ToldAt(j)
    BY <1>1, <1>6, Before
  <2>2. Alive(j)' => Running(j)'
    BY <1>3, <2>1 DEF Running, Kept, Alive
  <2>3. RecordAt(j)'
    BY <1>3, <1>6, <2>1, <2>2 DEF RecordAt, Running, IsTool, Kept, Complete, Finals
  <2>4. ResultAt(j)'
    BY <1>3, <1>6, <2>1 DEF RecordAt, ResultAt, Kept
  <2>5. ToldAt(j)'
    BY <1>3, <1>6, <2>1 DEF ToldAt, InBody, Kept
  <2> QED BY <2>2, <2>3, <2>4, <2>5
<1> QED BY <1>1, <1>3, <1>4, <1>5, <1>6, JobStep DEF Kept

LEMMA ResultLinkServer ==
    ASSUME TypeOK, ServerInv, NEW j \in Jobs, ResultLink(j)
    PROVE  ServerInv'
<1> USE DEF ResultLink, JobAt, session, pins, threads
<1>1. Alive(j)
  BY DEF Alive
<1>2. JobAtAll(j) /\ jobs[j].state \notin Finals /\ ~(j > started)
  BY <1>1, Before
<1>3. /\ \A i \in Jobs : i # j => jobs'[i] = jobs[i] /\ told'[i] = told[i]
      /\ jobs'[j].state = jobs[j].state /\ jobs'[j].drv = jobs[j].drv
      /\ jobs'[j].file = jobs[j].file /\ jobs'[j].alone = jobs[j].alone
      /\ jobs'[j].report = jobs[j].report /\ jobs'[j].download = TRUE
      /\ jobs'[j].end = jobs[j].end /\ jobs'[j].work = jobs[j].work
      /\ jobs'[j].pc = "record" /\ jobs[j].pc = "link" /\ ~IsTool(j) /\ told'[j] = told[j]
      /\ lock' = lock /\ result' = result
      /\ jobs[j].alone /\ job = j => result = [path |-> j, meta |-> j]
  <2>1. jobs[j].alone /\ job = j => result.path = j /\ result.meta = j
    BY DEF ServerInv, ResultInv, ResultAt
  <2>2. result = [path |-> result.path, meta |-> result.meta]
    BY DEF TypeOK
  <2> QED BY <2>1, <2>2 DEF TypeOK
<1>4. Others(j) /\ JobLockStep(j)
  BY <1>1, <1>2, <1>3 DEF Others, JobLockStep, JobAtAll
<1>5. JobAtAll(j)'
  BY <1>2, <1>3 DEF JobAtAll, IsTool, Kept, Finals
<1>6. ASSUME jobs[j].alone
      PROVE  (Alive(j)' => Running(j)') /\ RecordAt(j)' /\ ResultAt(j)' /\ ToldAt(j)'
  <2>1. job = j /\ Running(j) /\ RecordAt(j) /\ ResultAt(j) /\ ToldAt(j)
    BY <1>1, <1>6, Before
  <2>2. Alive(j)' => Running(j)'
    BY <1>3, <2>1 DEF Running, Kept, Alive
  <2>3. RecordAt(j)'
    BY <1>3, <1>6, <2>1, <2>2 DEF RecordAt, Running, IsTool, Kept, Complete, Finals
  <2>4. ResultAt(j)'
    BY <1>3, <1>6, <2>1 DEF RecordAt, ResultAt, Kept
  <2>5. ToldAt(j)'
    BY <1>3, <1>6, <2>1 DEF ToldAt, InBody, Kept
  <2> QED BY <2>2, <2>3, <2>4, <2>5
<1> QED BY <1>1, <1>3, <1>4, <1>5, <1>6, JobStep DEF Kept

(* The link of the job that is shown, and nothing else of a record. *)
LEMMA Linked ==
    ASSUME NEW r \in JobType, NEW shown \in BOOLEAN
    PROVE  \E l \in JobType :
             /\ l = [r EXCEPT !.download = (@ \/ shown)]
             /\ l.download <=> r.download \/ shown
             /\ ~shown => l = r
             /\ l.state = r.state /\ l.pc = r.pc /\ l.drv = r.drv /\ l.work = r.work
             /\ l.file = r.file /\ l.report = r.report /\ l.alone = r.alone
<1> DEFINE d == r.download \/ shown
           l == [r EXCEPT !.download = d]
<1>1. d \in BOOLEAN /\ (d <=> r.download \/ shown) /\ (~shown => d = r.download)
  BY DEF JobType
<1>2. l = [r EXCEPT !.download = (@ \/ shown)]
  OBVIOUS
<1> HIDE DEF d
<1>3. /\ l \in JobType /\ l.download = d
      /\ d = r.download => l = r
      /\ l.state = r.state /\ l.pc = r.pc /\ l.drv = r.drv /\ l.work = r.work
      /\ l.file = r.file /\ l.report = r.report /\ l.alone = r.alone
  BY <1>1 DEF JobType
<1> HIDE DEF l
<1> QED BY <1>1, <1>2, <1>3

LEMMA ToolLinkFields ==
    ASSUME TypeOK, NEW j \in Jobs, ToolLink(j)
    PROVE  /\ \A i \in Jobs : i # j =>
                /\ i # job => jobs'[i] = jobs[i]
                /\ jobs'[i].state = jobs[i].state /\ jobs'[i].pc = jobs[i].pc
                /\ jobs'[i].drv = jobs[i].drv /\ jobs'[i].work = jobs[i].work
                /\ jobs'[i].alone = jobs[i].alone
           /\ jobs'[j].state = jobs[j].state /\ jobs'[j].drv = jobs[j].drv
           /\ jobs'[j].file = jobs[j].file /\ jobs'[j].alone = jobs[j].alone
           /\ jobs'[j].report = jobs[j].report /\ jobs'[j].work = jobs[j].work
           /\ j = job => jobs'[j].download = TRUE
           /\ \/ (jobs'[j].pc = "report" /\ jobs'[j].end \in {"done", "failed"})
              \/ (jobs'[j].pc = "record" /\ jobs'[j].end = "raised")
<1>1. PICK end \in {"done", "failed", "raised"} :
        jobs' = [i \in Jobs |->
                    LET linked == [jobs[i] EXCEPT !.download = (@ \/ i = job)]
                    IN IF i = j THEN [linked EXCEPT !.pc = IF end = "raised" THEN "record" ELSE "report",
                                               !.end = end] ELSE linked]
  BY DEF ToolLink
<1>2. ASSUME NEW i \in Jobs
      PROVE  \E l \in JobType :
             /\ l = [jobs[i] EXCEPT !.download = (@ \/ i = job)]
             /\ l.download <=> jobs[i].download \/ i = job
             /\ i # job => l = jobs[i]
             /\ l.state = jobs[i].state /\ l.pc = jobs[i].pc /\ l.drv = jobs[i].drv
             /\ l.work = jobs[i].work
             /\ l.file = jobs[i].file /\ l.report = jobs[i].report /\ l.alone = jobs[i].alone
  <2> DEFINE shown == i = job
  <2>1. jobs[i] \in JobType /\ shown \in BOOLEAN
    BY Parts
  <2> HIDE DEF shown
  <2>2. \E l \in JobType :
             /\ l = [jobs[i] EXCEPT !.download = (@ \/ shown)]
             /\ l.download <=> jobs[i].download \/ shown
             /\ ~shown => l = jobs[i]
             /\ l.state = jobs[i].state /\ l.pc = jobs[i].pc /\ l.drv = jobs[i].drv
             /\ l.work = jobs[i].work
             /\ l.file = jobs[i].file /\ l.report = jobs[i].report /\ l.alone = jobs[i].alone
    BY <2>1, Linked
  <2> QED BY <2>2 DEF shown
<1>3. ASSUME NEW i \in Jobs, i # j
      PROVE  /\ i # job => jobs'[i] = jobs[i]
             /\ jobs'[i].state = jobs[i].state /\ jobs'[i].pc = jobs[i].pc
             /\ jobs'[i].drv = jobs[i].drv /\ jobs'[i].work = jobs[i].work
             /\ jobs'[i].alone = jobs[i].alone
  <2>1. jobs'[i] = [jobs[i] EXCEPT !.download = (@ \/ i = job)]
    BY <1>1, <1>3
  <2> QED BY <1>2, <2>1
<1>4. PICK l \in JobType :
             /\ l = [jobs[j] EXCEPT !.download = (@ \/ j = job)]
             /\ l.download <=> jobs[j].download \/ j = job
             /\ l.state = jobs[j].state /\ l.drv = jobs[j].drv
             /\ l.work = jobs[j].work
             /\ l.file = jobs[j].file /\ l.report = jobs[j].report /\ l.alone = jobs[j].alone
  BY <1>2
<1> DEFINE pc == IF end = "raised" THEN "record" ELSE "report"
<1>5. jobs'[j] = [l EXCEPT !.pc = pc, !.end = end]
  BY <1>1, <1>4
<1>6. /\ jobs'[j].state = l.state /\ jobs'[j].drv = l.drv /\ jobs'[j].work = l.work
      /\ jobs'[j].file = l.file /\ jobs'[j].report = l.report /\ jobs'[j].alone = l.alone
      /\ jobs'[j].download = l.download /\ jobs'[j].pc = pc /\ jobs'[j].end = end
  <2> HIDE DEF pc
  <2> QED BY <1>5 DEF JobType
<1>7. j = job => jobs'[j].download = TRUE
  <2>1. l.download \in BOOLEAN
    BY DEF JobType
  <2> QED BY <1>4, <1>6, <2>1
<1> QED BY <1>3, <1>4, <1>6, <1>7

LEMMA ToolLinkServer ==
    ASSUME TypeOK, ServerInv, NEW j \in Jobs, ToolLink(j)
    PROVE  ServerInv'
<1> USE DEF ToolLink, JobAt, session, pins, threads
<1>1. Alive(j)
  BY DEF Alive
<1>2. JobAtAll(j) /\ jobs[j].state \notin Finals /\ ~(j > started)
  BY <1>1, Before
<1>3. /\ \A i \in Jobs : i # j =>
           /\ i # job => jobs'[i] = jobs[i]
           /\ jobs'[i].state = jobs[i].state /\ jobs'[i].pc = jobs[i].pc
           /\ jobs'[i].drv = jobs[i].drv /\ jobs'[i].work = jobs[i].work
           /\ jobs'[i].alone = jobs[i].alone /\ told'[i] = told[i]
      /\ jobs'[j].state = jobs[j].state /\ jobs'[j].drv = jobs[j].drv
      /\ jobs'[j].file = jobs[j].file /\ jobs'[j].alone = jobs[j].alone
      /\ jobs'[j].report = jobs[j].report /\ jobs'[j].work = jobs[j].work
      /\ \/ (jobs'[j].pc = "report" /\ jobs'[j].end \in {"done", "failed"})
         \/ (jobs'[j].pc = "record" /\ jobs'[j].end = "raised")
      /\ j = job => jobs'[j].download = TRUE
      /\ jobs[j].pc = "link" /\ IsTool(j) /\ told'[j] = told[j] /\ lock = Job(j) /\ lock' = Free
      /\ jobs[j].alone /\ job = j => result' = [path |-> j, meta |-> j]
  <2>1. jobs[j].alone /\ job = j => result.path = j /\ result.meta = j
    BY DEF ServerInv, ResultInv, ResultAt
  <2>2. result = [path |-> result.path, meta |-> result.meta]
    BY DEF TypeOK
  <2>3. lock = Job(j)
    BY <1>2 DEF JobAtAll
  <2> QED BY <2>1, <2>2, <2>3, ToolLinkFields
<1>4. Others(j) /\ JobLockStep(j)
  BY <1>1, <1>2, <1>3 DEF Others, JobLockStep, JobAtAll
<1>5. JobAtAll(j)'
  BY <1>2, <1>3 DEF JobAtAll, IsTool, Kept, Finals
<1>6. ASSUME jobs[j].alone
      PROVE  (Alive(j)' => Running(j)') /\ RecordAt(j)' /\ ResultAt(j)' /\ ToldAt(j)'
  <2>1. job = j /\ Running(j) /\ RecordAt(j) /\ ResultAt(j) /\ ToldAt(j)
    BY <1>1, <1>6, Before
  <2>2. Alive(j)' => Running(j)'
    BY <1>3, <2>1 DEF Running, Kept, Alive
  <2>3. RecordAt(j)'
    BY <1>3, <1>6, <2>1, <2>2 DEF RecordAt, Running, IsTool, Kept, Complete, Finals
  <2>4. ResultAt(j)'
    BY <1>3, <1>6, <2>1 DEF RecordAt, ResultAt, Kept
  <2>5. ToldAt(j)'
    BY <1>3, <1>6, <2>1 DEF ToldAt, InBody, Kept
  <2> QED BY <2>2, <2>3, <2>4, <2>5
<1> QED BY <1>1, <1>3, <1>4, <1>5, <1>6, JobStep DEF Kept

LEMMA RestFields ==
    ASSUME TypeOK, NEW j \in Jobs
    PROVE  \E r \in JobType :
             /\ r = Rest(j) /\ r.work = 0 /\ r.drv = None /\ r.alone = jobs[j].alone
             /\ j = job => /\ r.state = jobs[j].state /\ r.report = jobs[j].report
                           /\ r.download = jobs[j].download /\ r.end = jobs[j].end
                           /\ r.file <=> jobs[j].file /\ jobs[j].end = "done"
             /\ j # job => r.state = "none"
<1>1. jobs[j] \in JobType
  BY Parts
<1>2. CASE j = job
  <2> DEFINE file == jobs[j].file /\ jobs[j].end = "done"
             r == [jobs[j] EXCEPT !.drv = None, !.work = 0, !.file = file]
  <2>1. r = Rest(j)
    BY <1>2 DEF Rest
  <2>2. file \in BOOLEAN /\ (file <=> jobs[j].file /\ jobs[j].end = "done") /\ 0 \in 0..MaxWork
    BY <1>1, Bounds DEF JobType
  <2> HIDE DEF file
  <2>3. /\ r \in JobType /\ r.work = 0 /\ r.drv = None /\ r.alone = jobs[j].alone /\ r.state = jobs[j].state
        /\ r.report = jobs[j].report /\ r.download = jobs[j].download /\ r.end = jobs[j].end
        /\ r.file = file
    BY <1>1, <2>2 DEF JobType
  <2> HIDE DEF r
  <2> QED BY <1>2, <2>1, <2>2, <2>3
<1>3. CASE j # job
  <2> DEFINE a == jobs[j].alone
             r == [NoJob EXCEPT !.pc = jobs[j].pc, !.alone = a]
  <2>1. r = Rest(j)
    BY <1>3 DEF Rest, Forgotten
  <2>2. a \in BOOLEAN /\ jobs[j].pc \in JobPcs /\ 0 \in 0..MaxWork
    BY <1>1, Bounds DEF JobType
  <2> HIDE DEF a
  <2>3. r.work = 0 /\ r.drv = None /\ r.alone = a /\ r.state = "none"
    BY DEF NoJob
  <2>4. r \in JobType
    BY <2>2 DEF NoJob, JobType, Ends, Finals
  <2> HIDE DEF r
  <2> QED BY <1>3, <2>1, <2>3, <2>4 DEF a
<1> QED BY <1>2, <1>3

Becomes(j, pc, copy) == jobs' = [jobs EXCEPT ![j] = [Rest(j) EXCEPT !.pc = pc, !.copy = copy]]
BecomesFinal(j, pc, state) ==
    jobs' = [jobs EXCEPT ![j] = [Rest(j) EXCEPT !.pc = pc, !.state = state]]

LEMMA RestKept ==
    ASSUME TypeOK, NEW j \in Jobs, NEW pc, NEW copy, Becomes(j, pc, copy)
    PROVE  /\ \A i \in Jobs : i # j => jobs'[i] = jobs[i]
           /\ jobs'[j].pc = pc /\ jobs'[j].copy = copy
           /\ jobs'[j].work = 0 /\ jobs'[j].drv = None /\ jobs'[j].alone = jobs[j].alone
           /\ j = job => /\ jobs'[j].state = jobs[j].state /\ jobs'[j].report = jobs[j].report
                         /\ jobs'[j].download = jobs[j].download /\ jobs'[j].end = jobs[j].end
                         /\ jobs'[j].file => jobs[j].file
           /\ j # job => jobs'[j].state = "none"
<1>1. PICK r \in JobType :
             /\ r = Rest(j) /\ r.work = 0 /\ r.drv = None /\ r.alone = jobs[j].alone
             /\ j = job => /\ r.state = jobs[j].state /\ r.report = jobs[j].report
                           /\ r.download = jobs[j].download /\ r.end = jobs[j].end
                           /\ r.file <=> jobs[j].file /\ jobs[j].end = "done"
             /\ j # job => r.state = "none"
  BY RestFields
<1>2. jobs'[j] = [r EXCEPT !.pc = pc, !.copy = copy] /\ \A i \in Jobs : i # j => jobs'[i] = jobs[i]
  BY <1>1, Parts DEF Becomes
<1>3. /\ jobs'[j].state = r.state /\ jobs'[j].alone = r.alone /\ jobs'[j].work = r.work /\ jobs'[j].drv = r.drv
      /\ jobs'[j].report = r.report /\ jobs'[j].download = r.download /\ jobs'[j].end = r.end
      /\ jobs'[j].file = r.file /\ jobs'[j].pc = pc /\ jobs'[j].copy = copy
  <2> DEFINE n == [r EXCEPT !.pc = pc, !.copy = copy]
  <2>1. /\ n.state = r.state /\ n.alone = r.alone /\ n.work = r.work /\ n.drv = r.drv
      /\ n.report = r.report /\ n.download = r.download /\ n.end = r.end
      /\ n.file = r.file /\ n.pc = pc /\ n.copy = copy
    BY DEF JobType
  <2>2. jobs'[j] = n
    BY <1>2
  <2> HIDE DEF n
  <2> QED BY <2>1, <2>2
<1> QED BY <1>1, <1>2, <1>3

LEMMA RestFinal ==
    ASSUME TypeOK, NEW j \in Jobs, NEW pc, NEW state, BecomesFinal(j, pc, state)
    PROVE  /\ \A i \in Jobs : i # j => jobs'[i] = jobs[i]
           /\ jobs'[j].pc = pc /\ jobs'[j].state = state
           /\ jobs'[j].work = 0 /\ jobs'[j].drv = None /\ jobs'[j].alone = jobs[j].alone
           /\ j = job => /\ jobs'[j].report = jobs[j].report
                         /\ jobs'[j].download = jobs[j].download /\ jobs'[j].end = jobs[j].end
                         /\ jobs'[j].file => jobs[j].file
<1>1. PICK r \in JobType :
             /\ r = Rest(j) /\ r.work = 0 /\ r.drv = None /\ r.alone = jobs[j].alone
             /\ j = job => /\ r.report = jobs[j].report
                           /\ r.download = jobs[j].download /\ r.end = jobs[j].end
                           /\ r.file <=> jobs[j].file /\ jobs[j].end = "done"
  BY RestFields
<1>2. jobs'[j] = [r EXCEPT !.pc = pc, !.state = state] /\ \A i \in Jobs : i # j => jobs'[i] = jobs[i]
  BY <1>1, Parts DEF BecomesFinal
<1>3. /\ jobs'[j].state = state /\ jobs'[j].alone = r.alone /\ jobs'[j].work = r.work /\ jobs'[j].drv = r.drv
      /\ jobs'[j].report = r.report /\ jobs'[j].download = r.download /\ jobs'[j].end = r.end
      /\ jobs'[j].file = r.file /\ jobs'[j].pc = pc
  <2> DEFINE n == [r EXCEPT !.pc = pc, !.state = state]
  <2>1. /\ n.state = state /\ n.alone = r.alone /\ n.work = r.work /\ n.drv = r.drv
      /\ n.report = r.report /\ n.download = r.download /\ n.end = r.end
      /\ n.file = r.file /\ n.pc = pc
    BY DEF JobType
  <2>2. jobs'[j] = n
    BY <1>2
  <2> HIDE DEF n
  <2> QED BY <2>1, <2>2
<1> QED BY <1>1, <1>2, <1>3

LEMMA JobRecordServer ==
    ASSUME TypeOK, ServerInv, NEW j \in Jobs, JobRecord(j)
    PROVE  ServerInv'
<1> USE DEF JobRecord, JobAt, session, pins, threads
<1>1. Alive(j)
  BY DEF Alive
<1>2. JobAtAll(j) /\ jobs[j].state \notin Finals /\ ~(j > started)
  BY <1>1, Before
<1>3. /\ jobs[j].pc = "record" /\ jobs'[j].pc = "keep" /\ jobs'[j].copy = history' /\ j \in history'
      /\ told'[j] = NotTold
      /\ \A i \in Jobs : i # j => jobs'[i] = jobs[i] /\ told'[i] = told[i]
      /\ jobs'[j].alone = jobs[j].alone /\ jobs'[j].work = 0 /\ lock' = lock
      /\ j = job => /\ jobs'[j].report = jobs[j].report
                    /\ jobs'[j].download = jobs[j].download /\ jobs'[j].end = jobs[j].end
                    /\ jobs'[j].file => jobs[j].file
      /\ result' = result
      /\ j = job => jobs'[j].state = jobs[j].state
      /\ j # job => jobs'[j].state = "none"
  <2>1. told'[j] = NotTold /\ \A i \in Jobs : i # j => told'[i] = told[i]
    BY Parts
  <2>2. Becomes(j, "keep", history')
    BY DEF Becomes
  <2> QED BY <2>1, <2>2, RestKept
<1>4. Others(j) /\ JobLockStep(j)
  BY <1>1, <1>2, <1>3 DEF Others, JobLockStep, JobAtAll
<1>5. JobAtAll(j)'
  BY <1>2, <1>3 DEF JobAtAll, IsTool, Kept, Finals
<1>6. ASSUME jobs[j].alone
      PROVE  (Alive(j)' => Running(j)') /\ RecordAt(j)' /\ ResultAt(j)' /\ ToldAt(j)'
  <2>1. job = j /\ Running(j) /\ RecordAt(j) /\ ResultAt(j) /\ ToldAt(j)
    BY <1>1, <1>6, Before
  <2>2. Alive(j)' => Running(j)'
    BY <1>3, <2>1 DEF Running, Kept, Alive
  <2>3. RecordAt(j)'
    BY <1>3, <1>6, <2>1, <2>2 DEF RecordAt, Running, IsTool, Kept, Complete, Finals
  <2>4. ResultAt(j)'
    BY <1>3, <1>6, <2>1 DEF RecordAt, ResultAt, Kept
  <2>5. ToldAt(j)'
    BY <1>3, <1>6, <2>1 DEF ToldAt, InBody, Kept
  <2> QED BY <2>2, <2>3, <2>4, <2>5
<1> QED BY <1>1, <1>3, <1>4, <1>5, <1>6, JobStep DEF Kept

LEMMA JobKeepServer ==
    ASSUME TypeOK, ServerInv, NEW j \in Jobs, JobKeep(j)
    PROVE  ServerInv'
<1> USE DEF JobKeep, JobAt, session, pins, threads
<1>1. Alive(j)
  BY DEF Alive
<1>2. JobAtAll(j) /\ jobs[j].state \notin Finals /\ ~(j > started)
  BY <1>1, Before
<1>3. /\ jobs[j].pc = "keep" /\ (jobs'[j].pc = "final" \/ jobs'[j].pc = "dead")
      /\ told'[j] = told[j]
      /\ jobs[j].alone /\ job = j => j \in history'
      /\ \A i \in Jobs : i # j => jobs'[i] = jobs[i] /\ told'[i] = told[i]
      /\ jobs'[j].alone = jobs[j].alone /\ jobs'[j].work = 0 /\ lock' = lock
      /\ j = job => /\ jobs'[j].report = jobs[j].report
                    /\ jobs'[j].download = jobs[j].download /\ jobs'[j].end = jobs[j].end
                    /\ jobs'[j].file => jobs[j].file
      /\ result' = result
      /\ j = job => jobs'[j].state = jobs[j].state
      /\ j # job => jobs'[j].state = "none"
  <2>1. jobs[j].alone /\ job = j => j \in history'
    BY DEF ServerInv, RecordInv, RecordAt
  <2>2. Becomes(j, "final", {}) \/ Becomes(j, "dead", {})
    BY DEF Becomes
  <2> QED BY <2>1, <2>2, RestKept
<1>4. Others(j) /\ JobLockStep(j)
  BY <1>1, <1>2, <1>3 DEF Others, JobLockStep, JobAtAll
<1>5. JobAtAll(j)'
  BY <1>2, <1>3 DEF JobAtAll, IsTool, Kept, Finals
<1>6. ASSUME jobs[j].alone
      PROVE  (Alive(j)' => Running(j)') /\ RecordAt(j)' /\ ResultAt(j)' /\ ToldAt(j)'
  <2>1. job = j /\ Running(j) /\ RecordAt(j) /\ ResultAt(j) /\ ToldAt(j)
    BY <1>1, <1>6, Before
  <2>2. Alive(j)' => Running(j)'
    BY <1>3, <2>1 DEF Running, Kept, Alive
  <2>3. RecordAt(j)'
    BY <1>3, <1>6, <2>1, <2>2 DEF RecordAt, Running, IsTool, Kept, Complete, Finals
  <2>4. ResultAt(j)'
    BY <1>3, <1>6, <2>1 DEF RecordAt, ResultAt, Kept
  <2>5. ToldAt(j)'
    BY <1>3, <1>6, <2>1 DEF ToldAt, InBody, Kept
  <2> QED BY <2>2, <2>3, <2>4, <2>5
<1> QED BY <1>1, <1>3, <1>4, <1>5, <1>6, JobStep DEF Kept

LEMMA JobFinalServer ==
    ASSUME TypeOK, ServerInv, NEW j \in Jobs, JobFinal(j)
    PROVE  ServerInv'
<1> USE DEF JobFinal, JobAt, session, pins, threads
<1>1. Alive(j)
  BY DEF Alive
<1>2. JobAtAll(j) /\ jobs[j].state \notin Finals /\ ~(j > started)
  BY <1>1, Before
<1>3. /\ jobs[j].pc = "final" /\ jobs'[j].pc = "gone" /\ history' = history
      /\ told'[j] = told[j]
      /\ \A i \in Jobs : i # j => jobs'[i] = jobs[i] /\ told'[i] = told[i]
      /\ jobs'[j].alone = jobs[j].alone /\ jobs'[j].work = 0 /\ lock' = lock
      /\ j = job => /\ jobs'[j].report = jobs[j].report
                    /\ jobs'[j].download = jobs[j].download /\ jobs'[j].end = jobs[j].end
                    /\ jobs'[j].file => jobs[j].file
      /\ result' = result
      /\ j # job => jobs'[j].state = "none"
  <2> DEFINE state == IF j = job THEN Final(jobs[j].end) ELSE "none"
  <2>1. BecomesFinal(j, "gone", state)
    BY DEF BecomesFinal
  <2>2. j # job => state = "none"
    OBVIOUS
  <2> HIDE DEF state
  <2> QED BY <2>1, <2>2, RestFinal
<1>4. Others(j) /\ JobLockStep(j)
  BY <1>1, <1>2, <1>3 DEF Others, JobLockStep, JobAtAll
<1>5. JobAtAll(j)'
  BY <1>2, <1>3 DEF JobAtAll, IsTool, Kept, Finals
<1>6. ASSUME jobs[j].alone
      PROVE  (Alive(j)' => Running(j)') /\ RecordAt(j)' /\ ResultAt(j)' /\ ToldAt(j)'
  <2>1. job = j /\ Running(j) /\ RecordAt(j) /\ ResultAt(j) /\ ToldAt(j)
    BY <1>1, <1>6, Before
  <2>2. Alive(j)' => Running(j)'
    BY <1>3, <2>1 DEF Running, Kept, Alive
  <2>3. RecordAt(j)'
    BY <1>3, <1>6, <2>1, <2>2 DEF RecordAt, Running, IsTool, Kept, Complete, Finals
  <2>4. ResultAt(j)'
    BY <1>3, <1>6, <2>1 DEF RecordAt, ResultAt, Kept
  <2>5. ToldAt(j)'
    BY <1>3, <1>6, <2>1 DEF ToldAt, InBody, Kept
  <2> QED BY <2>2, <2>3, <2>4, <2>5
<1> QED BY <1>1, <1>3, <1>4, <1>5, <1>6, JobStep DEF Kept

-----------------------------------------------------------------------------
(* The pins *)

LEMMA InitPins == Init => PinsInv
BY DEF Init, PinsInv, NeverOpened, PinsAt, CopyTrue, Alive, NoJob, Idle

(* If a handler is under way, or a job has work left, and nothing has raced,    *)
(* it is the only one.                                                          *)
LEMMA AloneIfOrderly ==
    ASSUME TypeOK, ServerInv, Orderly, NEW j \in Jobs, Alive(j)
    PROVE  jobs[j].alone /\ UnderWay = {}
<1>1. ~(j > started)
  BY Before
<1>2. j \in 1..started
  <2>1. j \in Nat /\ j > 0 /\ started \in Nat
    BY Bounds, Parts DEF SharedType
  <2> QED BY <1>1, <2>1
<1> QED BY <1>2 DEF Orderly, ServerInv, AloneInv, AloneAt

LEMMA LossIsLoss ==
    ASSUME TypeOK, Lose
    PROVE  losses' # 0
BY DEF TypeOK, Lose

(* A step of a handler. *)
LEMMA SlotPins ==
    ASSUME TypeOK, ServerInv, PinsInv, NEW t \in Slots,
           UNCHANGED << jobs, started >>,
           \A u \in Slots : u # t => /\ req'[u].pc = req[u].pc /\ req'[u].op = req[u].op
                                     /\ req[u].raced => req'[u].raced,
           t \in UnderWay /\ req[t].raced => t \in UnderWay' /\ req'[t].raced,
           UNCHANGED << dev, testing >> \/ req[t].pc \in {"in", "open", "off", "testoff"},
           Orderly' => opened <= 1 /\ losses = 0,
           NeverOpened',
           Orderly /\ Orderly' => CopyTrue' /\ PinsAt(t)'
    PROVE  PinsInv'
<1> SUFFICES ASSUME Orderly'
             PROVE  /\ CopyTrue' /\ \A u \in Slots : PinsAt(u)'
                    /\ \A j \in Jobs : Alive(j) /\ jobs[j].drv # None /\ dev' # None => ~testing'
  BY DEF PinsInv, Alive
<1>1. Orderly
  <2>1. \A j \in 1..started : jobs[j].alone
    BY DEF Orderly
  <2>2. ASSUME NEW u \in UnderWay PROVE ~req[u].raced
    BY DEF Orderly, UnderWay
  <2> QED BY <2>1, <2>2 DEF Orderly
<1>2. CopyTrue /\ \A u \in Slots : PinsAt(u)
  BY <1>1 DEF PinsInv
<1>3. ASSUME NEW u \in Slots, u # t PROVE PinsAt(u)'
  <2>1. CASE UNCHANGED << dev, testing >>
    BY <1>2, <1>3, <2>1 DEF PinsAt
  <2>2. CASE req[t].pc \in {"in", "open", "off", "testoff"}
    <3>1. t \in UnderWay
      BY <2>2 DEF UnderWay
    <3>2. req[u].pc # "copyoff"
      <4>1. CASE req[t].pc = "testoff"
        BY <1>1, <1>3, <3>1, <4>1 DEF ServerInv, ReqInv, ReqAt, UnderWay, Orderly
      <4>2. CASE req[t].pc # "testoff"
        BY <1>3, <2>2, <4>2, Threads DEF ServerInv, ReqInv, ReqAt
      <4> QED BY <4>1, <4>2
    <3>3. req[u].pc \notin {"zero", "register"}
      BY <1>1, <1>3, <3>1 DEF ServerInv, ReqInv, ReqAt, UnderWay, Orderly
    <3> QED BY <1>3, <3>2, <3>3 DEF PinsAt
  <2> QED BY <2>1, <2>2
<1>4. ASSUME NEW j \in Jobs, Alive(j), jobs[j].drv # None, dev' # None PROVE ~testing'
  <2>1. UnderWay = {}
    BY <1>1, <1>4, AloneIfOrderly
  <2>2. req[t].pc \notin {"in", "open", "off", "testoff"}
    BY <2>1 DEF UnderWay
  <2> QED BY <1>1, <1>4, <2>2 DEF PinsInv
<1> QED BY <1>1, <1>3, <1>4

LEMMA ArrivePins ==
    ASSUME TypeOK, ServerInv, PinsInv, NEW t \in Slots, NEW op \in LockOps, Arrive(t, op)
    PROVE  PinsInv'
<1> USE DEF Arrive, At, CanPost, session, pins, jobVars, threads
<1>1. /\ \A u \in Slots : u # t => /\ req'[u].pc = req[u].pc /\ req'[u].op = req[u].op
                                   /\ req[u].raced => req'[u].raced
      /\ req[t].pc = "idle" /\ req'[t].pc = "lock"
      /\ t \in UnderWay /\ req[t].raced => t \in UnderWay' /\ req'[t].raced
  BY GoOnFields DEF UnderWay, Idle
<1>2. Orderly' => opened <= 1 /\ losses = 0
  BY DEF Orderly
<1>3. NeverOpened'
  BY DEF PinsInv, NeverOpened
<1>4. Orderly /\ Orderly' => CopyTrue' /\ PinsAt(t)'
  BY <1>1 DEF PinsInv, CopyTrue, PinsAt
<1>5. UNCHANGED << dev, testing >> \/ req[t].pc \in {"in", "open", "off", "testoff"}
  OBVIOUS
<1> QED BY <1>1, <1>2, <1>3, <1>4, <1>5, SlotPins

LEMMA TakeLockPins ==
    ASSUME TypeOK, ServerInv, PinsInv, NEW t \in Slots, TakeLock(t)
    PROVE  PinsInv'
<1> USE DEF TakeLock, At, session, pins, jobVars, threads
<1>1. /\ \A u \in Slots : u # t => /\ req'[u].pc = req[u].pc /\ req'[u].op = req[u].op
                                   /\ req[u].raced => req'[u].raced
      /\ req[t].pc = "lock" /\ req'[t].pc = "in"
      /\ t \in UnderWay /\ req[t].raced => t \in UnderWay' /\ req'[t].raced
  BY GotoFields DEF UnderWay, ServerInv, ReqInv, ReqAt
<1>2. Orderly' => opened <= 1 /\ losses = 0
  BY DEF Orderly
<1>3. NeverOpened'
  BY DEF PinsInv, NeverOpened
<1>4. Orderly /\ Orderly' => CopyTrue' /\ PinsAt(t)'
  BY <1>1 DEF PinsInv, CopyTrue, PinsAt
<1>5. UNCHANGED << dev, testing >> \/ req[t].pc \in {"in", "open", "off", "testoff"}
  OBVIOUS
<1> QED BY <1>1, <1>2, <1>3, <1>4, <1>5, SlotPins

LEMMA UsePins ==
    ASSUME TypeOK, ServerInv, PinsInv, NEW t \in Slots, Use(t)
    PROVE  PinsInv'
<1> USE DEF Use, At, session, pins, jobVars, threads
<1>1. /\ \A u \in Slots : u # t => /\ req'[u].pc = req[u].pc /\ req'[u].op = req[u].op
                                   /\ req[u].raced => req'[u].raced
      /\ req[t].pc = "in" /\ req'[t].pc = "idle"
      /\ t \in UnderWay /\ req[t].raced => t \in UnderWay' /\ req'[t].raced
  BY AnswerFields DEF UnderWay, ServerInv, ReqInv, ReqAt, Idle
<1>2. Orderly' => opened <= 1 /\ losses = 0
  BY DEF Orderly
<1>3. NeverOpened'
  BY DEF PinsInv, NeverOpened
<1>4. Orderly /\ Orderly' => CopyTrue' /\ PinsAt(t)'
  BY <1>1 DEF PinsInv, CopyTrue, PinsAt
<1>5. UNCHANGED << dev, testing >> \/ req[t].pc \in {"in", "open", "off", "testoff"}
  OBVIOUS
<1> QED BY <1>1, <1>2, <1>3, <1>4, <1>5, SlotPins

LEMMA CommonPins ==
    ASSUME TypeOK, ServerInv, PinsInv, NEW t \in Slots, Common(t)
    PROVE  PinsInv'
<1> USE DEF Common, At, session, pins, jobVars, threads
<1>0. req'[t].pc = "setup" /\ \A u \in Slots : u # t => req'[u] = req[u]
  BY Parts DEF RequestType, Idle
<1>1. /\ \A u \in Slots : u # t => /\ req'[u].pc = req[u].pc /\ req'[u].op = req[u].op
                                   /\ req[u].raced => req'[u].raced
      /\ req[t].pc = "idle" /\ req'[t].pc = "setup"
      /\ t \in UnderWay /\ req[t].raced => t \in UnderWay' /\ req'[t].raced
  BY <1>0 DEF UnderWay, Idle
<1>2. Orderly' => opened <= 1 /\ losses = 0
  BY DEF Orderly
<1>3. NeverOpened'
  BY DEF PinsInv, NeverOpened
<1>4. Orderly /\ Orderly' => CopyTrue' /\ PinsAt(t)'
  BY <1>1 DEF PinsInv, CopyTrue, PinsAt
<1>5. UNCHANGED << dev, testing >> \/ req[t].pc \in {"in", "open", "off", "testoff"}
  OBVIOUS
<1> QED BY <1>1, <1>2, <1>3, <1>4, <1>5, SlotPins

LEMMA SetupPins ==
    ASSUME TypeOK, ServerInv, PinsInv, NEW t \in Slots, Setup(t)
    PROVE  PinsInv'
<1> USE DEF Setup, At, session, pins, jobVars, threads
<1>1. /\ \A u \in Slots : u # t => /\ req'[u].pc = req[u].pc /\ req'[u].op = req[u].op
                                   /\ req[u].raced => req'[u].raced
      /\ req[t].pc = "setup" /\ (req'[t].pc = "start" \/ req'[t].pc = "idle")
      /\ t \in UnderWay /\ req[t].raced => t \in UnderWay' /\ req'[t].raced
  BY GotoFields, AnswerFields DEF UnderWay, Idle
<1>2. Orderly' => opened <= 1 /\ losses = 0
  BY DEF Orderly
<1>3. NeverOpened'
  BY DEF PinsInv, NeverOpened
<1>4. Orderly /\ Orderly' => CopyTrue' /\ PinsAt(t)'
  BY <1>1 DEF PinsInv, CopyTrue, PinsAt
<1>5. UNCHANGED << dev, testing >> \/ req[t].pc \in {"in", "open", "off", "testoff"}
  OBVIOUS
<1> QED BY <1>1, <1>2, <1>3, <1>4, <1>5, SlotPins

LEMMA StartCheckPins ==
    ASSUME TypeOK, ServerInv, PinsInv, NEW t \in Slots, StartCheck(t)
    PROVE  PinsInv'
<1> USE DEF StartCheck, At, session, pins, jobVars, threads
<1>1. /\ \A u \in Slots : u # t => /\ req'[u].pc = req[u].pc /\ req'[u].op = req[u].op
                                   /\ req[u].raced => req'[u].raced
      /\ req[t].pc = "start" /\ (req'[t].pc = "clear" \/ req'[t].pc = "idle")
      /\ t \in UnderWay /\ req[t].raced => t \in UnderWay' /\ req'[t].raced
  BY GoOnFields, AnswerFields DEF UnderWay, Idle
<1>2. Orderly' => opened <= 1 /\ losses = 0
  BY DEF Orderly
<1>3. NeverOpened'
  BY DEF PinsInv, NeverOpened
<1>4. Orderly /\ Orderly' => CopyTrue' /\ PinsAt(t)'
  BY <1>1 DEF PinsInv, CopyTrue, PinsAt
<1>5. UNCHANGED << dev, testing >> \/ req[t].pc \in {"in", "open", "off", "testoff"}
  OBVIOUS
<1> QED BY <1>1, <1>2, <1>3, <1>4, <1>5, SlotPins

LEMMA ToolCheckPins ==
    ASSUME TypeOK, ServerInv, PinsInv, NEW t \in Slots, ToolCheck(t)
    PROVE  PinsInv'
<1> USE DEF ToolCheck, At, session, pins, jobVars, threads
<1>1. /\ \A u \in Slots : u # t => /\ req'[u].pc = req[u].pc /\ req'[u].op = req[u].op
                                   /\ req[u].raced => req'[u].raced
      /\ req[t].pc = "idle" /\ req'[t].pc = "clear"
      /\ t \in UnderWay /\ req[t].raced => t \in UnderWay' /\ req'[t].raced
  BY GoOnFields DEF UnderWay, Idle
<1>2. Orderly' => opened <= 1 /\ losses = 0
  BY DEF Orderly
<1>3. NeverOpened'
  BY DEF PinsInv, NeverOpened
<1>4. Orderly /\ Orderly' => CopyTrue' /\ PinsAt(t)'
  BY <1>1 DEF PinsInv, CopyTrue, PinsAt
<1>5. UNCHANGED << dev, testing >> \/ req[t].pc \in {"in", "open", "off", "testoff"}
  OBVIOUS
<1> QED BY <1>1, <1>2, <1>3, <1>4, <1>5, SlotPins

LEMMA ClearCancelPins ==
    ASSUME TypeOK, ServerInv, PinsInv, NEW t \in Slots, ClearCancel(t)
    PROVE  PinsInv'
<1> USE DEF ClearCancel, At, session, pins, jobVars, threads
<1>1. /\ \A u \in Slots : u # t => /\ req'[u].pc = req[u].pc /\ req'[u].op = req[u].op
                                   /\ req[u].raced => req'[u].raced
      /\ req[t].pc = "clear" /\ req'[t].pc = "testoff"
      /\ t \in UnderWay /\ req[t].raced => t \in UnderWay' /\ req'[t].raced
  BY GotoFields DEF UnderWay
<1>2. Orderly' => opened <= 1 /\ losses = 0
  BY DEF Orderly
<1>3. NeverOpened'
  BY DEF PinsInv, NeverOpened
<1>4. Orderly /\ Orderly' => CopyTrue' /\ PinsAt(t)'
  BY <1>1 DEF PinsInv, CopyTrue, PinsAt
<1>5. UNCHANGED << dev, testing >> \/ req[t].pc \in {"in", "open", "off", "testoff"}
  OBVIOUS
<1> QED BY <1>1, <1>2, <1>3, <1>4, <1>5, SlotPins

LEMMA DisconnectPins ==
    ASSUME TypeOK, ServerInv, PinsInv, NEW t \in Slots, Disconnect(t)
    PROVE  PinsInv'
<1> USE DEF Disconnect, At, CloseSession, session, pins, jobVars, threads
<1>1. /\ \A u \in Slots : u # t => /\ req'[u].pc = req[u].pc /\ req'[u].op = req[u].op
                                   /\ req[u].raced => req'[u].raced
      /\ req[t].pc = "in" /\ req'[t].pc = "idle"
      /\ t \in UnderWay /\ req[t].raced => t \in UnderWay' /\ req'[t].raced
  BY AnswerFields DEF UnderWay, ServerInv, ReqInv, ReqAt, Idle
<1>2. Orderly' => opened <= 1 /\ losses = 0
  BY DEF Orderly
<1>3. NeverOpened'
  BY DEF PinsInv, NeverOpened
<1>4. Orderly /\ Orderly' => CopyTrue' /\ PinsAt(t)'
  BY <1>1 DEF PinsInv, CopyTrue, PinsAt
<1>5. UNCHANGED << dev, testing >> \/ req[t].pc \in {"in", "open", "off", "testoff"}
  OBVIOUS
<1> QED BY <1>1, <1>2, <1>3, <1>4, <1>5, SlotPins

LEMMA ConnectClosePins ==
    ASSUME TypeOK, ServerInv, PinsInv, NEW t \in Slots, ConnectClose(t)
    PROVE  PinsInv'
<1> USE DEF ConnectClose, At, CloseSession, session, pins, jobVars, threads
<1>1. /\ \A u \in Slots : u # t => /\ req'[u].pc = req[u].pc /\ req'[u].op = req[u].op
                                   /\ req[u].raced => req'[u].raced
      /\ req[t].pc = "in" /\ req'[t].pc = "open"
      /\ t \in UnderWay /\ req[t].raced => t \in UnderWay' /\ req'[t].raced
  BY GotoFields DEF UnderWay, ServerInv, ReqInv, ReqAt
<1>2. Orderly' => opened <= 1 /\ losses = 0
  BY DEF Orderly
<1>3. NeverOpened'
  BY DEF PinsInv, NeverOpened
<1>4. Orderly /\ Orderly' => CopyTrue' /\ PinsAt(t)'
  BY <1>1 DEF PinsInv, CopyTrue, PinsAt
<1>5. UNCHANGED << dev, testing >> \/ req[t].pc \in {"in", "open", "off", "testoff"}
  OBVIOUS
<1> QED BY <1>1, <1>2, <1>3, <1>4, <1>5, SlotPins

LEMMA ConnectOpenPins ==
    ASSUME TypeOK, ServerInv, PinsInv, NEW t \in Slots, ConnectOpen(t)
    PROVE  PinsInv'
<1> USE DEF ConnectOpen, At, session, pins, jobVars, threads
<1>1. /\ \A u \in Slots : u # t => /\ req'[u].pc = req[u].pc /\ req'[u].op = req[u].op
                                   /\ req[u].raced => req'[u].raced
      /\ req[t].pc = "open" /\ req'[t].pc = "idle"
      /\ t \in UnderWay /\ req[t].raced => t \in UnderWay' /\ req'[t].raced
  BY AnswerFields DEF UnderWay, ServerInv, ReqInv, ReqAt, Idle
<1>2. Orderly' => opened <= 1 /\ losses = 0
  <2>1. CASE opened' = opened + 1
    BY <2>1, Parts DEF Orderly, SharedType
  <2>2. CASE UNCHANGED << opened, dev >>
    BY <2>2 DEF Orderly
  <2> QED BY <2>1, <2>2
<1>3. NeverOpened'
  <2>1. CASE opened' = opened + 1
    BY <2>1, Parts DEF NeverOpened, SharedType
  <2>2. CASE UNCHANGED << opened, dev >>
    BY <2>2 DEF PinsInv, NeverOpened
  <2> QED BY <2>1, <2>2
<1>4. Orderly /\ Orderly' => CopyTrue' /\ PinsAt(t)'
  <2>1. CASE opened' = opened + 1
    <3>1. Orderly' => opened = 0
      BY <2>1, Parts DEF Orderly, SharedType
    <3> QED BY <1>1, <3>1 DEF PinsInv, NeverOpened, CopyTrue, PinsAt
  <2>2. CASE UNCHANGED << opened, dev >>
    BY <1>1, <2>2 DEF PinsInv, CopyTrue, PinsAt
  <2> QED BY <2>1, <2>2
<1>5. UNCHANGED << dev, testing >> \/ req[t].pc \in {"in", "open", "off", "testoff"}
  OBVIOUS
<1> QED BY <1>1, <1>2, <1>3, <1>4, <1>5, SlotPins

LEMMA DetectPins ==
    ASSUME TypeOK, ServerInv, PinsInv, NEW t \in Slots, Detect(t)
    PROVE  PinsInv'
<1> USE DEF Detect, At, Stop, session, pins, jobVars, threads
<1>1. /\ \A u \in Slots : u # t => /\ req'[u].pc = req[u].pc /\ req'[u].op = req[u].op
                                   /\ req[u].raced => req'[u].raced
      /\ req[t].pc = "in" /\ req'[t].pc = "idle"
      /\ t \in UnderWay /\ req[t].raced => t \in UnderWay' /\ req'[t].raced
  BY AnswerFields DEF UnderWay, ServerInv, ReqInv, ReqAt, Idle
<1>2. Orderly' => opened <= 1 /\ losses = 0
  BY LossIsLoss DEF Orderly
<1>3. NeverOpened'
  BY DEF PinsInv, NeverOpened
<1>4. Orderly /\ Orderly' => CopyTrue' /\ PinsAt(t)'
  BY <1>1, LossIsLoss DEF PinsInv, CopyTrue, PinsAt, Orderly
<1>5. UNCHANGED << dev, testing >> \/ req[t].pc \in {"in", "open", "off", "testoff"}
  OBVIOUS
<1> QED BY <1>1, <1>2, <1>3, <1>4, <1>5, SlotPins

LEMMA PinTestPins ==
    ASSUME TypeOK, ServerInv, PinsInv, NEW t \in Slots, PinTest(t)
    PROVE  PinsInv'
<1> USE DEF PinTest, At, session, pins, jobVars, threads
<1>1. /\ \A u \in Slots : u # t => /\ req'[u].pc = req[u].pc /\ req'[u].op = req[u].op
                                   /\ req[u].raced => req'[u].raced
      /\ req[t].pc = "in" /\ (req'[t].pc = "idle" \/ req'[t].pc = "copyoff" \/ req'[t].pc = "copyon")
      /\ t \in UnderWay /\ req[t].raced => t \in UnderWay' /\ req'[t].raced
  BY GotoFields, AnswerFields DEF UnderWay, ServerInv, ReqInv, ReqAt, Idle
<1>2. Orderly' => opened <= 1 /\ losses = 0
  BY LossIsLoss DEF Orderly
<1>3. NeverOpened'
  BY DEF PinsInv, NeverOpened
<1>4. Orderly /\ Orderly' => CopyTrue' /\ PinsAt(t)'
  <2> SUFFICES ASSUME Orderly, Orderly' PROVE CopyTrue' /\ PinsAt(t)'
    OBVIOUS
  <2>1. CASE Lose
    BY <2>1, LossIsLoss DEF Orderly
  <2>2. CASE dev = None
    BY <1>1, <2>2, AnswerFields DEF CopyTrue, PinsAt, Idle
  <2>3. CASE dev # None /\ Goto(t, IF testing' THEN "copyon" ELSE "copyoff")
    BY <1>1, <2>3, GotoFields DEF CopyTrue, PinsAt
  <2> QED BY <2>1, <2>2, <2>3
<1>5. UNCHANGED << dev, testing >> \/ req[t].pc \in {"in", "open", "off", "testoff"}
  OBVIOUS
<1> QED BY <1>1, <1>2, <1>3, <1>4, <1>5, SlotPins

LEMMA PinTestCopyPins ==
    ASSUME TypeOK, ServerInv, PinsInv, NEW t \in Slots, PinTestCopy(t)
    PROVE  PinsInv'
<1> USE DEF PinTestCopy, At, session, pins, jobVars, threads
<1>1. /\ \A u \in Slots : u # t => /\ req'[u].pc = req[u].pc /\ req'[u].op = req[u].op
                                   /\ req[u].raced => req'[u].raced
      /\ (req[t].pc = "copyon" \/ req[t].pc = "copyoff") /\ req'[t].pc = "idle"
      /\ t \in UnderWay /\ req[t].raced => t \in UnderWay' /\ req'[t].raced
  BY AnswerFields DEF UnderWay, ServerInv, ReqInv, ReqAt, Idle
<1>2. Orderly' => opened <= 1 /\ losses = 0
  BY DEF Orderly
<1>3. NeverOpened'
  BY DEF PinsInv, NeverOpened
<1>4. Orderly /\ Orderly' => CopyTrue' /\ PinsAt(t)'
  BY <1>1 DEF PinsInv, CopyTrue, PinsAt
<1>5. UNCHANGED << dev, testing >> \/ req[t].pc \in {"in", "open", "off", "testoff"}
  OBVIOUS
<1> QED BY <1>1, <1>2, <1>3, <1>4, <1>5, SlotPins

LEMMA DoctorScanPins ==
    ASSUME TypeOK, ServerInv, PinsInv, NEW t \in Slots, DoctorScan(t)
    PROVE  PinsInv'
<1> USE DEF DoctorScan, At, session, pins, jobVars, threads
<1>1. /\ \A u \in Slots : u # t => /\ req'[u].pc = req[u].pc /\ req'[u].op = req[u].op
                                   /\ req[u].raced => req'[u].raced
      /\ req[t].pc = "in" /\ ((req'[t].pc = "idle" /\ dev = None) \/ req'[t].pc = "off")
      /\ t \in UnderWay /\ req[t].raced => t \in UnderWay' /\ req'[t].raced
  <2>1. CASE dev = None
    BY <2>1, AnswerFields DEF UnderWay, ServerInv, ReqInv, ReqAt, Idle
  <2>2. CASE dev # None
    BY <2>2, GotoFields DEF UnderWay
  <2> QED BY <2>1, <2>2
<1>2. Orderly' => opened <= 1 /\ losses = 0
  BY DEF Orderly
<1>3. NeverOpened'
  BY DEF PinsInv, NeverOpened
<1>4. Orderly /\ Orderly' => CopyTrue' /\ PinsAt(t)'
  BY <1>1 DEF PinsInv, CopyTrue, PinsAt
<1>5. UNCHANGED << dev, testing >> \/ req[t].pc \in {"in", "open", "off", "testoff"}
  OBVIOUS
<1> QED BY <1>1, <1>2, <1>3, <1>4, <1>5, SlotPins

LEMMA DoctorOffPins ==
    ASSUME TypeOK, ServerInv, PinsInv, NEW t \in Slots, DoctorOff(t)
    PROVE  PinsInv'
<1> USE DEF DoctorOff, At, Stop, session, pins, jobVars, threads
<1>1. /\ \A u \in Slots : u # t => /\ req'[u].pc = req[u].pc /\ req'[u].op = req[u].op
                                   /\ req[u].raced => req'[u].raced
      /\ req[t].pc = "off" /\ req'[t].pc = "idle"
      /\ t \in UnderWay /\ req[t].raced => t \in UnderWay' /\ req'[t].raced
  BY AnswerFields DEF UnderWay, ServerInv, ReqInv, ReqAt, Idle
<1>2. Orderly' => opened <= 1 /\ losses = 0
  BY LossIsLoss DEF Orderly
<1>3. NeverOpened'
  BY DEF PinsInv, NeverOpened
<1>4. Orderly /\ Orderly' => CopyTrue' /\ PinsAt(t)'
  BY <1>1, LossIsLoss DEF PinsInv, CopyTrue, PinsAt, Orderly
<1>5. UNCHANGED << dev, testing >> \/ req[t].pc \in {"in", "open", "off", "testoff"}
  OBVIOUS
<1> QED BY <1>1, <1>2, <1>3, <1>4, <1>5, SlotPins

LEMMA StartTestOffPins ==
    ASSUME TypeOK, ServerInv, PinsInv, NEW t \in Slots, StartTestOff(t)
    PROVE  PinsInv'
<1> USE DEF StartTestOff, At, Stop, session, pins, jobVars, threads
<1>1. /\ \A u \in Slots : u # t => /\ req'[u].pc = req[u].pc /\ req'[u].op = req[u].op
                                   /\ req[u].raced => req'[u].raced
      /\ req[t].pc = "testoff" /\ (req'[t].pc = "zero" \/ req'[t].pc = "register")
      /\ t \in UnderWay /\ req[t].raced => t \in UnderWay' /\ req'[t].raced
  BY GotoFields DEF UnderWay
<1>2. Orderly' => opened <= 1 /\ losses = 0
  BY LossIsLoss DEF Orderly
<1>3. NeverOpened'
  BY DEF PinsInv, NeverOpened
<1>4. Orderly /\ Orderly' => CopyTrue' /\ PinsAt(t)'
  <2> SUFFICES ASSUME Orderly, Orderly' PROVE CopyTrue' /\ PinsAt(t)'
    OBVIOUS
  <2>1. UnderWay = {t}
    BY <1>1 DEF ServerInv, ReqInv, ReqAt, UnderWay, Orderly
  <2>2. CASE dev # None /\ req[t].op = "job" /\ pintest
    BY <1>1, <2>2, LossIsLoss DEF CopyTrue, PinsAt, Orderly
  <2>3. CASE ~(dev # None /\ req[t].op = "job" /\ pintest)
    <3>1. dev # None /\ testing => pintest
      BY <1>1, <2>1 DEF PinsInv, CopyTrue, UnderWay
    <3>2. req'[t].op = req[t].op
      BY GotoFields
    <3> QED BY <1>1, <2>3, <3>1, <3>2 DEF CopyTrue, PinsAt
  <2> QED BY <2>2, <2>3
<1>5. UNCHANGED << dev, testing >> \/ req[t].pc \in {"in", "open", "off", "testoff"}
  OBVIOUS
<1> QED BY <1>1, <1>2, <1>3, <1>4, <1>5, SlotPins

LEMMA StartTestZeroPins ==
    ASSUME TypeOK, ServerInv, PinsInv, NEW t \in Slots, StartTestZero(t)
    PROVE  PinsInv'
<1> USE DEF StartTestZero, At, session, pins, jobVars, threads
<1>1. /\ \A u \in Slots : u # t => /\ req'[u].pc = req[u].pc /\ req'[u].op = req[u].op
                                   /\ req[u].raced => req'[u].raced
      /\ req[t].pc = "zero" /\ req'[t].pc = "register" /\ req'[t].op = req[t].op /\ req[t].op = "job"
      /\ t \in UnderWay /\ req[t].raced => t \in UnderWay' /\ req'[t].raced
  BY GotoFields DEF UnderWay, ServerInv, ReqInv, ReqAt
<1>2. Orderly' => opened <= 1 /\ losses = 0
  BY DEF Orderly
<1>3. NeverOpened'
  BY DEF PinsInv, NeverOpened
<1>4. Orderly /\ Orderly' => CopyTrue' /\ PinsAt(t)'
  BY <1>1 DEF PinsInv, CopyTrue, PinsAt
<1>5. UNCHANGED << dev, testing >> \/ req[t].pc \in {"in", "open", "off", "testoff"}
  OBVIOUS
<1> QED BY <1>1, <1>2, <1>3, <1>4, <1>5, SlotPins

LEMMA CancelJobPins ==
    ASSUME TypeOK, ServerInv, PinsInv, CancelJob
    PROVE  PinsInv'
BY DEF CancelJob, session, pins, threads, PinsInv, NeverOpened, Orderly, UnderWay, CopyTrue, PinsAt, Alive

LEMMA RegisterPins ==
    ASSUME TypeOK, ServerInv, PinsInv, NEW t \in Slots, Register(t)
    PROVE  PinsInv'
<1>1. PICK k \in Jobs :
             /\ k = started + 1 /\ started' = k
             /\ jobs'[k].drv = IF req[t].op = "job" THEN req[t].drv ELSE None
             /\ jobs'[k].alone <=> ~req[t].raced /\ \A i \in Jobs : ~Alive(i)
             /\ \A i \in Jobs : i # k =>
                  jobs'[i].alone = jobs[i].alone /\ jobs'[i].pc = jobs[i].pc
  BY RegisterFields
<1>2. /\ req[t].pc = "register" /\ req'[t] = Idle /\ \A u \in Slots : u # t => req'[u] = req[u]
      /\ UNCHANGED << dev, opened, pintest, testing, losses >>
  BY AnswerFields DEF Register, At, session, pins
<1> SUFFICES ASSUME Orderly'
             PROVE  /\ CopyTrue' /\ \A u \in Slots : PinsAt(u)'
                    /\ \A j \in Jobs : Alive(j)' /\ jobs'[j].drv # None /\ dev # None => ~testing
  BY <1>2 DEF PinsInv, NeverOpened
<1>3. k \in 1..started' /\ \A i \in 1..started : i \in Jobs /\ i # k /\ i \in 1..started'
  <2>1. started \in 0..MaxJobs /\ k \in Nat /\ k > 0 /\ Jobs = 1..MaxJobs /\ MaxJobs \in Nat
    BY Bounds, Parts DEF SharedType
  <2> QED BY <1>1, <2>1
<1>4. jobs'[k].alone /\ ~req[t].raced /\ \A i \in Jobs : ~Alive(i)
  BY <1>1, <1>3 DEF Orderly
<1>5. Orderly
  <2>1. ASSUME NEW i \in 1..started PROVE jobs[i].alone
    BY <1>1, <1>3 DEF Orderly
  <2>2. ASSUME NEW u \in UnderWay PROVE ~req[u].raced
    BY <1>2, <1>4 DEF Orderly, UnderWay
  <2> QED BY <1>2, <2>1, <2>2 DEF Orderly
<1>6. CopyTrue /\ \A u \in Slots : PinsAt(u)
  BY <1>5 DEF PinsInv
<1>7. CopyTrue' /\ \A u \in Slots : PinsAt(u)'
  BY <1>2, <1>6 DEF CopyTrue, PinsAt, Idle
<1>8. ASSUME NEW j \in Jobs, Alive(j)', jobs'[j].drv # None, dev # None PROVE ~testing
  <2>1. j = k
    BY <1>1, <1>4, <1>8 DEF Alive
  <2>2. req[t].op = "job"
    BY <1>1, <1>8, <2>1
  <2> QED BY <1>2, <1>6, <1>8, <2>2 DEF PinsAt
<1> QED BY <1>7, <1>8

LEMMA RunJobPins ==
    ASSUME TypeOK, ServerInv, PinsInv, NEW j \in Jobs, RunJob(j)
    PROVE  PinsInv'
<1>1. /\ UNCHANGED << dev, opened, pintest, testing, losses, req, started >>
      /\ jobs[j].pc \notin {"none", "gone", "dead"}
      /\ \A i \in Jobs : /\ jobs'[i].alone = jobs[i].alone
                         /\ i # j => jobs'[i].pc = jobs[i].pc /\ jobs'[i].drv = jobs[i].drv
      /\ jobs'[j].drv # None => jobs[j].drv # None
  <2> USE DEF JobAt, session, pins, threads
  <2>1. CASE JobLock(j)
    BY <2>1, JobGotoFields DEF JobLock, Kept
  <2>2. CASE JobCheck(j)
    BY <2>2, BodyEndsFields, JobGotoFields DEF JobCheck, Kept
  <2>3. CASE JobTail(j)
    BY <2>3, JobGotoFields DEF JobTail, Kept
  <2>4. CASE JobWork(j)
    <3>1. UNCHANGED << dev, opened, pintest, testing, losses, req, started >> /\ jobs[j].pc = "work"
      BY <2>4 DEF JobWork
    <3>2. CASE \E end \in Ends, pc \in {"record", "report"} : BodyEnds(j, end, pc)
      BY <3>1, <3>2, BodyEndsFields DEF Kept
    <3>3. CASE jobs' = [jobs EXCEPT ![j].pc = "check", ![j].work = @ + 1]
      BY <3>1, <3>3 DEF TypeOK
    <3> QED BY <2>4, <3>2, <3>3 DEF JobWork, Ends, Finals
  <2>5. CASE ToolWork(j)
    BY <2>5, BodyEndsFields, JobGotoFields DEF ToolWork, Kept
  <2>6. CASE JobReport(j)
    BY <2>6 DEF JobReport, TypeOK
  <2>7. CASE ResultPath(j)
    BY <2>7, JobGotoFields DEF ResultPath, Kept
  <2>8. CASE ResultMeta(j)
    BY <2>8, JobGotoFields DEF ResultMeta, Kept
  <2>9. CASE ResultLink(j)
    BY <2>9 DEF ResultLink, TypeOK
  <2>10. CASE ToolLink(j)
    <3>1. UNCHANGED << dev, opened, pintest, testing, losses, req, started >> /\ jobs[j].pc = "link"
      BY <2>10 DEF ToolLink
    <3> QED BY <2>10, <3>1, ToolLinkFields
  <2>11. CASE JobRecord(j)
    <3>1. Becomes(j, "keep", history')
      BY <2>11 DEF JobRecord, Becomes
    <3> QED BY <2>11, <3>1, RestKept DEF JobRecord
  <2>12. CASE JobKeep(j)
    <3>1. Becomes(j, "final", {}) \/ Becomes(j, "dead", {})
      BY <2>12 DEF JobKeep, Becomes
    <3> QED BY <2>12, <3>1, RestKept DEF JobKeep
  <2>13. CASE JobFinal(j)
    <3> DEFINE state == IF j = job THEN Final(jobs[j].end) ELSE "none"
    <3>1. BecomesFinal(j, "gone", state)
      BY <2>13 DEF JobFinal, BecomesFinal
    <3> HIDE DEF state
    <3> QED BY <2>13, <3>1, RestFinal DEF JobFinal
  <2> QED BY <2>1, <2>2, <2>3, <2>4, <2>5, <2>6, <2>7, <2>8, <2>9, <2>10, <2>11, <2>12, <2>13
         DEF RunJob
<1>2. \A i \in Jobs : Alive(i)' => Alive(i)
  BY <1>1 DEF Alive
<1>3. \A i \in Jobs : jobs'[i].drv # None => jobs[i].drv # None
  BY <1>1
<1>4. Orderly' => Orderly
  <2>1. \A i \in 1..started : i \in Jobs
    BY Bounds, Parts DEF SharedType
  <2> QED BY <1>1, <2>1 DEF Orderly, UnderWay
<1>5. NeverOpened' /\ (CopyTrue => CopyTrue') /\ \A t \in Slots : PinsAt(t) => PinsAt(t)'
  BY <1>1 DEF PinsInv, NeverOpened, CopyTrue, PinsAt
<1> QED BY <1>1, <1>2, <1>3, <1>4, <1>5 DEF PinsInv

LEMMA PinsAtWork ==
    ASSUME TypeOK, ServerInv, PinsInv
    PROVE  JobPinsNormal
<1> SUFFICES ASSUME opened <= 1, losses = 0, \A j \in 1..started : jobs[j].alone,
                    NEW j \in Jobs, jobs[j].pc = "work", jobs[j].drv # None, jobs[j].drv = dev
             PROVE  ~testing
  BY DEF JobPinsNormal
<1>1. Alive(j)
  BY DEF Alive
<1>2. j \in 1..started
  <2>1. j \in Nat /\ j > 0 /\ started \in Nat
    BY Bounds, Parts DEF SharedType
  <2> QED BY <1>1, <2>1, Before
<1>3. UnderWay = {}
  BY <1>1, <1>2 DEF ServerInv, AloneInv, AloneAt
<1> QED BY <1>1, <1>3 DEF PinsInv, Orderly

-----------------------------------------------------------------------------
(* The invariants and what follows from them *)

LEMMA NextType == TypeOK /\ [Next]_vars => TypeOK'
<1> SUFFICES ASSUME TypeOK, [Next]_vars PROVE TypeOK'
  OBVIOUS
<1>1. ASSUME NEW t \in Slots, Handle(t) PROVE TypeOK'
  BY <1>1, TakeLockType, DisconnectType, ConnectCloseType, ConnectOpenType,
     DetectType, UseType, PinTestType, PinTestCopyType, DoctorScanType,
     DoctorOffType, SetupType, StartCheckType, ClearCancelType,
     StartTestOffType, StartTestZeroType, RegisterType
     DEF Handle
<1>2. ASSUME NEW t \in Slots, Post(t) PROVE TypeOK'
  BY <1>2, ArriveType, CommonType, ToolCheckType DEF Post
<1>3. ASSUME NEW j \in Jobs, RunJob(j) PROVE TypeOK'
  BY <1>3, JobLockType, JobCheckType, JobTailType, JobWorkType, ToolWorkType,
     JobReportType, ResultPathType, ResultMetaType, ResultLinkType,
     ToolLinkType, JobRecordType, JobKeepType, JobFinalType
     DEF RunJob
<1>4. CASE UNCHANGED vars
  BY <1>4 DEF TypeOK, vars
<1>5. CASE CancelJob
  BY <1>5, CancelJobType
<1> QED BY <1>1, <1>2, <1>3, <1>4, <1>5 DEF Next

LEMMA NextServer == TypeOK /\ ServerInv /\ [Next]_vars => ServerInv'
<1> SUFFICES ASSUME TypeOK, ServerInv, [Next]_vars PROVE ServerInv'
  OBVIOUS
<1>1. ASSUME NEW t \in Slots, Handle(t) PROVE ServerInv'
  BY <1>1, TakeLockServer, DisconnectServer, ConnectCloseServer, ConnectOpenServer,
     DetectServer, UseServer, PinTestServer, PinTestCopyServer,
     DoctorScanServer, DoctorOffServer, SetupServer, StartCheckServer,
     ClearCancelServer, StartTestOffServer, StartTestZeroServer,
     RegisterServer
     DEF Handle
<1>2. ASSUME NEW t \in Slots, Post(t) PROVE ServerInv'
  BY <1>2, ArriveServer, CommonServer, ToolCheckServer DEF Post
<1>3. ASSUME NEW j \in Jobs, RunJob(j) PROVE ServerInv'
  BY <1>3, JobLockServer, JobCheckServer, JobTailServer, JobWorkServer,
     ToolWorkServer, JobReportServer, ResultPathServer, ResultMetaServer,
     ResultLinkServer, ToolLinkServer, JobRecordServer, JobKeepServer,
     JobFinalServer
     DEF RunJob
<1>4. CASE UNCHANGED vars
  <2>1. ReqInv' /\ JobInv'
    BY <1>4 DEF vars, ServerInv, ReqInv, ReqAt, UnderWay, JobInv, JobAtAll, IsTool
  <2>2. AloneInv' /\ RecordInv'
    BY <1>4 DEF vars, ServerInv, AloneInv, AloneAt, UnderWay, Alive, Running, RecordInv, RecordAt,
                Complete, IsTool
  <2>3. ResultInv' /\ ToldInv'
    BY <1>4 DEF vars, ServerInv, ResultInv, ResultAt, ToldInv, ToldAt, InBody
  <2> QED BY <2>1, <2>2, <2>3 DEF ServerInv
<1>5. CASE CancelJob
  BY <1>5, CancelJobServer
<1> QED BY <1>1, <1>2, <1>3, <1>4, <1>5 DEF Next

LEMMA NextPins == TypeOK /\ ServerInv /\ PinsInv /\ [Next]_vars => PinsInv'
<1> SUFFICES ASSUME TypeOK, ServerInv, PinsInv, [Next]_vars PROVE PinsInv'
  OBVIOUS
<1>1. ASSUME NEW t \in Slots, Handle(t) PROVE PinsInv'
  BY <1>1, TakeLockPins, DisconnectPins, ConnectClosePins, ConnectOpenPins,
     DetectPins, UsePins, PinTestPins, PinTestCopyPins, DoctorScanPins,
     DoctorOffPins, SetupPins, StartCheckPins, ClearCancelPins,
     StartTestOffPins, StartTestZeroPins, RegisterPins
     DEF Handle
<1>2. ASSUME NEW t \in Slots, Post(t) PROVE PinsInv'
  BY <1>2, ArrivePins, CommonPins, ToolCheckPins DEF Post
<1>3. ASSUME NEW j \in Jobs, RunJob(j) PROVE PinsInv'
  BY <1>3, RunJobPins
     DEF RunJob
<1>4. CASE UNCHANGED vars
  BY <1>4 DEF vars, PinsInv, NeverOpened, Orderly, UnderWay, CopyTrue, PinsAt, Alive
<1>5. CASE CancelJob
  BY <1>5, CancelJobPins
<1> QED BY <1>1, <1>2, <1>3, <1>4, <1>5 DEF Next

\* The shared state of the server keeps its shape, whatever its clients ask for.
THEOREM TypeCorrect == Spec => []TypeOK
<1>1. Init => TypeOK
  BY InitType
<1>2. TypeOK /\ [Next]_vars => TypeOK'
  BY NextType
<1> QED BY <1>1, <1>2, PTL DEF Spec

\* Whatever its clients ask for, and whenever: a handler or a job that uses the
\* session between two of its steps holds st.lock; a job that started alone stays the
\* one that is shown, nobody passes the look for a running job until its thread has
\* ended, and its record, its result and the event are as far as its thread is.
THEOREM ServerInvariant == Spec => [](TypeOK /\ ServerInv)
<1>1. Init => ServerInv
  BY InitServer
<1>2. TypeOK /\ ServerInv /\ [Next]_vars => ServerInv'
  BY NextServer
<1> QED BY <1>1, <1>2, TypeCorrect, PTL DEF Spec

\* app.py, "One programmer session and one job at a time": a job that started alone
\* has the device for itself, but for the clock and timing commands of a start that
\* is refused; no job has its session closed between two blocks.
THEOREM OneAtTheDevice == Spec => []DeviceExclusive
<1>1. ASSUME TypeOK, ServerInv PROVE DeviceExclusive
  <2>1. ASSUME NEW j \in Jobs, jobs[j].alone, Alive(j)
        PROVE  /\ \A i \in Jobs \ {j} : ~Alive(i)
               /\ AtDevice \subseteq {Job(j)} \cup {Slot(t) : t \in {u \in Slots : At(u, "setup")}}
    <3>1. UnderWay = {} /\ \A i \in Jobs \ {j} : ~Alive(i)
      BY <1>1, <2>1 DEF ServerInv, AloneInv, AloneAt
    <3>2. ASSUME NEW t \in Slots,
                 req[t].pc \in {"in", "open", "off", "copyon", "copyoff", "setup", "testoff"}
          PROVE  At(t, "setup")
      BY <3>1, <3>2 DEF UnderWay, At
    <3>3. ASSUME NEW i \in Jobs, jobs[i].pc \in {"check", "work", "tail"} PROVE i = j
      BY <3>1, <3>3 DEF Alive
    <3> QED BY <3>1, <3>2, <3>3 DEF AtDevice
  <2>2. ASSUME NEW j \in Jobs, jobs[j].work > 0, jobs[j].pc \in {"check", "work"}
        PROVE  jobs[j].drv = dev
    BY <1>1, <2>2 DEF ServerInv, JobInv, JobAtAll
  <2> QED BY <2>1, <2>2 DEF DeviceExclusive
<1> QED BY <1>1, ServerInvariant, PTL

\* run() in _start: "state" changes last, and the link of the job that is shown
\* leads to its own file under its own name, if the job started alone.
THEOREM StateLast == Spec => []ResultsBeforeState
<1>1. ASSUME TypeOK, ServerInv PROVE ResultsBeforeState
  <2>1. ASSUME NEW j \in Jobs, jobs[j].alone, jobs[j].state \in Finals
        PROVE  /\ j \in history
               /\ jobs[j].end \in {"done", "failed"} => jobs[j].report
               /\ jobs[j].end = "done" /\ jobs[j].file => jobs[j].download
    BY <1>1, <2>1 DEF ServerInv, RecordInv, RecordAt, Complete
  <2>2. ASSUME NEW j \in Jobs, jobs[j].alone, j = job, jobs[j].download
        PROVE  result = [path |-> j, meta |-> j]
    BY <1>1, <2>2 DEF ServerInv, ResultInv, ResultAt
  <2> QED BY <2>1, <2>2 DEF ResultsBeforeState
<1> QED BY <1>1, ServerInvariant, PTL

\* job_cancel and Context.check: a job that started alone and was told to cancel
\* works on one block more at most.
THEOREM CancelHeeded == Spec => []CancelStopsSoon
<1>1. ASSUME ServerInv, NEW j \in Jobs, jobs[j].alone, told[j] # NotTold PROVE told[j] <= 1
  <2>1. told[j] = 0 \/ told[j] = 1
    BY <1>1 DEF ServerInv, ToldInv, ToldAt
  <2> QED BY <2>1
<1>2. ServerInv => CancelStopsSoon
  BY <1>1 DEF CancelStopsSoon
<1> QED BY <1>2, ServerInvariant, PTL

\* _pintest_off in _start: as long as nothing raced in the first session and no reply
\* was lost, no job works on the chip while the engine drives its pins in PIN_TEST mode.
THEOREM PinsHandedBack == Spec => []JobPinsNormal
<1>1. Init => PinsInv
  BY InitPins
<1>2. TypeOK /\ ServerInv /\ PinsInv /\ [Next]_vars => PinsInv'
  BY NextPins
<1>3. ASSUME TypeOK, ServerInv, PinsInv PROVE JobPinsNormal
  BY <1>3, PinsAtWork
<1> QED BY <1>1, <1>2, <1>3, ServerInvariant, PTL DEF Spec
=============================================================================

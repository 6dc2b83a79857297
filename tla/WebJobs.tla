------------------------------ MODULE WebJobs ------------------------------
(***************************************************************************)
(* The web front end (web/app.py): requests are handled by threads that    *)
(* share one State object, the reentrant lock st.lock, the Event st.cancel *)
(* and one Device; a job runs in a thread of its own.  Modelled are the    *)
(* steps of the handlers that touch that shared state, in the order of the *)
(* code, each of them interleaving with those of the other threads.        *)
(*                                                                         *)
(* Clients post what they like, when they like: index.html disables its    *)
(* buttons by the last snapshot only, its drop zone not even by that, and  *)
(* its live view of the pins polls next to everything else.                *)
(*                                                                         *)
(* Not modelled: what a job does to the chip (FlashJobs), the contents of  *)
(* reports and result files, settings, DELETE /api/history, /api/quit (the *)
(* process ends).                                                          *)
(***************************************************************************)
EXTENDS Naturals, FiniteSets

CONSTANTS
    NumSlots,   \* requests in flight at a time, of one page or of several
    Mixes,      \* bound: what the requests in each slot ask for, in one behaviour
                \* or another
    MaxJobs,    \* bound: jobs started in a behaviour
    MaxConns,   \* bound: sessions opened in a behaviour
    MaxWork,    \* bound: blocks a job works through
    MaxLosses   \* bound: replies of PIN_TEST commands the link loses

None == 0       \* no session, no driver, no job
Slots == 1..NumSlots
Jobs == 1..MaxJobs
Sessions == 1..MaxConns
LockOps == {"connect", "disconnect", "detect", "use", "doctor", "pintest"}
Ops == LockOps \cup {"job", "tool"}
Finals == {"done", "failed", "cancelled"}
Ends == Finals \cup {"raised"}     \* how the body of a job ended
Final(end) == IF end = "raised" THEN "failed" ELSE end

\* the threads that can hold st.lock
Free == << "free", 0 >>
Slot(t) == << "request", t >>
Job(j) == << "job", j >>

ASSUME BoundsAssumption ==
    /\ MaxJobs \in Nat \ {0} /\ MaxConns \in Nat \ {0} /\ MaxWork \in Nat \ {0}
    /\ NumSlots \in Nat \ {0} /\ MaxLosses \in Nat
    /\ Mixes \subseteq [Slots -> SUBSET Ops]

VARIABLES
    asks,       \* what the requests in each slot ask for in this behaviour
    dev,        \* st.dev: the open session, None when not connected
    drv,        \* st.nand / st.spi: the session the drivers were made for
    opened,     \* number of sessions opened so far
    pintest,    \* st.pintest: the host's copy of the PIN_TEST mode (on or off)
    testing,    \* the mode the engine really is in
    job,        \* st.job
    started,    \* number of jobs started so far
    jobs,       \* jobs[j]: the record and the thread of job j
    history,    \* the jobs in st.history
    cancel,     \* st.cancel
    result,     \* st.result_path and st.result_meta: the jobs they are of
    losses,     \* number of replies lost so far
    lock,       \* holder of st.lock
    req,        \* req[t]: the request in slot t and how far its handler is
    told        \* told[j]: blocks j worked on since it was told to cancel

vars == << asks, dev, drv, opened, pintest, testing, job, started, jobs, history,
           cancel, result, losses, lock, req, told >>
session == << asks, dev, drv, opened >>
pins == << pintest, testing, losses >>
jobVars == << job, started, jobs, history, told, result >>
threads == << job, started, history >>

NotTold == MaxWork + 2
Idle == [op |-> "none", pc |-> "idle", drv |-> None, raced |-> FALSE]
NoJob == [state |-> "none", pc |-> "none", drv |-> None, file |-> FALSE, work |-> 0,
          end |-> "done", report |-> FALSE, download |-> FALSE, copy |-> {},
          alone |-> FALSE]

TypeOK ==
    /\ asks \in [Slots -> SUBSET Ops]
    /\ dev \in Sessions \cup {None} /\ drv \in Sessions \cup {None}
    /\ opened \in 0..MaxConns /\ started \in 0..MaxJobs
    /\ pintest \in BOOLEAN /\ testing \in BOOLEAN /\ cancel \in BOOLEAN
    /\ job \in Jobs \cup {None}
    /\ jobs \in [Jobs -> [state : Finals \cup {"none", "running"},
                          pc : {"none", "wait", "check", "work", "tail", "report",
                                "path", "meta", "link", "record", "keep", "final",
                                "gone", "dead"},
                          drv : Sessions \cup {None}, file : BOOLEAN,
                          work : 0..MaxWork, end : Ends, report : BOOLEAN,
                          download : BOOLEAN, copy : SUBSET Jobs, alone : BOOLEAN]]
    /\ result \in [path : Jobs \cup {None}, meta : Jobs \cup {None}]
    /\ losses \in 0..MaxLosses
    /\ history \subseteq Jobs
    /\ lock \in {Free} \cup {Slot(t) : t \in Slots} \cup {Job(j) : j \in Jobs}
    /\ req \in [Slots -> [op : Ops \cup {"none"},
                         pc : {"idle", "lock", "in", "open", "off", "copyon", "copyoff",
                               "setup", "start", "clear", "testoff", "zero",
                               "register"},
                         drv : Sessions \cup {None}, raced : BOOLEAN]]
    /\ told \in [Jobs -> 0..NotTold]

Init ==
    /\ asks \in Mixes
    /\ dev = None /\ drv = None /\ opened = 0
    /\ pintest = FALSE /\ testing = FALSE
    /\ job = None /\ started = 0 /\ jobs = [j \in Jobs |-> NoJob]
    /\ history = {} /\ told = [j \in Jobs |-> NotTold]
    /\ result = [path |-> None, meta |-> None] /\ losses = 0
    /\ cancel = FALSE /\ lock = Free
    /\ req = [t \in Slots |-> Idle]

-----------------------------------------------------------------------------
(* Requests. *)

\* _busy
Busy == job # None /\ jobs[job].state = "running"

At(t, pc) == req[t].pc = pc
Goto(t, pc) == req' = [req EXCEPT ![t].pc = pc]
Answer(t) == req' = [req EXCEPT ![t] = Idle]

\* The handlers that looked for a running job and have not answered yet.
UnderWay == {t \in Slots : req[t].pc \notin {"idle", "setup", "start"}}

\* A handler found no job running and goes on.  History, for the properties: a
\* start has raced if another handler was under way together with it.
Starts == {"job", "tool"}
GoOn(t, op, pc) ==
    LET others == UnderWay \ {t}
    IN req' = [u \in Slots |->
                 IF u = t
                 THEN [op |-> op, pc |-> pc, drv |-> req[t].drv,
                       raced |-> op \in Starts /\ others # {}]
                 ELSE [req[u] EXCEPT !.raced = @ \/ (u \in others /\ req[u].op \in Starts)]]

\* What comes before the first look for a running job: some need a session.
CanPost(t, op) ==
    /\ req[t] = Idle /\ op \in asks[t]
    /\ op \in {"detect", "use"} => dev # None

\* Slip: the requests that use the device do not look.
ArriveAnyhow(t, op) ==
    /\ op \in LockOps /\ CanPost(t, op)
    /\ op = "use" \/ ~Busy
    /\ GoOn(t, op, "lock")
    /\ UNCHANGED << session, pins, jobVars, cancel, lock >>

\* A request that needs the lock comes in.  "a job is running": 409, and nothing
\* has changed; else it waits for the lock.
Arrive(t, op) ==
    /\ op \in LockOps /\ CanPost(t, op)
    /\ ~Busy
    /\ GoOn(t, op, "lock")
    /\ UNCHANGED << session, pins, jobVars, cancel, lock >>

TakeLock(t) ==
    /\ At(t, "lock") /\ lock = Free
    /\ lock' = Slot(t) /\ Goto(t, "in")
    /\ UNCHANGED << session, pins, jobVars, cancel >>

\* Device.close leaves the engine in its PIN_TEST mode; only the host's copy
\* of it is reset.
CloseSession == dev' = None /\ drv' = None /\ pintest' = FALSE

Disconnect(t) ==
    /\ At(t, "in") /\ req[t].op = "disconnect"
    /\ CloseSession /\ lock' = Free /\ Answer(t)
    /\ UNCHANGED << asks, opened, testing, losses, jobVars, cancel >>

ConnectClose(t) ==
    /\ At(t, "in") /\ req[t].op = "connect"
    /\ CloseSession /\ Goto(t, "open")
    /\ UNCHANGED << asks, opened, testing, losses, jobVars, cancel, lock >>

\* connect() opens a new session, or raises and leaves none
ConnectOpen(t) ==
    /\ At(t, "open")
    /\ \/ opened < MaxConns /\ opened' = opened + 1 /\ dev' = opened'
       \/ UNCHANGED << opened, dev >>
    /\ lock' = Free /\ Answer(t)
    /\ UNCHANGED << asks, drv, pins, jobVars, cancel >>

Lose == losses < MaxLosses /\ losses' = losses + 1

\* doctor.stop: a PT_OFF whose failure is swallowed
Stop ==
    \/ testing' = FALSE /\ UNCHANGED losses
    \/ Lose /\ UNCHANGED testing

\* _pintest_off, then detect(): it finds a chip, or none, or raises
Detect(t) ==
    /\ At(t, "in") /\ req[t].op = "detect"
    /\ IF dev = None THEN UNCHANGED drv ELSE drv' \in {dev, None, drv}
    /\ IF dev # None /\ pintest THEN pintest' = FALSE /\ Stop ELSE UNCHANGED pins
    /\ lock' = Free /\ Answer(t)
    /\ UNCHANGED << asks, dev, opened, jobVars, cancel >>

\* /api/pins, /api/selftest, /api/ft232h/tune: batches on the device, nothing
\* of the shared state but what the page shows
Use(t) ==
    /\ At(t, "in") /\ req[t].op = "use"
    /\ lock' = Free /\ Answer(t)
    /\ UNCHANGED << session, pins, jobVars, cancel >>

\* A lost reply raises: the engine may have taken the mode, the host keeps its
\* old copy.
PinTest(t) ==
    /\ At(t, "in") /\ req[t].op = "pintest"
    /\ IF dev = None THEN UNCHANGED << testing, losses >> /\ lock' = Free /\ Answer(t)
       ELSE /\ testing' \in BOOLEAN
            /\ \/ Goto(t, IF testing' THEN "copyon" ELSE "copyoff") /\ UNCHANGED << losses, lock >>
               \/ Lose /\ lock' = Free /\ Answer(t)
    /\ UNCHANGED << session, pintest, jobVars, cancel >>

\* st.pintest
PinTestCopy(t) ==
    /\ \/ At(t, "copyon") /\ pintest' = TRUE
       \/ At(t, "copyoff") /\ pintest' = FALSE
    /\ lock' = Free /\ Answer(t)
    /\ UNCHANGED << session, testing, losses, jobVars, cancel >>

\* /api/doctor, /api/troubleshoot: the copy is cleared first; then the scan
\* drives the pins, if the checks have one and it gets that far ...
DoctorScan(t) ==
    /\ At(t, "in") /\ req[t].op = "doctor"
    /\ IF dev = None THEN UNCHANGED << pintest, testing >> /\ lock' = Free /\ Answer(t)
       ELSE /\ pintest' = FALSE /\ testing' \in {testing, TRUE} /\ UNCHANGED lock
            /\ Goto(t, "off")
    /\ UNCHANGED << session, losses, jobVars, cancel >>

\* ... and whether it raised or not, the pins are handed back.
DoctorOff(t) ==
    /\ At(t, "off") /\ Stop
    /\ lock' = Free /\ Answer(t)
    /\ UNCHANGED << session, pintest, jobVars, cancel >>

\* The body of the job may still look at the event.
InBody(j) == jobs[j].pc \in {"wait", "check", "work"}

\* job_cancel sets the event, whichever job it was meant for
CancelJob ==
    /\ cancel' = TRUE
    /\ told' = IF Busy /\ InBody(job) /\ told[job] = NotTold
               THEN [told EXCEPT ![job] = 0] ELSE told
    /\ UNCHANGED << session, pins, threads, jobs, result, lock, req >>

-----------------------------------------------------------------------------
(* Starting a job: _common and _start, without the lock. *)

\* A request for a job on the chip comes in; _driver refuses it without a driver.
Common(t) ==
    /\ req[t] = Idle /\ "job" \in asks[t] /\ started < MaxJobs /\ drv # None
    /\ req' = [req EXCEPT ![t] = [Idle EXCEPT !.op = "job", !.pc = "setup", !.drv = drv]]
    /\ UNCHANGED << session, pins, jobVars, cancel, lock >>

\* set_spi_clock on the open session, set_timing on the driver's: without any
\* look for a running job.  A driver of a closed session raises, if it is used.
Setup(t) ==
    /\ At(t, "setup")
    /\ \/ dev # None /\ Goto(t, "start")
       \/ req[t].drv # dev /\ Answer(t)
    /\ UNCHANGED << session, pins, jobVars, cancel, lock >>

\* Slip: cleared before the check.
StartClearing(t) ==
    /\ At(t, "start") /\ cancel' = FALSE
    /\ IF Busy THEN Answer(t) ELSE GoOn(t, "job", "clear")
    /\ UNCHANGED << session, pins, jobVars, lock >>

\* Slip: a job may run already.
StartAnyhow(t) ==
    /\ At(t, "start") /\ GoOn(t, "job", "clear")
    /\ UNCHANGED << session, pins, jobVars, cancel, lock >>

StartCheck(t) ==
    /\ At(t, "start")
    /\ IF Busy THEN Answer(t) ELSE started < MaxJobs /\ GoOn(t, "job", "clear")
    /\ UNCHANGED << session, pins, jobVars, cancel, lock >>

\* A request for an offline tool comes in: _start at once.
ToolCheck(t) ==
    /\ req[t] = Idle /\ "tool" \in asks[t] /\ started < MaxJobs /\ ~Busy
    /\ GoOn(t, "tool", "clear")
    /\ UNCHANGED << session, pins, jobVars, cancel, lock >>

ClearCancel(t) ==
    /\ At(t, "clear") /\ cancel' = FALSE /\ Goto(t, "testoff")
    /\ UNCHANGED << session, pins, jobVars, lock >>

\* Slip: only the copy is cleared.
StartTestOffHostOnly(t) ==
    /\ At(t, "testoff") /\ Goto(t, IF pintest THEN "zero" ELSE "register")
    /\ UNCHANGED << session, pins, jobVars, cancel, lock >>

\* _pintest_off
StartTestOff(t) ==
    /\ At(t, "testoff")
    /\ IF dev # None /\ req[t].op = "job" /\ pintest
       THEN Stop /\ Goto(t, "zero")
       ELSE UNCHANGED << testing, losses >> /\ Goto(t, "register")
    /\ UNCHANGED << session, pintest, jobVars, cancel, lock >>

StartTestZero(t) ==
    /\ At(t, "zero") /\ pintest' = FALSE /\ Goto(t, "register")
    /\ UNCHANGED << session, testing, losses, jobVars, cancel, lock >>

\* The record of a job whose thread has ended is gone when st.job is another.
Forgotten(j) == [NoJob EXCEPT !.pc = jobs[j].pc, !.alone = jobs[j].alone]

\* A job whose thread has work left.
Alive(j) == jobs[j].pc \notin {"none", "gone", "dead"}

\* st.job = job; Thread(target=run).start(): a job on the chip or an offline
\* tool, with or without a file to download.  alone is history: no handler was
\* under way together with this one, and no thread of another job was left.
Register(t) ==
    /\ At(t, "register") /\ started < MaxJobs
    /\ started' = started + 1 /\ job' = started'
    /\ \E file \in BOOLEAN :
         jobs' = [j \in Jobs |->
                    IF j = started + 1
                    THEN [NoJob EXCEPT !.state = "running", !.pc = "wait", !.file = file,
                            !.drv = IF req[t].op = "job" THEN req[t].drv ELSE None,
                            !.alone = ~req[t].raced /\ \A i \in Jobs : ~Alive(i)]
                    ELSE IF Alive(j) THEN jobs[j] ELSE Forgotten(j)]
    /\ Answer(t)
    /\ UNCHANGED << session, pins, history, told, result, cancel, lock >>

-----------------------------------------------------------------------------
(* The thread of a job: run() of _start. *)

JobAt(j, pc) == jobs[j].pc = pc
JobGoto(j, pc) == jobs' = [jobs EXCEPT ![j].pc = pc]
IsTool(j) == jobs[j].drv = None

\* an offline tool never asks whether it was cancelled
JobLock(j) ==
    /\ JobAt(j, "wait") /\ lock = Free
    /\ lock' = Job(j) /\ JobGoto(j, IF IsTool(j) THEN "work" ELSE "check")
    /\ UNCHANGED << session, pins, threads, told, result, cancel, req >>

\* fn(ctx) returned or raised: the with block gives the lock back
BodyEnds(j, end, pc) ==
    /\ jobs' = [jobs EXCEPT ![j].pc = pc, ![j].end = end]
    /\ lock' = Free

\* ctx.check before each block.  The traceback of Cancelled keeps a verify's
\* generator alive until it is handled, outside the lock.
JobCheck(j) ==
    /\ JobAt(j, "check")
    /\ IF cancel THEN \E pc \in {"tail", "record"} : BodyEnds(j, "cancelled", pc)
       ELSE JobGoto(j, "work") /\ UNCHANGED lock
    /\ UNCHANGED << session, pins, threads, told, result, cancel, req >>

\* the generator's finally: _quad_end sends its commands
JobTail(j) ==
    /\ JobAt(j, "tail") /\ JobGoto(j, "record")
    /\ UNCHANGED << session, pins, threads, told, result, cancel, lock, req >>

\* A block worked on: one step closer to the end, also when told to cancel.
Worked(j) == told' = IF told[j] = NotTold THEN told ELSE [told EXCEPT ![j] = @ + 1]

\* One block, or a closed device; then the next block or the end of the body.
JobWork(j) ==
    /\ JobAt(j, "work") /\ ~IsTool(j)
    /\ IF jobs[j].drv # dev
       THEN BodyEnds(j, "raised", "record") /\ UNCHANGED told
       ELSE /\ Worked(j)
            /\ \/ \E end \in {"done", "failed"} : BodyEnds(j, end, "report")
               \/ BodyEnds(j, "raised", "record")
               \/ /\ jobs[j].work < MaxWork
                  /\ jobs' = [jobs EXCEPT ![j].pc = "check", ![j].work = @ + 1]
                  /\ UNCHANGED lock
    /\ UNCHANGED << session, pins, threads, result, cancel, req >>

\* fn of an offline tool: it reports, raises, or sets the result first and then
\* returns.
ToolWork(j) ==
    /\ JobAt(j, "work") /\ IsTool(j) /\ Worked(j)
    /\ \/ BodyEnds(j, "failed", "report") \/ BodyEnds(j, "raised", "record")
       \/ ~jobs[j].file /\ BodyEnds(j, "done", "report")
       \/ jobs[j].file /\ JobGoto(j, "path") /\ UNCHANGED lock
    /\ UNCHANGED << session, pins, threads, result, cancel, req >>

\* job["report"] and on_done; the body did not raise.
JobReport(j) ==
    /\ JobAt(j, "report")
    /\ jobs' = [jobs EXCEPT ![j].report = TRUE,
                 ![j].pc = IF ~IsTool(j) /\ jobs[j].file /\ jobs[j].end = "done"
                           THEN "path" ELSE "record"]
    /\ UNCHANGED << session, pins, threads, told, result, cancel, lock, req >>

\* Slip: the link is set before the name.
ResultPathLinked(j) ==
    /\ JobAt(j, "path") /\ result' = [result EXCEPT !.path = j]
    /\ jobs' = [jobs EXCEPT ![j].download = TRUE, ![j].pc = "meta"]
    /\ UNCHANGED << session, pins, threads, told, cancel, lock, req >>

\* st.result_path
ResultPath(j) ==
    /\ JobAt(j, "path") /\ result' = [result EXCEPT !.path = j] /\ JobGoto(j, "meta")
    /\ UNCHANGED << session, pins, threads, told, cancel, lock, req >>

\* st.result_name, st.result_meta
ResultMeta(j) ==
    /\ JobAt(j, "meta") /\ result' = [result EXCEPT !.meta = j] /\ JobGoto(j, "link")
    /\ UNCHANGED << session, pins, threads, told, cancel, lock, req >>

\* job["download"]
ResultLink(j) ==
    /\ JobAt(j, "link") /\ ~IsTool(j)
    /\ jobs' = [jobs EXCEPT ![j].download = TRUE, ![j].pc = "record"]
    /\ UNCHANGED << session, pins, threads, told, result, cancel, lock, req >>

\* set_result of a tool sets the link of st.job, whichever job that is; the tool
\* may still find its image damaged, or raise, after it.
ToolLink(j) ==
    /\ JobAt(j, "link") /\ IsTool(j)
    /\ \E end \in {"done", "failed", "raised"} :
         jobs' = [i \in Jobs |->
                    LET linked == [jobs[i] EXCEPT !.download = (@ \/ i = job)]
                    IN IF i = j THEN [linked EXCEPT !.pc = IF end = "raised" THEN "record" ELSE "report",
                                               !.end = end] ELSE linked]
    /\ lock' = Free
    /\ UNCHANGED << session, pins, threads, told, result, cancel, req >>

\* What still matters of a record once the body has ended; nothing of it is seen
\* if the page shows another job.
Rest(j) ==
    IF j = job
    THEN [jobs[j] EXCEPT !.drv = None, !.work = 0,
                         !.file = jobs[j].file /\ jobs[j].end = "done"]
    ELSE Forgotten(j)

\* _record: the entry is appended, and the list cut to its last 500 ...
JobRecord(j) ==
    /\ JobAt(j, "record")
    /\ history' = history \cup {j}
    /\ jobs' = [jobs EXCEPT ![j] = [Rest(j) EXCEPT !.pc = "keep", !.copy = history']]
    /\ told' = [told EXCEPT ![j] = NotTold]
    /\ UNCHANGED << session, pins, job, started, result, cancel, lock, req >>

\* ... into a new one, which takes its place.  _save_json may raise, outside the
\* try of run(): then the thread ends here, and the state never changes.
JobKeep(j) ==
    /\ JobAt(j, "keep")
    /\ history' = jobs[j].copy
    /\ \E pc \in {"final", "dead"} :
         jobs' = [jobs EXCEPT ![j] = [Rest(j) EXCEPT !.pc = pc, !.copy = {}]]
    /\ UNCHANGED << session, pins, job, started, told, result, cancel, lock, req >>

\* The state changes last.
JobFinal(j) ==
    /\ JobAt(j, "final")
    /\ jobs' = [jobs EXCEPT ![j] =
                  [Rest(j) EXCEPT !.pc = "gone",
                                  !.state = IF j = job THEN Final(jobs[j].end) ELSE "none"]]
    /\ UNCHANGED << session, pins, threads, told, result, cancel, lock, req >>

-----------------------------------------------------------------------------
Post(t) == Common(t) \/ ToolCheck(t) \/ \E op \in LockOps : Arrive(t, op)

Handle(t) ==
    \/ TakeLock(t) \/ Disconnect(t) \/ ConnectClose(t) \/ ConnectOpen(t) \/ Detect(t)
    \/ Use(t) \/ PinTest(t) \/ PinTestCopy(t) \/ DoctorScan(t)
    \/ DoctorOff(t) \/ Setup(t) \/ StartCheck(t) \/ ClearCancel(t) \/ StartTestOff(t)
    \/ StartTestZero(t) \/ Register(t)

RunJob(j) ==
    \/ JobLock(j) \/ JobCheck(j) \/ JobTail(j) \/ JobWork(j) \/ ToolWork(j)
    \/ JobReport(j) \/ ResultPath(j) \/ ResultMeta(j) \/ ResultLink(j) \/ ToolLink(j)
    \/ JobRecord(j) \/ JobKeep(j) \/ JobFinal(j)

Next ==
    \/ \E t \in Slots : Post(t) \/ Handle(t)
    \/ CancelJob
    \/ \E j \in Jobs : RunJob(j)

Spec == Init /\ [][Next]_vars

\* Threads that can run do; nobody has to post a request.
FairSpec ==
    /\ Spec
    /\ \A t \in Slots : WF_vars(Handle(t))
    /\ \A j \in Jobs : WF_vars(RunJob(j))

-----------------------------------------------------------------------------
(* What is promised.  Device has no lock of its own, so no two threads may    *)
(* be inside it; the server keeps them apart by st.lock and by looking for a *)
(* running job.  Between that look and what follows from it a handler holds  *)
(* nothing, so most of what follows is said of jobs that started alone.      *)

Running(j) == jobs[j].state = "running"

\* The threads that are sending commands to the device.
AtDevice ==
    {Slot(t) : t \in {u \in Slots :
                 req[u].pc \in {"in", "open", "off", "copyon", "copyoff", "setup",
                               "testoff"}}}
    \cup {Job(j) : j \in {i \in Jobs : /\ jobs[i].drv # None
                                      /\ jobs[i].pc \in {"check", "work", "tail"}}}

\* "One programmer session and one job at a time" (app.py, module docstring):
\* while a job that started alone is running, no other job runs and no other
\* thread is at the device, not even when the end of a cancelled quad read is
\* sent after the lock was given back - but for the clock and timing commands
\* of a request that will be refused (_common, before any look).  And no job,
\* however it started, has its session closed or its drivers replaced between
\* one block and the next.
DeviceExclusive ==
    /\ \A j \in Jobs : jobs[j].alone /\ Alive(j) =>
         /\ \A i \in Jobs \ {j} : ~Alive(i)
         /\ AtDevice \subseteq {Job(j)} \cup {Slot(t) : t \in {u \in Slots : At(u, "setup")}}
    /\ \A j \in Jobs : jobs[j].work > 0 /\ jobs[j].pc \in {"check", "work"} => jobs[j].drv = dev

\* "state" changes last, because clients treat a non-running state as "all
\* results available": a job that is no longer running has, if it started
\* alone, its history entry and, unless it raised or was cancelled, its report;
\* one that is done and makes a file offers it.  The link of such a job, as
\* long as the page shows the job, leads to that job's file, under its name.
ResultsBeforeState ==
    \A j \in Jobs : jobs[j].alone =>
      /\ jobs[j].state \in Finals =>
           /\ j \in history
           /\ jobs[j].end \in {"done", "failed"} => jobs[j].report
           /\ jobs[j].end = "done" /\ jobs[j].file => jobs[j].download
      /\ j = job /\ jobs[j].download => result = [path |-> j, meta |-> j]

\* A cancel that came in while a job was running that started alone lets it
\* finish at most the block it was working on: no other request, whether it is
\* accepted or refused, takes the cancel back.
CancelStopsSoon == \A j \in Jobs : jobs[j].alone /\ told[j] # NotTold => told[j] <= 1

\* "Hand the pins back to normal operation before any other command": in the
\* first session, as long as every job started alone and no reply to a PIN_TEST
\* was lost, no job works on the chip while the engine is in PIN_TEST mode.
JobPinsNormal ==
    opened <= 1 /\ losses = 0 /\ (\A j \in 1..started : jobs[j].alone) =>
      \A j \in Jobs : jobs[j].pc = "work" /\ jobs[j].drv # None /\ jobs[j].drv = dev => ~testing

\* The job that the page shows leaves the state "running", unless its history
\* entry could not be written: the requests that come in meanwhile are refused,
\* so nobody keeps the lock from it for ever.
JobEnds ==
    \A j \in Jobs : Running(j) ~> ~Running(j) \/ jobs[j].pc = "dead" \/ job # j
=============================================================================

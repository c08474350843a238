--------------------------- MODULE ReleaseProofs ---------------------------
(***************************************************************************)
(* What the two workflows let out to PyPI, for any number of candidate     *)
(* runs, of platforms and of publishing jobs, however often each is        *)
(* repeated.                                                               *)
(*                                                                         *)
(* The argument follows a set of bytes through the pipeline.  A suite that *)
(* passed stays on record (tested), so evidence of a passing cell, the     *)
(* gate made of it, the copy of the gate a job downloads and the lock that *)
(* the job verified each stand for suites that did pass on those bytes,    *)
(* even when the run that made them has moved on since.                    *)
(***************************************************************************)
EXTENDS Release, TLAPS

Status == {"none", "pass", "fail"}
AGate == [status : Status, lock : Nat]
ABuild == [run : Runs, commit : Nat, wheel : Nat \ {0}]
ARun == [phase : {"new", "preflight", "build", "unfrozen", "cells", "over"},
         commit : Nat, attempts : Nat, preflight : Status, lock : Nat, gate : AGate,
         conclusion : {"none", "success", "failure"}]
ACell == [phase : {"skipped", "waiting", "installed", "tested", "passed", "failed"},
          installed : Nat]
SomeEvidence == [status : {"none", "pass"}, build : Nat]
AJob == [phase : {"new", "lock", "gate", "verify", "approval", "relock", "regate", "reverify",
                  "wheel", "sdist", "published", "dead"},
         run : Runs \cup {None}, commit : Nat, version : Versions \cup {None}, bytes : Nat,
         lock : Nat, gate : AGate, approval : Nat, lost : BOOLEAN]

Typed ==
    /\ main \in Nat /\ builds \in Seq(ABuild)
    /\ pypi \in [Versions -> [wheel : Nat, sdist : Nat]]
    /\ run \in [Runs -> ARun]
    /\ cell \in [Runs -> [Cells -> ACell]]
    /\ evidence \in [Runs -> [Cells -> SomeEvidence]]
    /\ job \in [Jobs -> AJob]

\* A cell's suite passed on the bytes of build b; the examples have only its wheel.
Tried(c, b) == (IF c = Examples THEN <<c, Wheel(b)>> ELSE <<c, b>>) \in tested

Built(b) == b \in 1..Len(builds)
TrueGate(g) == g.status = "pass" => Built(g.lock) /\ \A c \in Cells : Tried(c, g.lock)

\* Nothing a candidate run shows says more than what was tried.
TrueRun(r) ==
    /\ run[r].lock <= Len(builds)
    /\ TrueGate(run[r].gate)
    /\ \A c \in Cells :
          /\ evidence[r][c].build <= Len(builds)
          /\ evidence[r][c].status = "pass" => Tried(c, evidence[r][c].build)
          /\ cell[r][c].phase = "tested" => InRun(r, "cells") /\ Tried(c, run[r].lock)

\* The phases of a publishing job after its first verification.
Verified == {"approval", "relock", "regate", "reverify", "wheel", "sdist", "published"}

\* What a job has verified was asked for, has its version and was tried everywhere;
\* it goes to PyPI under the lock that was verified, the wheel first.
TrueOrder(x) ==
    /\ x.lock <= Len(builds) /\ x.bytes <= Len(builds)
    /\ TrueGate(x.gate)
    /\ x.phase \notin {"new", "dead"} \/ x.approval # None =>
          x.run \in Runs /\ x.version \in Versions /\ Built(x.bytes)
    /\ x.phase \in Verified => x.approval # None
    /\ x.phase = "new" => x.approval = None
    /\ x.approval # None =>
          /\ x.approval = x.bytes
          /\ Version[builds[x.bytes].commit] = x.version
          /\ \A c \in Cells : Tried(c, x.bytes)
    /\ x.phase \in {"wheel", "sdist"} => x.lock = x.bytes
    /\ x.phase = "sdist" => pypi[x.version].wheel = Wheel(x.bytes)
TrueJob(j) == TrueOrder(job[j])

ReleaseInv ==
    /\ Typed
    /\ \A r \in Runs : TrueRun(r)
    /\ \A j \in Jobs : TrueJob(j)
    /\ UploadIsApproved
-----------------------------------------------------------------------------
(* What was tried stays tried *)

\* No build is changed by a step, no suite forgotten.
Growing ==
    /\ Len(builds) <= Len(builds')
    /\ \A b \in 1..Len(builds) : builds'[b] = builds[b]
    /\ tested \subseteq tested'

LEMMA Builds ==
    ASSUME Typed
    PROVE  /\ Len(builds) \in Nat
           /\ \A b \in 1..Len(builds) : builds[b] \in ABuild
           /\ \A b \in 1..Len(builds) : Wheel(b) = builds[b].wheel /\ Wheel(b) # None
<1>1. Len(builds) \in Nat /\ \A b \in 1..Len(builds) : builds[b] \in ABuild
  BY DEF Typed
<1> QED
  BY <1>1 DEF Wheel, None, ABuild

LEMMA WheelStays ==
    ASSUME Typed, Growing, NEW b \in 0..Len(builds)
    PROVE  Wheel(b)' = Wheel(b)
<1>1. Len(builds) \in Nat /\ (b = 0 \/ b \in 1..Len(builds))
  BY Builds
<1> QED
  BY <1>1 DEF Wheel, None, Growing

LEMMA TriedStays ==
    ASSUME Typed, Growing, NEW b \in 0..Len(builds), NEW c, Tried(c, b)
    PROVE  Tried(c, b)'
<1>1. Wheel(b)' = Wheel(b)
  BY WheelStays
<1> QED
  BY <1>1 DEF Tried, Growing

LEMMA GateStays ==
    ASSUME Typed, Typed', Growing, NEW g \in AGate, TrueGate(g)
    PROVE  TrueGate(g)'
<1> SUFFICES ASSUME g.status = "pass"
             PROVE  g.lock \in 1..Len(builds') /\ \A c \in Cells : Tried(c, g.lock)'
  BY DEF TrueGate, Built
<1>1. g.lock \in 1..Len(builds) /\ \A c \in Cells : Tried(c, g.lock)
  BY DEF TrueGate, Built
<1>2. Len(builds) \in Nat /\ Len(builds') \in Nat /\ Len(builds) <= Len(builds')
  BY Builds DEF Growing, Typed
<1>3. g.lock \in 0..Len(builds) /\ g.lock \in 1..Len(builds')
  BY <1>1, <1>2
<1> QED
  BY <1>1, <1>3, TriedStays

\* The runs a step leaves alone.
LEMMA RunStays ==
    ASSUME Typed, Typed', Growing, NEW r \in Runs, TrueRun(r),
           run'[r] = run[r], cell'[r] = cell[r], evidence'[r] = evidence[r]
    PROVE  TrueRun(r)'
<1>1. run[r] \in ARun /\ cell[r] \in [Cells -> ACell] /\ evidence[r] \in [Cells -> SomeEvidence]
      /\ run[r].gate \in AGate /\ run[r].lock \in Nat
      /\ \A c \in Cells : evidence[r][c].build \in Nat
  BY DEF Typed, ARun, SomeEvidence
<1>2. Len(builds) \in Nat /\ Len(builds') \in Nat /\ Len(builds) <= Len(builds')
  BY DEF Growing, Typed
<1>3. run[r].lock \in 0..Len(builds) /\ \A c \in Cells : evidence[r][c].build \in 0..Len(builds)
  BY <1>1, <1>2 DEF TrueRun
<1>4. TrueGate(run[r].gate)'
  <2>1. \A g \in AGate : TrueGate(g) => TrueGate(g)'
    BY GateStays
  <2> QED
    BY <1>1, <2>1 DEF TrueRun, TrueGate, Built, Tried, Wheel
<1>5. ASSUME NEW c \in Cells
      PROVE  /\ evidence'[r][c].build <= Len(builds')
             /\ evidence'[r][c].status = "pass" => Tried(c, evidence[r][c].build)'
             /\ cell'[r][c].phase = "tested" => InRun(r, "cells")' /\ Tried(c, run[r].lock)'
  BY <1>2, <1>3, TriedStays DEF TrueRun, InRun
<1> QED
  BY <1>2, <1>3, <1>4, <1>5 DEF TrueRun
\* Who let a version out: a job that verified what it was asked for.
LEMMA Approved ==
    ASSUME ReleaseInv, NEW v \in Versions, OnPyPI(v)
    PROVE  \E j \in Jobs : /\ job[j].version = v /\ Holds(v, job[j].bytes)
                           /\ job[j].approval = job[j].bytes /\ job[j].approval # None
                           /\ Built(job[j].bytes) /\ pypi[v].wheel # None
<1>1. PICK j \in Jobs : job[j].version = v /\ Holds(v, job[j].bytes)
                        /\ job[j].approval = job[j].bytes
  BY DEF ReleaseInv, UploadIsApproved
<1>2. job[j].approval # None
  BY <1>1 DEF Holds, OnPyPI, Wheel
<1>3. Built(job[j].bytes)
  BY <1>2 DEF ReleaseInv, TrueJob, TrueOrder
<1>4. Wheel(job[j].bytes) # None
  BY <1>3, Builds DEF ReleaseInv, Built
<1> QED
  BY <1>1, <1>2, <1>3, <1>4 DEF Holds

\* The jobs a step leaves alone; a wheel that PyPI has is never another one.
LEMMA JobStays ==
    ASSUME Typed, Typed', Growing, NEW j \in Jobs, TrueJob(j), job'[j] = job[j],
           \A v \in Versions : pypi[v].wheel # None => pypi'[v].wheel = pypi[v].wheel
    PROVE  TrueJob(j)'
<1>1. job[j] \in AJob /\ job[j].gate \in AGate /\ job[j].lock \in Nat /\ job[j].bytes \in Nat
  BY DEF Typed, AJob
<1>2. Len(builds) \in Nat /\ Len(builds') \in Nat /\ Len(builds) <= Len(builds')
  BY DEF Growing, Typed
<1>3. job[j].lock <= Len(builds') /\ job[j].bytes <= Len(builds')
      /\ job[j].bytes \in 0..Len(builds)
  BY <1>1, <1>2 DEF TrueJob, TrueOrder
<1>4. TrueGate(job[j].gate)'
  <2>1. \A g \in AGate : TrueGate(g) => TrueGate(g)'
    BY GateStays
  <2> QED
    BY <1>1, <2>1 DEF TrueJob, TrueOrder, TrueGate, Built, Tried, Wheel
<1>5. Built(job[j].bytes) => Built(job[j].bytes)' /\ builds'[job[j].bytes] = builds[job[j].bytes]
  BY <1>1, <1>2 DEF Built, Growing
<1>6. \A c \in Cells : Tried(c, job[j].bytes) => Tried(c, job[j].bytes)'
  BY <1>3, TriedStays DEF Tried, Wheel
<1>7. job[j].phase = "sdist" => pypi'[job[j].version].wheel = Wheel(job[j].bytes)'
  <2> SUFFICES ASSUME job[j].phase = "sdist"
               PROVE  pypi'[job[j].version].wheel = Wheel(job[j].bytes)'
    OBVIOUS
  <2>1. job[j].version \in Versions /\ Built(job[j].bytes)
        /\ pypi[job[j].version].wheel = Wheel(job[j].bytes)
    BY DEF TrueJob, TrueOrder, Verified
  <2>2. Wheel(job[j].bytes) # None
    BY <2>1, Builds DEF Built
  <2>3. Wheel(job[j].bytes)' = Wheel(job[j].bytes)
    BY <1>3, WheelStays DEF Wheel
  <2> QED
    BY <2>1, <2>2, <2>3
<1> QED
  BY <1>1, <1>3, <1>4, <1>5, <1>6, <1>7 DEF TrueJob, TrueOrder, Verified

LEMMA ApprovalStays ==
    ASSUME ReleaseInv, Growing, UNCHANGED pypi,
           \A j \in Jobs : job[j].approval # None =>
                /\ job'[j].version = job[j].version /\ job'[j].bytes = job[j].bytes
                /\ job'[j].approval = job[j].approval
    PROVE  UploadIsApproved'
<1> SUFFICES ASSUME NEW v \in Versions, OnPyPI(v)'
             PROVE  \E j \in Jobs : job'[j].version = v /\ Holds(v, job[j].bytes)'
                                    /\ job'[j].approval = job'[j].bytes
  BY DEF UploadIsApproved
<1>1. OnPyPI(v)
  BY DEF OnPyPI
<1>2. PICK j \in Jobs : /\ job[j].version = v /\ Holds(v, job[j].bytes)
                        /\ job[j].approval = job[j].bytes /\ job[j].approval # None
                        /\ Built(job[j].bytes)
  BY <1>1, Approved
<1>3. job[j].bytes \in 0..Len(builds)
  BY <1>2, Builds DEF Built, ReleaseInv
<1>4. /\ job'[j].version = v /\ job'[j].approval = job'[j].bytes
      /\ job'[j].bytes = job[j].bytes
  BY <1>2
<1>5. \A b \in 0..Len(builds) : Wheel(b)' = Wheel(b)
  BY WheelStays DEF ReleaseInv
<1> QED
  BY <1>2, <1>3, <1>4, <1>5 DEF Holds, Wheel

\* A step of one candidate run.
LEMMA RunStep ==
    ASSUME ReleaseInv, Growing, Typed', NEW r \in Runs, TrueRun(r)',
           \A s \in Runs \ {r} : run'[s] = run[s] /\ cell'[s] = cell[s] /\ evidence'[s] = evidence[s],
           UNCHANGED <<pypi, job>>
    PROVE  ReleaseInv'
<1>1. \A s \in Runs : TrueRun(s)'
  BY RunStays DEF ReleaseInv
<1>2. \A j \in Jobs : TrueJob(j)'
  BY JobStays DEF ReleaseInv
<1>3. UploadIsApproved'
  BY ApprovalStays
<1> QED
  BY <1>1, <1>2, <1>3 DEF ReleaseInv

\* A step of one publishing job that uploads nothing.
LEMMA JobStep ==
    ASSUME ReleaseInv, NEW j \in Jobs, NEW x \in AJob, job' = [job EXCEPT ![j] = x],
           Publishing, TrueJob(j)',
           job[j].approval # None =>
              x.version = job[j].version /\ x.bytes = job[j].bytes /\ x.approval = job[j].approval
    PROVE  ReleaseInv'
<1>1. /\ job' \in [Jobs -> AJob] /\ job'[j] = x
      /\ \A k \in Jobs \ {j} : job'[k] = job[k]
  BY DEF ReleaseInv, Typed
<1>2. Growing /\ Typed'
  BY <1>1, Builds DEF ReleaseInv, Growing, Typed, Publishing, outside, candidate
<1>3. \A r \in Runs : TrueRun(r)'
  BY <1>2, RunStays DEF ReleaseInv, Publishing, candidate
<1>4. \A k \in Jobs : TrueJob(k)'
  BY <1>1, <1>2, JobStays DEF ReleaseInv, Publishing, outside
<1>5. UploadIsApproved'
  BY <1>1, <1>2, ApprovalStays DEF Publishing, outside
<1> QED
  BY <1>2, <1>3, <1>4, <1>5 DEF ReleaseInv
-----------------------------------------------------------------------------
(* The candidate workflow *)

\* A step of run r that makes no build, runs no suite and uploads nothing.
LEMMA QuietStep ==
    ASSUME ReleaseInv, NEW r \in Runs, UNCHANGED <<outside, builds, tested, evidence, job>>,
           run' \in [Runs -> ARun], \A s \in Runs \ {r} : run'[s] = run[s],
           cell' \in [Runs -> [Cells -> ACell]], \A s \in Runs \ {r} : cell'[s] = cell[s],
           run'[r].lock = run[r].lock, TrueGate(run'[r].gate),
           \A c \in Cells : cell'[r][c].phase = "tested" =>
                run'[r].phase = "cells" /\ cell[r][c].phase = "tested"
    PROVE  ReleaseInv'
<1>1. Growing /\ Typed'
  BY Builds DEF ReleaseInv, Growing, Typed, outside
<1>2. TrueRun(r)'
  <2>1. TrueRun(r)
    BY DEF ReleaseInv
  <2>2. TrueGate(run[r].gate)'
    BY DEF TrueGate, Built, Tried, Wheel
  <2>3. ASSUME NEW c \in Cells
        PROVE  /\ evidence'[r][c].build <= Len(builds')
               /\ evidence'[r][c].status = "pass" => Tried(c, evidence[r][c].build)'
               /\ cell'[r][c].phase = "tested" => InRun(r, "cells")' /\ Tried(c, run[r].lock)'
    <3>1. /\ evidence[r][c].build <= Len(builds)
          /\ evidence[r][c].status = "pass" => Tried(c, evidence[r][c].build)
      BY <2>1 DEF TrueRun
    <3>2. cell[r][c].phase = "tested" => Tried(c, run[r].lock)
      BY <2>1 DEF TrueRun
    <3> QED
      BY <3>1, <3>2 DEF Tried, Wheel, InRun
  <2> QED
    BY <2>1, <2>2, <2>3 DEF TrueRun
<1> QED
  BY <1>1, <1>2, RunStep DEF outside

\* What a quiet step starts from.
LEMMA AtRun ==
    ASSUME ReleaseInv, NEW r \in Runs
    PROVE  /\ run \in [Runs -> ARun] /\ run[r] \in ARun /\ TrueGate(run[r].gate)
           /\ cell \in [Runs -> [Cells -> ACell]] /\ cell[r] \in [Cells -> ACell]
           /\ \A c \in Cells : cell[r][c].phase = "tested" => run[r].phase = "cells"
           /\ main \in Nat
           /\ evidence \in [Runs -> [Cells -> SomeEvidence]]
           /\ evidence[r] \in [Cells -> SomeEvidence]
           /\ Len(builds) \in Nat /\ run[r].lock \in 0..Len(builds)
<1>1. TrueRun(r) /\ Typed
  BY DEF ReleaseInv
<1>2. run[r] \in ARun /\ run[r].lock \in Nat /\ Len(builds) \in Nat
  BY <1>1 DEF Typed, ARun
<1> QED
  BY <1>1, <1>2 DEF Typed, TrueRun, InRun

LEMMA DispatchSound ==
    ASSUME ReleaseInv, NEW r \in Runs, Dispatch(r)
    PROVE  ReleaseInv'
<1> DEFINE x == [run[r] EXCEPT !.phase = "preflight", !.commit = main, !.attempts = 1]
           y == [c \in Cells |-> [phase |-> "waiting", installed |-> None]]
<1>1. x \in ARun /\ x.lock = run[r].lock /\ x.gate = run[r].gate
  BY AtRun DEF ARun
<1>2. y \in [Cells -> ACell] /\ \A c \in Cells : y[c].phase = "waiting"
  BY DEF ACell, None
<1>3. run' = [run EXCEPT ![r] = x] /\ cell' = [cell EXCEPT ![r] = y]
  BY DEF Dispatch
<1> HIDE DEF x, y
<1>4. /\ run' \in [Runs -> ARun] /\ \A s \in Runs \ {r} : run'[s] = run[s]
      /\ cell' \in [Runs -> [Cells -> ACell]] /\ \A s \in Runs \ {r} : cell'[s] = cell[s]
      /\ run'[r] = x /\ cell'[r] = y
  BY <1>1, <1>2, <1>3, AtRun
<1>5. UNCHANGED <<outside, builds, tested, evidence, job>> /\ TrueGate(run'[r].gate)
  BY <1>1, <1>4, AtRun DEF Dispatch
<1> QED
  BY <1>1, <1>2, <1>4, <1>5, QuietStep

\* A phase of the run ends, no cell having a suite that has passed and is not written.
LEMMA PhaseStep ==
    ASSUME ReleaseInv, NEW r \in Runs, UNCHANGED <<outside, builds, tested, cell, evidence, job>>,
           NEW x \in ARun, run' = [run EXCEPT ![r] = x],
           x.lock = run[r].lock, TrueGate(x.gate),
           \A c \in Cells : cell[r][c].phase # "tested"
    PROVE  ReleaseInv'
<1>1. /\ run' \in [Runs -> ARun] /\ run'[r] = x /\ \A s \in Runs \ {r} : run'[s] = run[s]
      /\ cell' \in [Runs -> [Cells -> ACell]] /\ cell' = cell
  BY AtRun
<1>2. UNCHANGED <<outside, builds, tested, evidence, job>>
  OBVIOUS
<1> QED
  BY <1>1, <1>2, QuietStep

LEMMA PreflightSound ==
    ASSUME ReleaseInv, NEW r \in Runs, Preflight(r) \/ FreezeFails(r)
    PROVE  ReleaseInv'
<1>1. \A c \in Cells : cell[r][c].phase # "tested"
  BY AtRun DEF Preflight, FreezeFails, InRun
<1>2. PICK x : /\ run' = [run EXCEPT ![r] = x]
               /\ \/ x = [run[r] EXCEPT !.phase = "build", !.preflight = "pass"]
                  \/ x = [run[r] EXCEPT !.phase = "unfrozen", !.preflight = "fail"]
                  \/ x = [run[r] EXCEPT !.phase = "unfrozen"]
  BY DEF Preflight, FreezeFails
<1>3. x \in ARun /\ x.lock = run[r].lock /\ x.gate = run[r].gate
  BY <1>2, AtRun DEF ARun, Status
<1>4. UNCHANGED <<outside, builds, tested, cell, evidence, job>> /\ TrueGate(x.gate)
  BY <1>3, AtRun DEF Preflight, FreezeFails
<1> QED
  BY <1>1, <1>2, <1>3, <1>4, PhaseStep
\* A new build changes none of the ones before it; the run's cells start over with it.
LEMMA BuildSound ==
    ASSUME ReleaseInv, NEW r \in Runs, Build(r)
    PROVE  ReleaseInv'
<1>1. Typed /\ Len(builds) \in Nat /\ builds \in Seq(ABuild)
  BY Builds DEF ReleaseInv, Typed
<1>2. PICK w \in {b \in 1..Len(builds) : builds[b].commit = run[r].commit} \union {Len(builds) + 1} :
         builds' = Append(builds, [run |-> r, commit |-> run[r].commit,
                                   wheel |-> IF w > Len(builds) THEN w ELSE builds[w].wheel])
  BY DEF Build
<1> DEFINE wheel == IF w > Len(builds) THEN w ELSE builds[w].wheel
           e == [run |-> r, commit |-> run[r].commit, wheel |-> wheel]
           x == [run[r] EXCEPT !.phase = "cells", !.lock = Len(builds) + 1]
<1>3. e \in ABuild
  <2>1. wheel \in Nat \ {0}
    BY <1>1, <1>2, Builds DEF ABuild
  <2>2. run[r].commit \in Nat
    BY AtRun DEF ARun
  <2> HIDE DEF wheel
  <2> QED
    BY <2>1, <2>2 DEF ABuild
<1>4. builds' = Append(builds, e)
  BY <1>2
<1>5. x \in ARun /\ x.lock = Len(builds) + 1 /\ x.gate = run[r].gate /\ run' = [run EXCEPT ![r] = x]
  <2> DEFINE b == Len(builds) + 1
  <2>1. b \in Nat
    BY <1>1
  <2>2. run' = [run EXCEPT ![r] = x]
    BY DEF Build
  <2> HIDE DEF b
  <2>3. [run[r] EXCEPT !.phase = "cells", !.lock = b] \in ARun
    BY <2>1, AtRun DEF ARun
  <2>4. x.lock = b /\ x.gate = run[r].gate
    BY AtRun DEF ARun, b
  <2> QED
    BY <2>2, <2>3, <2>4 DEF b
<1> HIDE DEF wheel, e, x
<1>6. /\ builds' \in Seq(ABuild) /\ Len(builds') = Len(builds) + 1
      /\ \A b \in 1..Len(builds) : builds'[b] = builds[b]
  BY <1>1, <1>3, <1>4
<1>7. UNCHANGED <<main, claimed, pypi, tested, cell, evidence, job>>
  BY DEF Build, outside
<1>8. run' \in [Runs -> ARun] /\ run'[r] = x /\ \A s \in Runs \ {r} : run'[s] = run[s]
  BY <1>5, AtRun
<1>9. Growing /\ Typed'
  BY <1>1, <1>6, <1>7, <1>8 DEF Growing, Typed
<1>10. TrueRun(r)'
  <2>1. TrueRun(r)
    BY DEF ReleaseInv
  <2>2. TrueGate(run[r].gate)'
    <3>1. \A g \in AGate : TrueGate(g) => TrueGate(g)'
      BY <1>1, <1>9, GateStays
    <3>2. run'[r].gate = run[r].gate /\ run[r].gate \in AGate /\ TrueGate(run[r].gate)
      BY <1>5, <1>8, AtRun DEF ARun
    <3> QED
      BY <3>1, <3>2 DEF TrueGate, Built, Tried, Wheel
  <2>3. ASSUME NEW c \in Cells
        PROVE  /\ evidence'[r][c].build <= Len(builds')
               /\ evidence'[r][c].status = "pass" => Tried(c, evidence[r][c].build)'
               /\ cell'[r][c].phase # "tested"
    <3>1. evidence[r][c].build \in 0..Len(builds)
      BY <1>1, <2>1 DEF TrueRun, Typed, SomeEvidence
    <3>2. \A b \in 0..Len(builds) : Tried(c, b) => Tried(c, b)'
      BY <1>1, <1>9, TriedStays
    <3>3. cell[r][c].phase # "tested"
      BY AtRun DEF Build, InRun
    <3>4. /\ evidence[r][c].build <= Len(builds)
          /\ evidence[r][c].status = "pass" => Tried(c, evidence[r][c].build)
      BY <2>1 DEF TrueRun
    <3>5. evidence'[r][c].build <= Len(builds') /\ cell'[r][c].phase # "tested"
      BY <1>1, <1>6, <1>7, <3>1, <3>3, <3>4
    <3>6. evidence'[r][c].status = "pass" => Tried(c, evidence[r][c].build)'
      BY <1>7, <3>1, <3>2, <3>4 DEF Tried, Wheel
    <3> QED
      BY <3>5, <3>6
  <2> QED
    BY <1>1, <1>5, <1>6, <1>8, <2>2, <2>3 DEF TrueRun
<1> QED
  BY <1>7, <1>8, <1>9, <1>10, RunStep

\* A step of one cell.
LEMMA CellStep ==
    ASSUME ReleaseInv, NEW r \in Runs, NEW c \in Cells, UNCHANGED <<outside, builds, run, job>>,
           tested \subseteq tested',
           cell' \in [Runs -> [Cells -> ACell]], \A s \in Runs \ {r} : cell'[s] = cell[s],
           \A d \in Cells \ {c} : cell'[r][d] = cell[r][d],
           evidence' \in [Runs -> [Cells -> SomeEvidence]],
           \A s \in Runs \ {r} : evidence'[s] = evidence[s],
           \A d \in Cells \ {c} : evidence'[r][d] = evidence[r][d],
           evidence'[r][c].build <= Len(builds),
           evidence'[r][c].status = "pass" => Tried(c, evidence[r][c].build)',
           cell'[r][c].phase = "tested" => InRun(r, "cells") /\ Tried(c, run[r].lock)'
    PROVE  ReleaseInv'
<1>1. Growing /\ Typed' /\ Typed
  BY Builds DEF ReleaseInv, Growing, Typed, outside
<1>2. TrueRun(r)'
  <2>1. TrueRun(r)
    BY DEF ReleaseInv
  <2>2. TrueGate(run[r].gate)'
    <3>1. \A g \in AGate : TrueGate(g) => TrueGate(g)'
      BY <1>1, GateStays
    <3>2. run'[r].gate = run[r].gate /\ run[r].gate \in AGate /\ TrueGate(run[r].gate)
      BY AtRun DEF ARun
    <3> QED
      BY <3>1, <3>2 DEF TrueGate, Built, Tried, Wheel
  <2>3. ASSUME NEW d \in Cells \ {c}
        PROVE  /\ evidence'[r][d].build <= Len(builds')
               /\ evidence'[r][d].status = "pass" => Tried(d, evidence[r][d].build)'
               /\ cell'[r][d].phase = "tested" => InRun(r, "cells")' /\ Tried(d, run[r].lock)'
    <3>1. evidence[r][d].build \in 0..Len(builds) /\ run[r].lock \in 0..Len(builds)
      BY <2>1, AtRun DEF TrueRun, SomeEvidence
    <3>2. \A b \in 0..Len(builds) : Tried(d, b) => Tried(d, b)'
      BY <1>1, TriedStays
    <3>3. /\ evidence[r][d].status = "pass" => Tried(d, evidence[r][d].build)
          /\ cell[r][d].phase = "tested" => InRun(r, "cells") /\ Tried(d, run[r].lock)
          /\ evidence[r][d].build <= Len(builds)
      BY <2>1 DEF TrueRun
    <3> QED
      BY <3>1, <3>2, <3>3 DEF Tried, Wheel, InRun
  <2> QED
    BY <2>1, <2>2, <2>3 DEF TrueRun, InRun
<1> QED
  BY <1>1, <1>2, RunStep DEF outside
\* What is known of one cell.
LEMMA AtCell ==
    ASSUME ReleaseInv, NEW r \in Runs, NEW c \in Cells
    PROVE  /\ cell[r][c] \in ACell /\ evidence[r][c] \in SomeEvidence
           /\ evidence[r][c].build <= Len(builds)
           /\ evidence[r][c].status = "pass" => Tried(c, evidence[r][c].build)
           /\ cell[r][c].phase = "tested" => InRun(r, "cells") /\ Tried(c, run[r].lock)
           /\ Wheel(run[r].lock) \in Nat
<1>1. run[r].lock = 0 \/ run[r].lock \in 1..Len(builds)
  BY AtRun
<1>2. Wheel(run[r].lock) \in Nat
  BY <1>1, Builds DEF ReleaseInv, Wheel, None, ABuild
<1> QED
  BY <1>2, AtRun DEF ReleaseInv, TrueRun

LEMMA OneCell ==
    ASSUME ReleaseInv, NEW r \in Runs, NEW c \in Cells, NEW y \in ACell,
           cell' = [cell EXCEPT ![r][c] = y]
    PROVE  /\ cell' \in [Runs -> [Cells -> ACell]] /\ cell'[r][c] = y
           /\ \A s \in Runs \ {r} : cell'[s] = cell[s]
           /\ \A d \in Cells \ {c} : cell'[r][d] = cell[r][d]
  BY AtRun

LEMMA OneUpload ==
    ASSUME ReleaseInv, NEW r \in Runs, NEW c \in Cells, NEW e \in SomeEvidence, Upload(r, c, e)
    PROVE  /\ evidence' \in [Runs -> [Cells -> SomeEvidence]] /\ evidence'[r][c] = e
           /\ \A s \in Runs \ {r} : evidence'[s] = evidence[s]
           /\ \A d \in Cells \ {c} : evidence'[r][d] = evidence[r][d]
  BY AtRun DEF Upload

\* A cell moves on and uploads nothing.
LEMMA CellMoves ==
    ASSUME ReleaseInv, NEW r \in Runs, NEW c \in Cells, NEW y \in ACell,
           UNCHANGED <<outside, builds, run, evidence, job>>, tested \subseteq tested',
           cell' = [cell EXCEPT ![r][c] = y],
           y.phase = "tested" => InRun(r, "cells") /\ Tried(c, run[r].lock)'
    PROVE  ReleaseInv'
<1>1. /\ cell' \in [Runs -> [Cells -> ACell]] /\ cell'[r][c] = y
      /\ \A s \in Runs \ {r} : cell'[s] = cell[s]
      /\ \A d \in Cells \ {c} : cell'[r][d] = cell[r][d]
  BY OneCell
<1>2. /\ evidence'[r][c].build <= Len(builds)
      /\ evidence'[r][c].status = "pass" => Tried(c, evidence[r][c].build)'
  BY AtCell DEF Tried, Wheel
<1>3. evidence' \in [Runs -> [Cells -> SomeEvidence]] /\ evidence' = evidence
  BY AtRun
<1>4. UNCHANGED <<outside, builds, run, job>>
  OBVIOUS
<1> QED
  BY <1>1, <1>2, <1>3, <1>4, CellStep

LEMMA ValidateSound ==
    ASSUME ReleaseInv, NEW r \in Runs, NEW c \in Cells, Validate(r, c)
    PROVE  ReleaseInv'
<1> DEFINE y == [cell[r][c] EXCEPT !.phase = "tested"]
<1>1. y \in ACell
  BY AtCell DEF ACell
<1>2. cell' = [cell EXCEPT ![r][c] = y]
  BY DEF Validate, Advance
<1>3. Tried(c, run[r].lock)' /\ InRun(r, "cells") /\ tested \subseteq tested'
  BY ReleaseAssumption DEF Validate, Pass, InCell, Tried
<1>4. UNCHANGED <<outside, builds, run, evidence, job>>
  BY DEF Validate
<1> HIDE DEF y
<1> QED
  BY <1>1, <1>2, <1>3, <1>4, CellMoves

LEMMA ExamplesSound ==
    ASSUME ReleaseInv, NEW r \in Runs, ExamplesWheel(r)
    PROVE  ReleaseInv'
<1>1. Examples \in Cells
  BY DEF Cells
<1>2. CASE InstallExample(r)
  <2>1. PICK i \in {Wheel(run[r].lock), None} :
           cell' = [cell EXCEPT ![r][Examples] = [phase |-> "installed", installed |-> i]]
    BY <1>2 DEF InstallExample
  <2>2. [phase |-> "installed", installed |-> i] \in ACell
    BY <1>1, AtCell DEF ACell, None
  <2>3. UNCHANGED <<outside, builds, run, evidence, job>> /\ tested \subseteq tested'
    BY <1>2 DEF InstallExample
  <2> QED
    BY <1>1, <2>1, <2>2, <2>3, CellMoves
<1>3. CASE RunExamples(r)
  <2> DEFINE y == [cell[r][Examples] EXCEPT !.phase = "tested"]
  <2>1. y \in ACell
    BY <1>1, AtCell DEF ACell
  <2>2. cell' = [cell EXCEPT ![r][Examples] = y]
    BY <1>3 DEF RunExamples, Advance
  <2>3. Tried(Examples, run[r].lock)' /\ InRun(r, "cells") /\ tested \subseteq tested'
    BY <1>3 DEF RunExamples, IsCandidate, Pass, InCell, Tried, Wheel
  <2>4. UNCHANGED <<outside, builds, run, evidence, job>>
    BY <1>3 DEF RunExamples
  <2> HIDE DEF y
  <2> QED
    BY <1>1, <2>1, <2>2, <2>3, <2>4, CellMoves
<1> QED
  BY <1>2, <1>3 DEF ExamplesWheel

\* A passing result is uploaded for the lock whose suite has just passed.
LEMMA EvidenceSound ==
    ASSUME ReleaseInv, NEW r \in Runs, NEW c \in Cells,
           WriteEvidence(r, c) \/ CutShort(r, c) \/ CellFails(r, c)
    PROVE  ReleaseInv'
<1>1. PICK phase \in {"passed", "failed"} : Leave(r, c, phase)
  BY DEF WriteEvidence, CutShort, CellFails
<1>2. PICK e : /\ Upload(r, c, e)
               /\ \/ Writable(r, c) /\ e = Passed(r)
                  \/ e = evidence[r][c]
                  \/ e = NoEvidence
  BY DEF WriteEvidence, CutShort, CellFails
<1>3. e \in SomeEvidence /\ e.build <= Len(builds) /\ (e.status = "pass" => Tried(c, e.build))
  BY <1>2, AtRun, AtCell DEF Passed, NoEvidence, SomeEvidence, Writable, InCell, None
<1> DEFINE y == [phase |-> phase, installed |-> None]
<1>4. y \in ACell /\ y.phase # "tested" /\ cell' = [cell EXCEPT ![r][c] = y]
  BY <1>1 DEF ACell, None, Leave
<1> HIDE DEF y
<1>5. /\ cell' \in [Runs -> [Cells -> ACell]] /\ cell'[r][c] = y
      /\ \A s \in Runs \ {r} : cell'[s] = cell[s]
      /\ \A d \in Cells \ {c} : cell'[r][d] = cell[r][d]
  BY <1>4, OneCell
<1>6. /\ evidence' \in [Runs -> [Cells -> SomeEvidence]] /\ evidence'[r][c] = e
      /\ \A s \in Runs \ {r} : evidence'[s] = evidence[s]
      /\ \A d \in Cells \ {c} : evidence'[r][d] = evidence[r][d]
  BY <1>2, <1>3, OneUpload
<1>7. UNCHANGED <<outside, builds, run, job>> /\ UNCHANGED tested
  BY DEF WriteEvidence, CutShort, CellFails
<1>8. evidence'[r][c].status = "pass" => Tried(c, evidence[r][c].build)'
  BY <1>3, <1>6, <1>7 DEF Tried, Wheel
<1> QED
  BY <1>3, <1>4, <1>5, <1>6, <1>7, <1>8, CellStep
\* A gate that passes covers the lock with evidence of every cell, and so with suites.
LEMMA PassingGate ==
    ASSUME ReleaseInv, NEW r \in Runs, run[r].lock # None, GateStatus(r) = "pass"
    PROVE  Built(run[r].lock) /\ \A c \in Cells : Tried(c, run[r].lock)
<1>1. Built(run[r].lock)
  BY AtRun DEF Built, None
<1>2. ASSUME NEW c \in Cells PROVE Tried(c, run[r].lock)
  <2>1. Covers(r, c)
    BY DEF GateStatus
  <2> QED
    BY <2>1, AtCell DEF Covers, Tried
<1> QED
  BY <1>1, <1>2

LEMMA AggregateSound ==
    ASSUME ReleaseInv, NEW r \in Runs, Aggregate(r) \/ AggregateFails(r)
    PROVE  ReleaseInv'
<1>1. \A c \in Cells : cell[r][c].phase # "tested"
  BY AtRun DEF Aggregate, AggregateFails, InRun, CellsEnded
<1>2. UNCHANGED <<outside, builds, tested, cell, evidence, job>>
  BY DEF Aggregate, AggregateFails
<1> DEFINE gate == IF run[r].lock = None THEN run[r].gate
                   ELSE [status |-> GateStatus(r), lock |-> run[r].lock]
           conclusion == IF AllPassed(r) /\ GateStatus(r) = "pass" THEN "success" ELSE "failure"
<1>3. gate \in AGate /\ TrueGate(gate) /\ conclusion \in {"success", "failure"}
  <2>1. CASE run[r].lock = None
    BY <2>1, AtRun DEF ARun
  <2>2. CASE run[r].lock # None
    <3>1. GateStatus(r) \in Status
      BY DEF GateStatus, Status
    <3> QED
      BY <2>2, <3>1, AtRun, PassingGate DEF AGate, TrueGate
  <2> QED
    BY <2>1, <2>2
<1>4. \/ run' = [run EXCEPT ![r] =
                   [@ EXCEPT !.phase = "over", !.gate = gate, !.conclusion = conclusion]]
      \/ run' = [run EXCEPT ![r] = [@ EXCEPT !.phase = "over", !.conclusion = "failure"]]
  BY DEF Aggregate, AggregateFails
<1> HIDE DEF gate, conclusion
<1>5. CASE run' = [run EXCEPT ![r] =
                     [@ EXCEPT !.phase = "over", !.gate = gate, !.conclusion = conclusion]]
  <2> DEFINE x == [run[r] EXCEPT !.phase = "over", !.gate = gate, !.conclusion = conclusion]
  <2>1. x \in ARun /\ x.lock = run[r].lock /\ x.gate = gate
    BY <1>3, AtRun DEF ARun
  <2>2. run' = [run EXCEPT ![r] = x]
    BY <1>5
  <2> HIDE DEF x
  <2> QED
    BY <1>1, <1>2, <1>3, <2>1, <2>2, PhaseStep
<1>6. CASE run' = [run EXCEPT ![r] = [@ EXCEPT !.phase = "over", !.conclusion = "failure"]]
  <2> DEFINE x == [run[r] EXCEPT !.phase = "over", !.conclusion = "failure"]
  <2>1. x \in ARun /\ x.lock = run[r].lock /\ x.gate = run[r].gate
    BY AtRun DEF ARun
  <2>2. run' = [run EXCEPT ![r] = x] /\ TrueGate(x.gate)
    BY <1>6, <2>1, AtRun
  <2> HIDE DEF x
  <2> QED
    BY <1>1, <1>2, <2>1, <2>2, PhaseStep
<1> QED
  BY <1>4, <1>5, <1>6

\* A repeated run keeps what was uploaded, and nothing it keeps is half done.
LEMMA RepeatSound ==
    ASSUME ReleaseInv, NEW r \in Runs, NEW phase \in {"preflight", "cells"}, NEW again,
           Repeat(r, phase, again)
    PROVE  ReleaseInv'
<1> DEFINE n == run[r].attempts + 1
           x == [run[r] EXCEPT !.phase = phase, !.attempts = n, !.conclusion = "none"]
           y == [c \in Cells |-> IF c \in again THEN [phase |-> "waiting", installed |-> None]
                                 ELSE cell[r][c]]
<1>1. run[r].attempts \in Nat /\ n \in Nat
  <2>1. run[r].attempts \in Nat
    BY AtRun DEF ARun
  <2> QED
    BY <2>1
<1>2. run' = [run EXCEPT ![r] = x]
  BY DEF Repeat
<1>3. cell' = [cell EXCEPT ![r] = y] /\ UNCHANGED <<outside, builds, tested, evidence, job>>
  BY DEF Repeat
<1>4. y \in [Cells -> ACell] /\ \A c \in Cells : y[c].phase # "tested"
  <2>1. \A c \in Cells : cell[r][c].phase # "tested"
    BY AtRun DEF Repeat, InRun
  <2>2. [phase |-> "waiting", installed |-> None] \in ACell
    BY DEF ACell, None
  <2>3. \A c \in Cells : cell[r][c] \in ACell
    BY AtRun
  <2>4. \A c \in Cells : y[c] = [phase |-> "waiting", installed |-> None] \/ y[c] = cell[r][c]
    OBVIOUS
  <2>5. y \in [Cells -> ACell]
    BY <2>2, <2>3
  <2> QED
    BY <2>1, <2>4, <2>5
<1> HIDE DEF n, y
<1>5. x \in ARun /\ x.lock = run[r].lock /\ x.gate = run[r].gate
  BY <1>1, AtRun DEF ARun
<1> HIDE DEF x
<1>6. /\ run' \in [Runs -> ARun] /\ \A s \in Runs \ {r} : run'[s] = run[s]
      /\ cell' \in [Runs -> [Cells -> ACell]] /\ \A s \in Runs \ {r} : cell'[s] = cell[s]
      /\ run'[r] = x /\ cell'[r] = y
  BY <1>2, <1>3, <1>4, <1>5, AtRun
<1>7. TrueGate(run'[r].gate)
  BY <1>5, <1>6, AtRun
<1> QED
  BY <1>3, <1>4, <1>5, <1>6, <1>7, QuietStep

LEMMA CandidateSound ==
    ASSUME ReleaseInv, NEW r \in Runs, Candidate(r)
    PROVE  ReleaseInv'
<1>1. CASE Freeze(r)
  BY <1>1, DispatchSound, PreflightSound, BuildSound DEF Freeze
<1>2. CASE ExamplesWheel(r)
  BY <1>2, ExamplesSound
<1>3. CASE Gate(r)
  BY <1>3, AggregateSound, RepeatSound DEF Gate, RerunAll, RerunFailed
<1>4. CASE \E c \in Cells : Cell(r, c)
  BY <1>4, ValidateSound, EvidenceSound DEF Cell
<1> QED
  BY <1>1, <1>2, <1>3, <1>4 DEF Candidate
-----------------------------------------------------------------------------
(* The publishing workflow *)

\* A job that moves to x and uploads nothing.
LEMMA JobMoves ==
    ASSUME ReleaseInv, NEW j \in Jobs, NEW x \in AJob, job' = [job EXCEPT ![j] = x],
           Publishing, TrueOrder(x),
           job[j].approval # None =>
              x.version = job[j].version /\ x.bytes = job[j].bytes /\ x.approval = job[j].approval
    PROVE  ReleaseInv'
<1>1. job'[j] = x
  BY DEF ReleaseInv, Typed
<1>2. UNCHANGED <<pypi, builds, tested>>
  BY DEF Publishing, outside, candidate
<1>3. TrueOrder(x) <=> TrueJob(j)'
  BY <1>1, <1>2 DEF TrueJob, TrueOrder, TrueGate, Built, Tried, Wheel
<1> QED
  BY <1>3, JobStep

\* What is known of a job, and of the run it names.
LEMMA AtJob ==
    ASSUME ReleaseInv, NEW j \in Jobs
    PROVE  /\ job \in [Jobs -> AJob] /\ job[j] \in AJob /\ TrueOrder(job[j])
           /\ Len(builds) \in Nat /\ 0 <= Len(builds) /\ job[j].gate \in AGate
           /\ job[j].run \in Runs =>
                 /\ run[job[j].run].lock \in 0..Len(builds)
                 /\ run[job[j].run].gate \in AGate /\ TrueGate(run[job[j].run].gate)
<1>1. job \in [Jobs -> AJob] /\ job[j] \in AJob /\ TrueOrder(job[j])
  BY DEF ReleaseInv, Typed, TrueJob
<1>2. Len(builds) \in Nat /\ 0 <= Len(builds)
  BY DEF ReleaseInv, Typed
<1>3. job[j].gate \in AGate
  BY <1>1 DEF AJob
<1>4. ASSUME job[j].run \in Runs
      PROVE  /\ run[job[j].run].lock \in 0..Len(builds)
             /\ run[job[j].run].gate \in AGate /\ TrueGate(run[job[j].run].gate)
  BY <1>4, AtRun DEF ARun
<1> QED
  BY <1>1, <1>2, <1>3, <1>4

\* No lock and no gate, for a job that has none or has left them behind.
LEMMA NothingHeld ==
    ASSUME ReleaseInv
    PROVE  NoJob.gate \in AGate /\ TrueGate(NoJob.gate) /\ None <= Len(builds) /\ None \in Nat
  BY DEF ReleaseInv, Typed, NoJob, AGate, Status, TrueGate, None

LEMMA RequestSound ==
    ASSUME ReleaseInv, NEW j \in Jobs, NEW r \in Runs, NEW b \in 1..Len(builds), Request(j, r, b)
    PROVE  ReleaseInv'
<1>1. PICK v \in Versions :
         job' = [job EXCEPT ![j] = [NoJob EXCEPT !.phase = "lock", !.run = r, !.commit = main,
                                                 !.version = v, !.bytes = b]]
  BY DEF Request
<1> DEFINE x == [NoJob EXCEPT !.phase = "lock", !.run = r, !.commit = main, !.version = v,
                              !.bytes = b]
<1>2. Publishing /\ AtStep(j, "new") /\ job' = [job EXCEPT ![j] = x]
  BY <1>1 DEF Request
<1>3. main \in Nat /\ b \in Nat /\ b # None /\ Len(builds) \in Nat
  BY AtRun DEF None
<1>4. x \in AJob
  BY <1>3, NothingHeld DEF AJob, NoJob
<1>5. /\ x.lock = None /\ x.bytes = b /\ x.gate = NoJob.gate /\ x.approval = None
      /\ x.phase = "lock" /\ x.run = r /\ x.version = v
  BY DEF NoJob
<1> HIDE DEF x
<1>6. TrueOrder(x)
  BY <1>3, <1>5, NothingHeld DEF TrueOrder, Built, Verified
<1>7. job[j].approval = None
  BY <1>2, AtJob DEF AtStep, TrueOrder
<1> QED
  BY <1>2, <1>4, <1>6, <1>7, JobMoves
LEMMA DownloadSound ==
    ASSUME ReleaseInv, NEW j \in Jobs, DownloadLock(j) \/ DownloadGate(j)
    PROVE  ReleaseInv'
<1>1. Publishing /\ job[j].phase \in {"lock", "relock", "gate", "regate"}
  BY DEF DownloadLock, DownloadGate
<1>2. job[j].run \in Runs
  BY <1>1, AtJob DEF TrueOrder
<1>3. CASE DownloadLock(j)
  <2> DEFINE next == IF AtStep(j, "lock") THEN "gate" ELSE "regate"
             lock == run[job[j].run].lock
             x == [job[j] EXCEPT !.phase = next, !.lock = lock]
  <2>1. job' = [job EXCEPT ![j] = x]
    BY <1>3 DEF DownloadLock
  <2>2. next \in {"gate", "regate"} /\ (next \in Verified => job[j].phase \in Verified)
    BY <1>3 DEF DownloadLock, AtStep, Verified
  <2>3. lock \in Nat /\ lock <= Len(builds)
    BY <1>2, AtJob
  <2> HIDE DEF next, lock
  <2>4. x \in AJob /\ x.lock <= Len(builds)
    BY <2>3, <2>2, AtJob DEF AJob
  <2>5. /\ x.phase = next /\ x.run = job[j].run /\ x.version = job[j].version
        /\ x.bytes = job[j].bytes /\ x.gate = job[j].gate /\ x.approval = job[j].approval
    BY AtJob DEF AJob
  <2> HIDE DEF x
  <2>6. TrueOrder(x)
    BY <1>1, <2>2, <2>4, <2>5, AtJob DEF TrueOrder
  <2> QED
    BY <1>1, <2>1, <2>4, <2>5, <2>6, JobMoves
<1>4. CASE DownloadGate(j)
  <2> DEFINE next == IF AtStep(j, "gate") THEN "verify" ELSE "reverify"
             x == [job[j] EXCEPT !.phase = next, !.gate = run[job[j].run].gate]
  <2>1. job' = [job EXCEPT ![j] = x]
    BY <1>4 DEF DownloadGate
  <2>2. next \in {"verify", "reverify"} /\ (next \in Verified => job[j].phase \in Verified)
    BY <1>4 DEF DownloadGate, AtStep, Verified
  <2> HIDE DEF next
  <2>3. x \in AJob /\ TrueGate(x.gate)
    BY <1>2, <2>2, AtJob DEF AJob
  <2>4. /\ x.phase = next /\ x.run = job[j].run /\ x.version = job[j].version
        /\ x.bytes = job[j].bytes /\ x.lock = job[j].lock /\ x.approval = job[j].approval
    BY AtJob DEF AJob
  <2> HIDE DEF x
  <2>5. TrueOrder(x)
    BY <1>1, <2>2, <2>3, <2>4, AtJob DEF TrueOrder
  <2> QED
    BY <1>1, <2>1, <2>3, <2>4, <2>5, JobMoves
<1> QED
  BY <1>3, <1>4

\* What a verification lets through was asked for and tried in every cell.
LEMMA VerifySound ==
    ASSUME ReleaseInv, NEW j \in Jobs, Verify(j)
    PROVE  ReleaseInv'
<1> DEFINE next == IF AtStep(j, "verify") THEN "approval" ELSE "wheel"
           x == [job[j] EXCEPT !.phase = next, !.approval = job[j].lock]
<1>1. /\ Publishing /\ job[j].phase \in {"verify", "reverify"} /\ Exact(j)
      /\ job' = [job EXCEPT ![j] = x]
  BY DEF Verify
<1>2. next \in {"approval", "wheel"}
  OBVIOUS
<1> HIDE DEF next
<1>3. /\ job[j].run \in Runs /\ job[j].version \in Versions /\ Built(job[j].bytes)
      /\ job[j].bytes # None
  BY <1>1, AtJob DEF TrueOrder, Built, None
<1>4. /\ job[j].lock = job[j].bytes /\ job[j].gate.status = "pass"
      /\ job[j].gate.lock = job[j].bytes /\ Version[builds[job[j].bytes].commit] = job[j].version
  BY <1>1 DEF Exact, Requested, AskedBytes, PassedGate
<1>5. \A c \in Cells : Tried(c, job[j].bytes)
  BY <1>4, AtJob DEF TrueOrder, TrueGate
<1>6. /\ x.phase = next /\ x.run = job[j].run /\ x.version = job[j].version
      /\ x.bytes = job[j].bytes /\ x.lock = job[j].lock /\ x.gate = job[j].gate
      /\ x.approval = job[j].lock /\ x \in AJob
  BY <1>2, AtJob DEF AJob
<1> HIDE DEF x
<1>7. TrueOrder(x)
  BY <1>2, <1>3, <1>4, <1>5, <1>6, AtJob DEF TrueOrder
<1>8. job[j].approval # None => job[j].approval = job[j].bytes
  BY AtJob DEF TrueOrder
<1> QED
  BY <1>1, <1>4, <1>6, <1>7, <1>8, JobMoves

LEMMA ApproveSound ==
    ASSUME ReleaseInv, NEW j \in Jobs, Approve(j)
    PROVE  ReleaseInv'
<1> DEFINE x == [job[j] EXCEPT !.phase = "relock", !.lock = None, !.gate = NoJob.gate]
<1>1. Publishing /\ job[j].phase = "approval" /\ job' = [job EXCEPT ![j] = x]
  BY DEF Approve, AtStep
<1>2. /\ x.phase = "relock" /\ x.run = job[j].run /\ x.version = job[j].version
      /\ x.bytes = job[j].bytes /\ x.lock = None /\ x.gate = NoJob.gate
      /\ x.approval = job[j].approval /\ x \in AJob
  BY AtJob, NothingHeld DEF AJob
<1> HIDE DEF x
<1>3. TrueOrder(x)
  BY <1>1, <1>2, AtJob, NothingHeld DEF TrueOrder, Verified
<1> QED
  BY <1>1, <1>2, <1>3, JobMoves

\* A job that ends keeps its approval and what it was asked for, and holds nothing else.
LEMMA JobEndsSound ==
    ASSUME ReleaseInv, NEW j \in Jobs, JobEnds(j)
    PROVE  ReleaseInv'
<1>1. Publishing
  BY DEF JobEnds
<1>2. CASE job[j].approval = None
  <2> DEFINE x == [NoJob EXCEPT !.phase = "dead"]
  <2>1. job' = [job EXCEPT ![j] = x]
    BY <1>2 DEF JobEnds
  <2>2. x \in AJob
    BY NothingHeld DEF AJob, NoJob
  <2>3. /\ x.phase = "dead" /\ x.lock = None /\ x.bytes = None /\ x.gate = NoJob.gate
        /\ x.approval = None
    BY DEF NoJob
  <2> HIDE DEF x
  <2>4. TrueOrder(x)
    BY <2>3, NothingHeld DEF TrueOrder, Verified
  <2> QED
    BY <1>1, <1>2, <2>1, <2>2, <2>4, JobMoves
<1>3. CASE job[j].approval # None
  <2> DEFINE x == [job[j] EXCEPT !.phase = "dead", !.lock = None, !.gate = NoJob.gate]
  <2>1. job' = [job EXCEPT ![j] = x]
    BY <1>3 DEF JobEnds
  <2>2. /\ x.phase = "dead" /\ x.run = job[j].run /\ x.version = job[j].version
        /\ x.bytes = job[j].bytes /\ x.lock = None /\ x.gate = NoJob.gate
        /\ x.approval = job[j].approval /\ x \in AJob
    BY AtJob, NothingHeld DEF AJob
  <2> HIDE DEF x
  <2>3. TrueOrder(x)
    BY <1>3, <2>2, AtJob, NothingHeld DEF TrueOrder, Verified
  <2> QED
    BY <1>1, <2>1, <2>2, <2>3, JobMoves
<1> QED
  BY <1>2, <1>3

LEMMA RetryJobSound ==
    ASSUME ReleaseInv, NEW j \in Jobs, RetryJob(j)
    PROVE  ReleaseInv'
<1> DEFINE x == [job[j] EXCEPT !.phase = "approval", !.lost = TRUE]
<1>1. Publishing /\ job[j].approval # None /\ job' = [job EXCEPT ![j] = x]
  BY DEF RetryJob
<1>2. /\ x.phase = "approval" /\ x.run = job[j].run /\ x.version = job[j].version
      /\ x.bytes = job[j].bytes /\ x.lock = job[j].lock /\ x.gate = job[j].gate
      /\ x.approval = job[j].approval /\ x \in AJob
  BY AtJob DEF AJob
<1> HIDE DEF x
<1>3. TrueOrder(x)
  BY <1>1, <1>2, AtJob DEF TrueOrder
<1> QED
  BY <1>1, <1>2, <1>3, JobMoves
\* What a job is about to upload.
LEMMA AtUpload ==
    ASSUME ReleaseInv, NEW j \in Jobs, job[j].phase \in {"wheel", "sdist"}
    PROVE  /\ job[j].version \in Versions /\ Built(job[j].bytes) /\ job[j].lock = job[j].bytes
           /\ job[j].approval = job[j].bytes /\ job[j].approval # None
           /\ pypi \in [Versions -> [wheel : Nat, sdist : Nat]]
           /\ pypi[job[j].version] \in [wheel : Nat, sdist : Nat]
           /\ Wheel(job[j].bytes) \in Nat \ {0} /\ job[j].bytes \in Nat
<1>1. /\ job[j].version \in Versions /\ Built(job[j].bytes) /\ job[j].lock = job[j].bytes
      /\ job[j].approval = job[j].bytes /\ job[j].approval # None
  BY AtJob DEF TrueOrder, Verified
<1>2. Wheel(job[j].bytes) \in Nat \ {0}
  BY <1>1, Builds DEF ReleaseInv, Built, ABuild
<1>3. pypi \in [Versions -> [wheel : Nat, sdist : Nat]]
  BY DEF ReleaseInv, Typed
<1> QED
  BY <1>1, <1>2, <1>3, AtJob DEF Built

\* A job gives version v the files p, which a job that was approved asked for.
LEMMA UploadStep ==
    ASSUME ReleaseInv, NEW j \in Jobs, NEW x \in AJob, job' = [job EXCEPT ![j] = x],
           UNCHANGED <<main, claimed, candidate>>,
           NEW v \in Versions, NEW p \in [wheel : Nat, sdist : Nat],
           pypi' = [pypi EXCEPT ![v] = p], pypi[v].wheel \in {None, p.wheel},
           x.version = job[j].version, x.bytes = job[j].bytes, x.approval = job[j].approval,
           \E k \in Jobs : /\ job[k].version = v /\ job[k].approval = job[k].bytes
                           /\ p.wheel = Wheel(job[k].bytes) /\ p.sdist \in {None, job[k].bytes},
           TrueJob(j)'
    PROVE  ReleaseInv'
<1>1. /\ job' \in [Jobs -> AJob] /\ job'[j] = x /\ \A k \in Jobs \ {j} : job'[k] = job[k]
      /\ pypi' \in [Versions -> [wheel : Nat, sdist : Nat]] /\ pypi'[v] = p
      /\ \A w \in Versions \ {v} : pypi'[w] = pypi[w]
  BY DEF ReleaseInv, Typed
<1>2. Growing /\ Typed'
  BY <1>1, Builds DEF ReleaseInv, Growing, Typed, candidate
<1>3. \A r \in Runs : TrueRun(r)'
  BY <1>2, RunStays DEF ReleaseInv, candidate
<1>4. \A w \in Versions : pypi[w].wheel # None => pypi'[w].wheel = pypi[w].wheel
  BY <1>1
<1>5. \A k \in Jobs : TrueJob(k)'
  BY <1>1, <1>2, <1>4, JobStays DEF ReleaseInv
<1>6. \A k \in Jobs : /\ job'[k].version = job[k].version /\ job'[k].bytes = job[k].bytes
                      /\ job'[k].approval = job[k].approval
  BY <1>1
<1>7. UploadIsApproved'
  <2> SUFFICES ASSUME NEW w \in Versions, OnPyPI(w)'
               PROVE  \E k \in Jobs : job'[k].version = w /\ Holds(w, job[k].bytes)'
                                      /\ job'[k].approval = job'[k].bytes
    BY DEF UploadIsApproved
  <2>1. UNCHANGED builds
    BY DEF candidate
  <2>2. CASE w = v
    <3>1. PICK k \in Jobs : /\ job[k].version = v /\ job[k].approval = job[k].bytes
                            /\ p.wheel = Wheel(job[k].bytes) /\ p.sdist \in {None, job[k].bytes}
      OBVIOUS
    <3>2. job'[k].version = w /\ job'[k].approval = job'[k].bytes
      BY <2>2, <3>1, <1>6
    <3>3. Holds(w, job[k].bytes)'
      BY <1>1, <1>6, <2>1, <2>2, <3>1 DEF Holds, Wheel
    <3> QED
      BY <3>2, <3>3
  <2>3. CASE w # v
    <3>1. pypi'[w] = pypi[w] /\ OnPyPI(w)
      BY <1>1, <2>3 DEF OnPyPI
    <3>2. PICK k \in Jobs : /\ job[k].version = w /\ Holds(w, job[k].bytes)
                            /\ job[k].approval = job[k].bytes
      BY <3>1, Approved
    <3>3. job'[k].version = w /\ job'[k].approval = job'[k].bytes
      BY <3>2, <1>6
    <3>4. Holds(w, job[k].bytes)'
      BY <1>6, <2>1, <3>1, <3>2 DEF Holds, Wheel
    <3> QED
      BY <3>3, <3>4
  <2> QED
    BY <2>2, <2>3
<1> QED
  BY <1>2, <1>3, <1>5, <1>7 DEF ReleaseInv

\* If PyPI has a file of the version already, the request that put it there has this
\* wheel; if it has none, this is the first.
LEMMA UploadWheelSound ==
    ASSUME ReleaseInv, NEW j \in Jobs, UploadWheel(j)
    PROVE  ReleaseInv'
<1> DEFINE v == job[j].version
           b == job[j].bytes
           x == [job[j] EXCEPT !.phase = "sdist"]
           p == [pypi[v] EXCEPT !.wheel = Wheel(b)]
<1>1. job[j].phase = "wheel" /\ UNCHANGED <<main, claimed, candidate>>
  BY DEF UploadWheel, AtStep
<1>2. /\ v \in Versions /\ Built(b) /\ job[j].lock = b /\ job[j].approval = b
      /\ job[j].approval # None
      /\ pypi \in [Versions -> [wheel : Nat, sdist : Nat]]
      /\ pypi[v] \in [wheel : Nat, sdist : Nat]
      /\ Wheel(b) \in Nat \ {0} /\ b \in Nat
  BY <1>1, AtUpload
<1>3. /\ job' = [job EXCEPT ![j] = x] /\ pypi' = [pypi EXCEPT ![v] = p]
      /\ pypi[v].wheel \in {None, Wheel(b)}
  BY <1>2 DEF UploadWheel, Step
<1>4. /\ p \in [wheel : Nat, sdist : Nat] /\ p.wheel = Wheel(b) /\ p.sdist = pypi[v].sdist
  <2>1. \A w \in Nat : /\ [pypi[v] EXCEPT !.wheel = w] \in [wheel : Nat, sdist : Nat]
                       /\ [pypi[v] EXCEPT !.wheel = w].wheel = w
                       /\ [pypi[v] EXCEPT !.wheel = w].sdist = pypi[v].sdist
    BY <1>2
  <2> QED
    BY <1>2, <2>1
<1>5. /\ x \in AJob /\ x.phase = "sdist" /\ x.run = job[j].run /\ x.version = v
      /\ x.bytes = b /\ x.approval = job[j].approval /\ x.lock = job[j].lock
      /\ x.gate = job[j].gate
  BY AtJob DEF AJob
<1> HIDE DEF x, p
<1>6. \E k \in Jobs : /\ job[k].version = v /\ job[k].approval = job[k].bytes
                      /\ p.wheel = Wheel(job[k].bytes) /\ p.sdist \in {None, job[k].bytes}
  <2>1. CASE OnPyPI(v)
    <3>1. PICK k \in Jobs : /\ job[k].version = v /\ Holds(v, job[k].bytes)
                            /\ job[k].approval = job[k].bytes /\ pypi[v].wheel # None
      BY <1>2, <2>1, Approved
    <3> QED
      BY <1>3, <1>4, <3>1 DEF Holds
  <2>2. CASE ~OnPyPI(v)
    BY <1>2, <1>4, <2>2 DEF OnPyPI
  <2> QED
    BY <2>1, <2>2
<1>7. TrueJob(j)'
  <2>1. /\ UNCHANGED <<builds, tested>> /\ pypi'[job[j].version].wheel = Wheel(job[j].bytes)
        /\ job'[j].phase = "sdist" /\ job'[j].run = job[j].run
        /\ job'[j].version = job[j].version /\ job'[j].bytes = job[j].bytes
        /\ job'[j].approval = job[j].approval /\ job'[j].lock = job[j].lock
        /\ job'[j].gate = job[j].gate
    BY <1>1, <1>2, <1>3, <1>4, <1>5, AtJob DEF candidate
  <2>2. TrueOrder(job[j])
    BY AtJob
  <2>3. TrueGate(job[j].gate)' /\ Wheel(job[j].bytes)' = Wheel(job[j].bytes)
    BY <2>1, <2>2 DEF TrueOrder, TrueGate, Built, Tried, Wheel
  <2>4. \A c \in Cells : Tried(c, job[j].bytes)'
    BY <1>2, <2>1, <2>2 DEF TrueOrder, Tried, Wheel
  <2>5. job[j].phase = "wheel" /\ job[j].run \in Runs
    BY <1>1, <2>2 DEF TrueOrder
  <2> QED
    BY <1>2, <2>1, <2>2, <2>3, <2>4, <2>5 DEF TrueJob, TrueOrder, Built
<1> QED
  BY <1>1, <1>2, <1>3, <1>4, <1>5, <1>6, <1>7, UploadStep
\* The sdist goes beside the wheel that the same job has put there.
LEMMA UploadSdistSound ==
    ASSUME ReleaseInv, NEW j \in Jobs, UploadSdist(j)
    PROVE  ReleaseInv'
<1> DEFINE v == job[j].version
           b == job[j].bytes
           x == [job[j] EXCEPT !.phase = "published", !.lock = None, !.gate = NoJob.gate]
           p == [pypi[v] EXCEPT !.sdist = b]
<1>1. job[j].phase = "sdist" /\ UNCHANGED <<main, claimed, candidate>>
  BY DEF UploadSdist, AtStep
<1>2. /\ v \in Versions /\ Built(b) /\ job[j].lock = b /\ job[j].approval = b
      /\ job[j].approval # None
      /\ pypi \in [Versions -> [wheel : Nat, sdist : Nat]]
      /\ pypi[v] \in [wheel : Nat, sdist : Nat]
      /\ b \in Nat /\ pypi[v].wheel = Wheel(b)
  BY <1>1, AtUpload, AtJob DEF TrueOrder
<1>3. job' = [job EXCEPT ![j] = x] /\ pypi' = [pypi EXCEPT ![v] = p]
  BY <1>2 DEF UploadSdist
<1>4. p \in [wheel : Nat, sdist : Nat] /\ p.wheel = Wheel(b) /\ p.sdist = b
  BY <1>2
<1>5. /\ x \in AJob /\ x.phase = "published" /\ x.run = job[j].run /\ x.version = v
      /\ x.bytes = b /\ x.approval = job[j].approval /\ x.lock = None /\ x.gate = NoJob.gate
  BY AtJob, NothingHeld DEF AJob
<1> HIDE DEF x, p
<1>6. TrueJob(j)'
  <2>1. /\ UNCHANGED <<builds, tested>>
        /\ job'[j].phase = "published" /\ job'[j].run = job[j].run
        /\ job'[j].version = job[j].version /\ job'[j].bytes = job[j].bytes
        /\ job'[j].approval = job[j].approval /\ job'[j].lock = None
        /\ job'[j].gate = NoJob.gate
    BY <1>1, <1>3, <1>5, AtJob DEF candidate
  <2>2. TrueOrder(job[j])
    BY AtJob
  <2>3. TrueGate(job[j].gate)'
    BY <2>1 DEF NoJob, TrueGate
  <2>4. \A c \in Cells : Tried(c, job[j].bytes)'
    BY <1>2, <2>1, <2>2 DEF TrueOrder, Tried, Wheel
  <2>5. job[j].phase = "sdist" /\ job[j].run \in Runs
    BY <1>1, <2>2 DEF TrueOrder
  <2> QED
    BY <1>2, <2>1, <2>2, <2>3, <2>4, <2>5, NothingHeld
       DEF TrueJob, TrueOrder, Built, Verified
<1>7. \E k \in Jobs : /\ job[k].version = v /\ job[k].approval = job[k].bytes
                      /\ p.wheel = Wheel(job[k].bytes) /\ p.sdist \in {None, job[k].bytes}
  BY <1>2, <1>4
<1> QED
  BY <1>1, <1>2, <1>3, <1>4, <1>5, <1>6, <1>7, UploadStep

LEMMA PublishSound ==
    ASSUME ReleaseInv, NEW j \in Jobs, Publish(j)
    PROVE  ReleaseInv'
  BY RequestSound, DownloadSound, VerifySound, ApproveSound, UploadWheelSound, UploadSdistSound,
     JobEndsSound, RetryJobSound DEF Publish

\* What people do around the pipeline is no part of what is promised.
LEMMA PeopleSound ==
    ASSUME ReleaseInv, People
    PROVE  ReleaseInv'
<1>1. UNCHANGED <<pypi, builds, tested, run, cell, evidence, job>> /\ main' \in Nat
  BY DEF People, MoveMain, ClaimVersion, candidate, ReleaseInv, Typed
<1>2. Growing /\ Typed'
  BY <1>1, Builds DEF ReleaseInv, Growing, Typed
<1>3. \A r \in Runs : TrueRun(r)'
  BY <1>1, <1>2, RunStays DEF ReleaseInv
<1>4. \A j \in Jobs : TrueJob(j)'
  BY <1>1, <1>2, JobStays DEF ReleaseInv
<1>5. UploadIsApproved'
  BY <1>1, <1>2, ApprovalStays
<1> QED
  BY <1>2, <1>3, <1>4, <1>5 DEF ReleaseInv

LEMMA ReleaseInit ==
    ASSUME Init
    PROVE  ReleaseInv
<1>1. NoRun \in ARun
  BY DEF NoRun, ARun, AGate, Status, None
<1>2. NoJob \in AJob
  BY DEF NoJob, AJob, AGate, Status, None
<1>3. NoEvidence \in SomeEvidence /\ [phase |-> "skipped", installed |-> None] \in ACell
  BY DEF NoEvidence, SomeEvidence, ACell, None
<1>4. builds \in Seq(ABuild) /\ Len(builds) = 0
  BY DEF Init
<1>5. Typed
  BY <1>1, <1>2, <1>3, <1>4 DEF Init, Typed, None
<1>6. ASSUME NEW r \in Runs PROVE TrueRun(r)
  BY <1>4 DEF Init, TrueRun, TrueGate, NoRun, NoEvidence, None
<1>7. ASSUME NEW j \in Jobs PROVE TrueJob(j)
  BY <1>4 DEF Init, TrueJob, TrueOrder, TrueGate, NoJob, Verified, None
<1>8. UploadIsApproved
  BY DEF Init, UploadIsApproved, OnPyPI, None
<1> QED
  BY <1>5, <1>6, <1>7, <1>8 DEF ReleaseInv
-----------------------------------------------------------------------------
(* The theorems *)

\* The invariant of the argument: every piece of evidence, every gate and every verified
\* request stands for suites that passed on the bytes it names.
THEOREM ReleaseInvariant == Spec => []ReleaseInv
<1>1. Init => ReleaseInv
  BY ReleaseInit
<1>2. ReleaseInv /\ [Next]_vars => ReleaseInv'
  <2> SUFFICES ASSUME ReleaseInv, [Next]_vars
               PROVE  ReleaseInv'
    OBVIOUS
  <2>1. CASE People
    BY <2>1, PeopleSound
  <2>2. CASE \E r \in Runs : Candidate(r)
    BY <2>2, CandidateSound
  <2>3. CASE \E j \in Jobs : Publish(j)
    BY <2>3, PublishSound
  <2>4. CASE UNCHANGED vars
    <3>1. UNCHANGED <<main, pypi, builds, tested, run, cell, evidence, job>>
      BY <2>4 DEF vars
    <3> QED
      BY <3>1 DEF ReleaseInv, Typed, TrueRun, TrueJob, TrueOrder, TrueGate, Built, Tried, Wheel,
                  InRun, UploadIsApproved, OnPyPI, Holds
  <2> QED
    BY <2>1, <2>2, <2>3, <2>4 DEF Next
<1> QED
  BY <1>1, <1>2, PTL DEF Spec

\* What is on PyPI is what one person asked for by its hashes and the environment let
\* through (verify_publish_candidate.py).
THEOREM UploadIsAlwaysApproved == Spec => []UploadIsApproved
<1>1. ReleaseInv => UploadIsApproved
  BY DEF ReleaseInv
<1> QED
  BY <1>1, ReleaseInvariant, PTL

\* And it is one build of a commit with that version, on whose bytes every cell's suite
\* passed (publish.yml): the job that let it out had verified as much.
THEOREM PublishedIsAlwaysTested == Spec => []PublishedIsTested
<1>1. ReleaseInv => PublishedIsTested
  <2> SUFFICES ASSUME ReleaseInv, NEW v \in Versions, OnPyPI(v)
               PROVE  \E b \in 1..Len(builds) :
                         /\ Holds(v, b)
                         /\ Version[builds[b].commit] = v
                         /\ <<Examples, Wheel(b)>> \in tested
                         /\ \A c \in Platforms : <<c, b>> \in tested
    BY DEF PublishedIsTested
  <2>1. PICK j \in Jobs : /\ job[j].version = v /\ Holds(v, job[j].bytes)
                          /\ job[j].approval = job[j].bytes /\ job[j].approval # None
                          /\ Built(job[j].bytes)
    BY Approved
  <2>2. /\ Version[builds[job[j].bytes].commit] = v
        /\ \A c \in Cells : Tried(c, job[j].bytes)
    BY <2>1, AtJob DEF TrueOrder
  <2>3. <<Examples, Wheel(job[j].bytes)>> \in tested
    BY <2>2 DEF Tried, Cells
  <2>4. \A c \in Platforms : <<c, job[j].bytes>> \in tested
    BY <2>2, ReleaseAssumption DEF Tried, Cells
  <2> QED
    BY <2>1, <2>2, <2>3, <2>4 DEF Built
<1> QED
  BY <1>1, ReleaseInvariant, PTL

=============================================================================

------------------------------ MODULE Release ------------------------------
(***************************************************************************)
(* The release pipeline: the "Release candidate" workflow, which builds one *)
(* artifact set, locks it and tests it in every cell, and the "Publish to   *)
(* PyPI" workflow, which verifies a candidate twice - before and after the  *)
(* environment's approval - and uploads its two files.                      *)
(*                                                                         *)
(* Both workflows run at GitHub while people work: main moves, versions are *)
(* claimed, a candidate run is repeated under the same run id, runners are  *)
(* lost, and several publishing jobs may be under way at once.  GitHub's    *)
(* artifacts (a repeated upload hides the older one of its name, and until  *)
(* then the older one is what a download returns), its run conclusions and  *)
(* PyPI's rule that a file name is never given other bytes are external.    *)
(***************************************************************************)
EXTENDS Naturals, Sequences, FiniteSets

CONSTANTS
    Runs,          \* candidate workflow runs, by run id
    Jobs,          \* runs of the publishing workflow
    Platforms,     \* the platform cells of the matrix
    Examples,      \* the examples-wheel cell
    Version,       \* the version in pyproject.toml, for each commit of main
    MaxBuilds,     \* bound: artifact sets built
    MaxAttempts,   \* bound: attempts of one candidate run
    MaxLosses      \* bound: publishing jobs that end and are repeated

Commits == DOMAIN Version
Versions == {Version[c] : c \in Commits}
Cells == Platforms \union {Examples}

ASSUME ReleaseAssumption ==
    /\ Commits = 1..Cardinality(Commits)
    /\ Examples \notin Platforms
    /\ {MaxBuilds, MaxAttempts, MaxLosses} \subseteq Nat

VARIABLES
    main,        \* the commit main points at
    claimed,     \* versions that have a tag or a GitHub release
    pypi,        \* for each version, the wheel and the sdist PyPI holds
    builds,      \* every artifact set built: its run, commit and wheel bytes
    tested,      \* history: which cell's suite passed on which bytes
    run,         \* the candidate runs
    cell,        \* where each cell of a candidate run stands
    evidence,    \* what each cell has uploaded
    job          \* the publishing jobs

vars == <<main, claimed, pypi, builds, tested, run, cell, evidence, job>>
candidate == <<builds, tested, run, cell, evidence>>
outside == <<main, claimed, pypi>>

(***************************************************************************)
(* A build is named by its number.  The sdist of each build is new; its     *)
(* wheel may come out with the bytes of an earlier one.  Zero is no build.  *)
(***************************************************************************)
None == 0
Wheel(b) == IF b = None THEN None ELSE builds[b].wheel

(* Before anything happened to a run, a cell's evidence, a publishing job. *)
NoRun == [phase |-> "new", commit |-> None, attempts |-> 0, preflight |-> "none",
          lock |-> None, gate |-> [status |-> "none", lock |-> None], conclusion |-> "none"]
NoEvidence == [status |-> "none", build |-> None]
NoJob == [phase |-> "new", run |-> None, commit |-> None, version |-> None, bytes |-> None,
          lock |-> None, gate |-> [status |-> "none", lock |-> None], approval |-> None,
          lost |-> FALSE]

Init ==
    /\ main = 1
    /\ claimed = {}
    /\ pypi = [v \in Versions |-> [wheel |-> None, sdist |-> None]]
    /\ builds = <<>>
    /\ tested = {}
    /\ run = [r \in Runs |-> NoRun]
    /\ cell = [r \in Runs |-> [c \in Cells |-> [phase |-> "skipped", installed |-> None]]]
    /\ evidence = [r \in Runs |-> [c \in Cells |-> NoEvidence]]
    /\ job = [j \in Jobs |-> NoJob]

OnPyPI(v) == pypi[v].wheel # None \/ pypi[v].sdist # None
Unclaimed(v) == v \notin claimed /\ ~OnPyPI(v)

-----------------------------------------------------------------------------
(* The people around the pipeline: a commit lands, a version is tagged. *)
MoveMain ==
    /\ main + 1 \in Commits
    /\ main' = main + 1
    /\ UNCHANGED <<claimed, pypi, candidate, job>>

ClaimVersion(v) ==
    /\ v \notin claimed
    /\ claimed' = claimed \union {v}
    /\ UNCHANGED <<main, pypi, candidate, job>>

-----------------------------------------------------------------------------
(***************************************************************************)
(* The candidate workflow.                                                 *)
(***************************************************************************)
InRun(r, phase) == run[r].phase = phase

(* A run is dispatched from main for the commit main points at; any other   *)
(* commit fails its first test and leaves nothing behind.                   *)
Dispatch(r) ==
    /\ InRun(r, "new")
    /\ run' = [run EXCEPT ![r] =
          [@ EXCEPT !.phase = "preflight", !.commit = main, !.attempts = 1]]
    /\ cell' = [cell EXCEPT ![r] = [c \in Cells |-> [phase |-> "waiting", installed |-> None]]]
    /\ UNCHANGED <<outside, builds, tested, evidence, job>>

(* verify_release_candidate_identity: is the version unclaimed?  The answer *)
(* is uploaded whether the rest of the job succeeds or not.                 *)
Preflight(r) ==
    /\ InRun(r, "preflight")
    /\ IF Unclaimed(Version[run[r].commit])
       THEN run' = [run EXCEPT ![r] = [@ EXCEPT !.phase = "build", !.preflight = "pass"]]
       ELSE run' = [run EXCEPT ![r] = [@ EXCEPT !.phase = "unfrozen", !.preflight = "fail"]]
    /\ UNCHANGED <<outside, builds, tested, cell, evidence, job>>

(* Build one artifact set and lock it; the upload hides an earlier one. *)
Build(r) ==
    /\ InRun(r, "build")
    /\ Len(builds) < MaxBuilds
    /\ \E w \in {b \in 1..Len(builds) : builds[b].commit = run[r].commit} \union {Len(builds) + 1} :
          builds' = Append(builds, [run |-> r, commit |-> run[r].commit,
                                    wheel |-> IF w > Len(builds) THEN w ELSE builds[w].wheel])
    /\ run' = [run EXCEPT ![r] = [@ EXCEPT !.phase = "cells", !.lock = Len(builds) + 1]]
    /\ UNCHANGED <<outside, tested, cell, evidence, job>>

FreezeFails(r) ==
    /\ run[r].phase \in {"preflight", "build"}
    /\ run' = [run EXCEPT ![r].phase = "unfrozen"]
    /\ UNCHANGED <<outside, builds, tested, cell, evidence, job>>

InCell(r, c, phase) == InRun(r, "cells") /\ cell[r][c].phase = phase
Advance(r, c, phase) == cell' = [cell EXCEPT ![r][c].phase = phase]
Leave(r, c, phase) == cell' = [cell EXCEPT ![r][c] = [phase |-> phase, installed |-> None]]
Pass(c, b) == tested' = tested \union {<<c, b>>}

(* validate_release_candidate on the downloaded artifact set: the suite,    *)
(* twine, the wheel installed into an environment of its own, and the files *)
(* kept (_publish_artifacts) before anything says that they passed.         *)
Validate(r, c) ==
    /\ c \in Platforms
    /\ InCell(r, c, "waiting")
    /\ Pass(c, run[r].lock)
    /\ Advance(r, c, "tested")
    /\ UNCHANGED <<outside, builds, run, evidence, job>>

(***************************************************************************)
(* _validate_example: uninstall rpacore, install the wheel, install the     *)
(* example's requirements - which may bring another rpacore - and look      *)
(* again at what is installed before the tests run.                         *)
(***************************************************************************)
InstallExample(r) ==
    /\ InCell(r, Examples, "waiting")
    /\ \E i \in {Wheel(run[r].lock), None} :
          cell' = [cell EXCEPT ![r][Examples] = [phase |-> "installed", installed |-> i]]
    /\ UNCHANGED <<outside, builds, tested, run, evidence, job>>

(* _candidate_wheel_identity_command, after the requirements. *)
IsCandidateOrNot(r) == r \in Runs           \* faulty: looks only before the requirements
IsCandidate(r) == cell[r][Examples].installed = Wheel(run[r].lock)

RunExamples(r) ==
    /\ InCell(r, Examples, "installed")
    /\ IsCandidate(r)
    /\ Pass(Examples, cell[r][Examples].installed)
    /\ Advance(r, Examples, "tested")
    /\ UNCHANGED <<outside, builds, run, evidence, job>>

(* _write_manifest and _write_outputs: the result file and then its summary. *)
Writable(r, c) == InCell(r, c, "tested")
Upload(r, c, e) == evidence' = [evidence EXCEPT ![r][c] = e]
Passed(r) == [status |-> "pass", build |-> run[r].lock]

WriteEvidence(r, c) ==
    /\ Writable(r, c)
    /\ Upload(r, c, Passed(r))
    /\ Leave(r, c, "passed")
    /\ UNCHANGED <<outside, builds, tested, run, job>>

(* The job is cut off after the result file was put in place. *)
CutShort(r, c) ==
    /\ Writable(r, c)
    /\ Upload(r, c, Passed(r))
    /\ Leave(r, c, "failed")
    /\ UNCHANGED <<outside, builds, tested, run, job>>

(* A step of the cell fails, or its runner is lost.  What is uploaded then  *)
(* is no passing result, or nothing at all: an earlier attempt's evidence   *)
(* stays.                                                                   *)
CellFails(r, c) ==
    /\ InRun(r, "cells")
    /\ cell[r][c].phase \notin {"passed", "failed"}
    /\ \E e \in {evidence[r][c], NoEvidence} : Upload(r, c, e)
    /\ Leave(r, c, "failed")
    /\ UNCHANGED <<outside, builds, tested, run, job>>

-----------------------------------------------------------------------------
(***************************************************************************)
(* aggregate-gate, which runs whatever became of the others.  The evidence  *)
(* of each cell must have passed and be about the locked bytes: a platform  *)
(* cell lists both files, the examples cell the wheel.                      *)
(***************************************************************************)
CellsEnded(r) == \A c \in Cells : cell[r][c].phase \in {"passed", "failed"}
AllPassed(r) == InRun(r, "cells") /\ \A c \in Cells : cell[r][c].phase = "passed"

Covers(r, c) ==
    /\ evidence[r][c].status = "pass"
    /\ IF c = Examples THEN Wheel(evidence[r][c].build) = Wheel(run[r].lock)
                       ELSE evidence[r][c].build = run[r].lock

GateStatus(r) ==
    IF run[r].preflight = "pass" /\ \A c \in Cells : Covers(r, c) THEN "pass" ELSE "fail"

Aggregate(r) ==
    /\ InRun(r, "unfrozen") \/ (InRun(r, "cells") /\ CellsEnded(r))
    /\ run' = [run EXCEPT ![r] =
          [@ EXCEPT !.phase = "over",
                    !.gate = IF run[r].lock = None THEN run[r].gate
                             ELSE [status |-> GateStatus(r), lock |-> run[r].lock],
                    !.conclusion = IF AllPassed(r) /\ GateStatus(r) = "pass"
                                   THEN "success" ELSE "failure"]]
    /\ UNCHANGED <<outside, builds, tested, cell, evidence, job>>

AggregateFails(r) ==
    /\ InRun(r, "unfrozen") \/ (InRun(r, "cells") /\ CellsEnded(r))
    /\ run' = [run EXCEPT ![r] = [@ EXCEPT !.phase = "over", !.conclusion = "failure"]]
    /\ UNCHANGED <<outside, builds, tested, cell, evidence, job>>

(* GitHub repeats a run under its id, for its commit: every job, or those   *)
(* that failed and those that need them.  What was uploaded stays.          *)
Repeat(r, phase, again) ==
    /\ InRun(r, "over")
    /\ run[r].attempts < MaxAttempts
    /\ run' = [run EXCEPT ![r] = [@ EXCEPT !.phase = phase,
                                           !.attempts = run[r].attempts + 1,
                                           !.conclusion = "none"]]
    /\ cell' = [cell EXCEPT ![r] = [c \in Cells |->
                    IF c \in again THEN [phase |-> "waiting", installed |-> None] ELSE cell[r][c]]]
    /\ UNCHANGED <<outside, builds, tested, evidence, job>>

RerunAll(r) == Repeat(r, "preflight", Cells)

FailedCells(r) == {c \in Cells : cell[r][c].phase = "failed"}
RerunFailed(r) ==
    /\ run[r].conclusion = "failure"
    /\ CellsEnded(r)
    /\ Repeat(r, "cells", FailedCells(r))

-----------------------------------------------------------------------------
(***************************************************************************)
(* The publishing workflow.  Its inputs are typed by a person: the run, the *)
(* commit, the version and the hashes of a wheel and an sdist - those of    *)
(* some build, which is how the job's "bytes" name them.                    *)
(***************************************************************************)
AtStep(j, phase) == job[j].phase = phase
Step(j, phase) == job' = [job EXCEPT ![j].phase = phase]
Publishing == UNCHANGED <<outside, candidate>>

(* The job is started on main, for the commit main points at, once the run  *)
(* has aggregate evidence to read hashes from; a job for any other commit,  *)
(* or before that, fails its first steps.                                   *)
Request(j, r, b) ==
    /\ AtStep(j, "new")
    /\ run[r].gate.status # "none"
    /\ \E v \in Versions :
          job' = [job EXCEPT ![j] = [NoJob EXCEPT !.phase = "lock", !.run = r, !.commit = main,
                                                  !.version = v, !.bytes = b]]
    /\ Publishing

(* The two downloads of each phase: the artifact set with its lock, and the *)
(* aggregate evidence, whatever the run holds at that moment.               *)
DownloadLock(j) ==
    /\ job[j].phase \in {"lock", "relock"}
    /\ run[job[j].run].lock # None
    /\ job' = [job EXCEPT ![j] =
          [@ EXCEPT !.phase = IF AtStep(j, "lock") THEN "gate" ELSE "regate",
                    !.lock = run[job[j].run].lock]]
    /\ Publishing

DownloadGate(j) ==
    /\ job[j].phase \in {"gate", "regate"}
    /\ run[job[j].run].gate.status # "none"
    /\ job' = [job EXCEPT ![j] =
          [@ EXCEPT !.phase = IF AtStep(j, "gate") THEN "verify" ELSE "reverify",
                    !.gate = run[job[j].run].gate]]
    /\ Publishing

(***************************************************************************)
(* _candidate_lock and the comparison with the lock verified before.        *)
(***************************************************************************)
Requested(j) ==
    LET lock == builds[job[j].lock] IN
    /\ lock.run = job[j].run
    /\ lock.commit = job[j].commit
    /\ Version[lock.commit] = job[j].version
AskedBytes(j) == job[j].lock = job[j].bytes
PassedGate(j) == job[j].gate = [status |-> "pass", lock |-> job[j].lock]
SameAsBefore(j) == job[j].phase = "reverify" => job[j].lock = job[j].approval

ExactGateOnly(j) == Requested(j) /\ PassedGate(j)  \* faulty: compares no hashes
Exact(j) == Requested(j) /\ AskedBytes(j) /\ PassedGate(j) /\ SameAsBefore(j)

(* _verify_remote_identity asks GitHub whether the run succeeded, and then  *)
(* whether the version has a tag, a release or a file on PyPI.              *)
Verify(j) ==
    /\ job[j].phase \in {"verify", "reverify"}
    /\ Exact(j)
    /\ run[job[j].run].conclusion = "success"
    /\ Unclaimed(job[j].version)
    /\ job' = [job EXCEPT ![j] =
          [@ EXCEPT !.phase = IF AtStep(j, "verify") THEN "approval" ELSE "wheel",
                    !.approval = job[j].lock]]
    /\ Publishing

(* The pypi environment lets the job go on; main must still be the commit. *)
Approve(j) ==
    /\ AtStep(j, "approval")
    /\ main = job[j].commit
    /\ job' = [job EXCEPT ![j] =
          [@ EXCEPT !.phase = "relock", !.lock = None, !.gate = NoJob.gate]]
    /\ Publishing

(* PyPI takes a file again with the same bytes only. *)
UploadWheel(j) ==
    /\ AtStep(j, "wheel")
    /\ pypi[job[j].version].wheel \in {None, Wheel(job[j].lock)}
    /\ pypi' = [pypi EXCEPT ![job[j].version].wheel = Wheel(job[j].lock)]
    /\ Step(j, "sdist")
    /\ UNCHANGED <<main, claimed, candidate>>

UploadSdist(j) ==
    /\ AtStep(j, "sdist")
    /\ pypi[job[j].version].sdist \in {None, job[j].lock}
    /\ pypi' = [pypi EXCEPT ![job[j].version].sdist = job[j].lock]
    /\ job' = [job EXCEPT ![j] =
          [@ EXCEPT !.phase = "published", !.lock = None, !.gate = NoJob.gate]]
    /\ UNCHANGED <<main, claimed, candidate>>

(* A refused check, a refused upload or a lost runner ends the job.  Its    *)
(* approved half may be repeated; repeating the first is another request.   *)
JobEnds(j) ==
    /\ job[j].phase \notin {"new", "published", "dead"}
    /\ job' = [job EXCEPT ![j] =
          IF @.approval = None THEN [NoJob EXCEPT !.phase = "dead"]
          ELSE [@ EXCEPT !.phase = "dead", !.lock = None, !.gate = NoJob.gate]]
    /\ Publishing

RetryJob(j) ==
    /\ AtStep(j, "dead") /\ ~job[j].lost /\ job[j].approval # None
    /\ Cardinality({k \in Jobs : job[k].lost}) < MaxLosses
    /\ job' = [job EXCEPT ![j] = [@ EXCEPT !.phase = "approval", !.lost = TRUE]]
    /\ Publishing

-----------------------------------------------------------------------------
People == MoveMain \/ \E v \in Versions : ClaimVersion(v)

Freeze(r) == Dispatch(r) \/ Preflight(r) \/ Build(r) \/ FreezeFails(r)
ExamplesWheel(r) == InstallExample(r) \/ RunExamples(r)
Cell(r, c) == Validate(r, c) \/ WriteEvidence(r, c) \/ CutShort(r, c) \/ CellFails(r, c)
Gate(r) == Aggregate(r) \/ AggregateFails(r) \/ RerunAll(r) \/ RerunFailed(r)
Candidate(r) ==
    Freeze(r) \/ ExamplesWheel(r) \/ Gate(r) \/ \E c \in Cells : Cell(r, c)

Publish(j) ==
    \/ \E r \in Runs, b \in 1..Len(builds) : Request(j, r, b)
    \/ DownloadLock(j) \/ DownloadGate(j) \/ Verify(j)
    \/ Approve(j) \/ UploadWheel(j) \/ UploadSdist(j) \/ JobEnds(j) \/ RetryJob(j)

Next == People \/ (\E r \in Runs : Candidate(r)) \/ (\E j \in Jobs : Publish(j))
Spec == Init /\ [][Next]_vars

-----------------------------------------------------------------------------
(***************************************************************************)
(* Whatever is on PyPI is, file for file, one build of a commit with that   *)
(* version, on whose very bytes every cell's suite passed - however often   *)
(* runs were repeated, and whichever evidence an earlier attempt left       *)
(* (publish.yml and verify_publish_candidate.py decide it).                 *)
(***************************************************************************)
Holds(v, b) == pypi[v].wheel = Wheel(b) /\ pypi[v].sdist \in {None, b}

PublishedIsTested ==
    \A v \in Versions : OnPyPI(v) =>
        \E b \in 1..Len(builds) :
            /\ Holds(v, b)
            /\ Version[builds[b].commit] = v
            /\ <<Examples, Wheel(b)>> \in tested
            /\ \A c \in Platforms : <<c, b>> \in tested

(***************************************************************************)
(* And it is what one person asked for by its hashes and the environment    *)
(* let through: not half of one request and half of another, although       *)
(* nothing keeps two publishing jobs for one version from running at once.  *)
(***************************************************************************)
UploadIsApproved ==
    \A v \in Versions : OnPyPI(v) =>
        \E j \in Jobs : job[j].version = v /\ Holds(v, job[j].bytes) /\ job[j].approval = job[j].bytes

=============================================================================

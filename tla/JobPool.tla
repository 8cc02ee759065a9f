------------------------------- MODULE JobPool -------------------------------
(***************************************************************************)
(* The daemon's asynchronous jobs: SUBMIT and JOBSTOP on their connection  *)
(* threads (handle_submit, handle_restart, jobpool::stop), the serial lane *)
(* of each repository, the bounded pool of worker threads, the execution   *)
(* of a job's script as child processes (jobrun), and the job's row in the *)
(* ledger.  One life of the daemon is modelled.                            *)
(*                                                                         *)
(* A job is one submission.  Its number is its row id, given by INSERT and *)
(* so in the order of insertion.  A restart inserts a row with a finished  *)
(* job's spec and submits it: to the pool it is one more submission.       *)
(*                                                                         *)
(* The pool's threads are interchangeable, so a thread is told by the job  *)
(* it runs: at most Workers jobs are in a stage of Active at a time.  The  *)
(* child of a job is a process of its own: it does its work (`landed`) and *)
(* then exits, and a stop may kill it before, between or after.            *)
(***************************************************************************)
EXTENDS Naturals, Sequences, FiniteSets

CONSTANTS Job, Repo,
          NoRepo,       (* RepoOf of a job submitted outside any repository *)
          RepoOf,       (* the spec's git_dir                               *)
          After,        (* the job whose number the submitter waits to see  *)
          NoJob,        (* After of a submitter that waits for nothing      *)
          Script,       (* the child commands of a job, in order            *)
          Stoppable,    (* the jobs somebody may try to stop                *)
          Workers,      (* threads of the pool                              *)
          FailingCalls, (* the ledger calls that may return an error        *)
          MaxDbErrors   (* bound on those errors (SQLITE_BUSY) in a run     *)

ASSUME PoolAssumption ==
    /\ NoRepo \notin Repo
    /\ NoJob \notin Job
    /\ RepoOf \in [Job -> Repo \cup {NoRepo}]
    /\ After \in [Job -> Job \cup {NoJob}]
    /\ Script \in [Job -> Seq({"add", "commit", "push", "exec"}) \ {<<>>}]
    /\ Stoppable \subseteq Job
    /\ Workers \in Nat \ {0}
    /\ FailingCalls \subseteq {"insert", "claim", "stop", "finalize"}
    /\ MaxDbErrors \in Nat

VARIABLES
    request,    (* the connection thread of the SUBMIT: how far it is       *)
    id,         (* the row id, 0 while there is no row                      *)
    lastId,     (* last_insert_rowid                                        *)
    row,        (* jobs.state                                               *)
    sha,        (* the jobs whose row has a sha_after                       *)
    running,    (* the repositories with RepoLane.running                   *)
    queue,      (* RepoLane.queue                                           *)
    chan,       (* the pool's channel                                       *)
    stage,      (* where the job is between submit and the end of run_job   *)
    step,       (* the commands of the script that were over with success   *)
    child,      (* the job's current child process                          *)
    landed,     (* the commands whose effect is in the repository           *)
    registry,   (* the jobs with a Cancel in REG                            *)
    cancelled,  (* the jobs with Cancel.flag                                *)
    slot,       (* the jobs with a pid in Cancel.child                      *)
    verdict,    (* the state run_job_inner decided on                       *)
    tries,      (* failed attempts at finalizing                            *)
    stopper,    (* the connection thread of the JOBSTOP: how far it is      *)
    dbErrors    (* ledger calls that failed so far                          *)

ledgerVars == <<id, lastId, row, sha>>
laneVars   == <<running, queue, chan>>
childVars  == <<step, child, landed>>
cancelVars == <<registry, cancelled, slot>>
endVars    == <<verdict, tries>>
vars == <<request, ledgerVars, laneVars, stage, childVars, cancelVars, endVars, stopper, dbErrors>>

Terminal == {"done", "failed", "stopped"}

(* In a thread of the pool, first to last. *)
Active == {"claiming", "ready", "cleared", "spawned", "waiting", "reaped",
           "judging", "settling", "unregister", "finalizing", "advancing"}

Stage == {"none", "queued", "dispatched", "over"} \cup Active

FinalizeAttempts == 5

Init ==
    /\ request = [j \in Job |-> "idle"]
    /\ id = [j \in Job |-> 0]
    /\ lastId = 0
    /\ row = [j \in Job |-> "none"]
    /\ sha = {}
    /\ running = {}
    /\ queue = [r \in Repo |-> <<>>]
    /\ chan = <<>>
    /\ stage = [j \in Job |-> "none"]
    /\ step = [j \in Job |-> 0]
    /\ child = [j \in Job |-> "none"]
    /\ landed = [j \in Job |-> 0]
    /\ registry = {}
    /\ cancelled = {}
    /\ slot = {}
    /\ verdict = [j \in Job |-> "none"]
    /\ tries = [j \in Job |-> 0]
    /\ stopper = [j \in Job |-> "idle"]
    /\ dbErrors = 0

(* A ledger call that comes back with an error. *)
DbFails(call) ==
    /\ call \in FailingCalls
    /\ dbErrors < MaxDbErrors
    /\ dbErrors' = dbErrors + 1

-----------------------------------------------------------------------------
(* Submission. *)


(* handle_submit, handle_restart: the row. *)
Insert(j) ==
    /\ request[j] = "idle"
    /\ After[j] # NoJob => request[After[j]] = "answered"
    /\ \/ /\ request' = [request EXCEPT ![j] = "inserted"]
          /\ lastId' = lastId + 1
          /\ id' = [id EXCEPT ![j] = lastId']
          /\ row' = [row EXCEPT ![j] = "queued"]
          /\ UNCHANGED dbErrors
       \/ /\ DbFails("insert")
          /\ request' = [request EXCEPT ![j] = "refused"]
          /\ UNCHANGED <<id, lastId, row>>
    /\ UNCHANGED <<sha, laneVars, stage, childVars, cancelVars, endVars, stopper>>

(* A lane that never waits: every job goes straight to the pool. *)
LaneAlwaysFree(r) == TRUE

LaneFree(r) == r \notin running

(* Newest first. *)
EnqueueFront(r, j) == <<j>> \o queue[r]

Enqueue(r, j) == Append(queue[r], j)

(* jobpool::submit and the reply.  The send happens after the lane lock is  *)
(* dropped; until then nobody else can see this job, so it is one step.     *)
Submit(j) ==
    LET r == RepoOf[j] IN
    /\ request[j] = "inserted"
    /\ request' = [request EXCEPT ![j] = "answered"]
    /\ \/ /\ r = NoRepo \/ LaneFree(r)
          /\ running' = running \cup ({r} \ {NoRepo})
          /\ chan' = Append(chan, j)
          /\ stage' = [stage EXCEPT ![j] = "dispatched"]
          /\ UNCHANGED queue
       \/ /\ r # NoRepo
          /\ ~LaneFree(r)
          /\ queue' = [queue EXCEPT ![r] = Enqueue(r, j)]
          /\ stage' = [stage EXCEPT ![j] = "queued"]
          /\ UNCHANGED <<running, chan>>
    /\ UNCHANGED <<ledgerVars, childVars, cancelVars, endVars, stopper, dbErrors>>

-----------------------------------------------------------------------------
(* JOBSTOP. *)

(* stop() keeps the registry locked while it cancels. *)
RegistryFree == \A j \in Job : stopper[j] # "cancelling"

(* A registered job: raise the flag.  Else: on to the ledger. *)
StopLookup(j) ==
    /\ j \in Stoppable
    /\ stopper[j] = "idle"
    /\ row[j] # "none"
    /\ RegistryFree
    /\ \/ /\ j \in registry
          /\ cancelled' = cancelled \cup {j}
          /\ stopper' = [stopper EXCEPT ![j] = "cancelling"]
       \/ /\ j \notin registry
          /\ stopper' = [stopper EXCEPT ![j] = "missed"]
          /\ UNCHANGED cancelled
    /\ UNCHANGED <<request, ledgerVars, laneVars, stage, childVars, registry, slot, endVars, dbErrors>>

(* Cancel::cancel, second half: SIGKILL to the pid in the slot, if any. *)
StopKill(j) ==
    /\ stopper[j] = "cancelling"
    /\ stopper' = [stopper EXCEPT ![j] = "accepted"]
    /\ child' = [child EXCEPT ![j] = IF j \in slot /\ @ = "running" THEN "killed" ELSE @]
    /\ UNCHANGED <<request, ledgerVars, laneVars, stage, step, landed, cancelVars, endVars, dbErrors>>

(* db::stop_if_queued. *)
StopQueued(j) ==
    /\ stopper[j] = "missed"
    /\ \/ /\ row[j] = "queued"
          /\ row' = [row EXCEPT ![j] = "stopped"]
          /\ stopper' = [stopper EXCEPT ![j] = "accepted"]
          /\ UNCHANGED dbErrors
       \/ /\ row[j] # "queued"
          /\ stopper' = [stopper EXCEPT ![j] = "refused"]
          /\ UNCHANGED <<row, dbErrors>>
       \/ /\ DbFails("stop")
          /\ stopper' = [stopper EXCEPT ![j] = "refused"]
          /\ UNCHANGED row
    /\ UNCHANGED <<request, id, lastId, sha, laneVars, stage, childVars, cancelVars, endVars>>

-----------------------------------------------------------------------------
(* A thread of the pool: run_job. *)

Move(j, from, to) ==
    /\ stage[j] = from
    /\ stage' = [stage EXCEPT ![j] = to]

(* Take the job off the channel and register its Cancel. *)
Start(j) ==
    /\ chan # <<>>
    /\ Head(chan) = j
    /\ Cardinality({k \in Job : stage[k] \in Active}) < Workers
    /\ RegistryFree
    /\ Move(j, "dispatched", "claiming")
    /\ chan' = Tail(chan)
    /\ registry' = registry \cup {j}
    /\ UNCHANGED <<request, ledgerVars, running, queue, childVars, cancelled, slot, endVars, stopper, dbErrors>>

(* UPDATE ... SET state='running' WHERE id=?1, without the AND. *)
ClaimableAlways(j) == TRUE

(* ... AND state='queued' *)
Claimable(j) == row[j] = "queued"

(* db::claim_running: the job is ours, or somebody stopped it first. *)
Claim(j) ==
    /\ Claimable(j)
    /\ Move(j, "claiming", "ready")
    /\ row' = [row EXCEPT ![j] = "running"]
    /\ UNCHANGED <<request, id, lastId, sha, laneVars, childVars, cancelVars, endVars, stopper, dbErrors>>

(* Not ours, or an error: both read as "bail without running it". *)
ClaimFails(j) ==
    /\ \/ ~Claimable(j) /\ UNCHANGED dbErrors
       \/ DbFails("claim")
    /\ RegistryFree
    /\ Move(j, "claiming", "advancing")
    /\ registry' = registry \ {j}
    /\ UNCHANGED <<request, ledgerVars, laneVars, childVars, cancelled, slot, endVars, stopper>>

(* The flag is checked before each command. *)
CheckFlag(j) ==
    /\ \/ j \notin cancelled /\ Move(j, "ready", "cleared")
       \/ j \in cancelled /\ Move(j, "ready", "settling")
    /\ UNCHANGED <<request, ledgerVars, laneVars, childVars, cancelVars, endVars, stopper, dbErrors>>

Spawn(j) ==
    /\ Move(j, "cleared", "spawned")
    /\ child' = [child EXCEPT ![j] = "running"]
    /\ UNCHANGED <<request, ledgerVars, laneVars, step, landed, cancelVars, endVars, stopper, dbErrors>>

SpawnFails(j) ==
    /\ Move(j, "cleared", "settling")
    /\ UNCHANGED <<request, ledgerVars, laneVars, childVars, cancelVars, endVars, stopper, dbErrors>>

SetChild(j) ==
    /\ Move(j, "spawned", "waiting")
    /\ slot' = slot \cup {j}
    /\ UNCHANGED <<request, ledgerVars, laneVars, childVars, registry, cancelled, endVars, stopper, dbErrors>>

Reap(j) ==
    /\ child[j] \in {"succeeded", "failed", "killed"}
    /\ Move(j, "waiting", "reaped")
    /\ UNCHANGED <<request, ledgerVars, laneVars, childVars, cancelVars, endVars, stopper, dbErrors>>

ClearChild(j) ==
    /\ Move(j, "reaped", "judging")
    /\ slot' = slot \ {j}
    /\ UNCHANGED <<request, ledgerVars, laneVars, childVars, registry, cancelled, endVars, stopper, dbErrors>>

(* The exit status alone decides. *)
SucceededByStatus(j) == child[j] = "succeeded"

(* Any exit that is not the kill of a stop. *)
SucceededUnlessKilled(j) == child[j] # "killed" /\ j \notin cancelled

(* out.status.success() && !cancel.cancelled() *)
Succeeded(j) == child[j] = "succeeded" /\ j \notin cancelled

MoreSteps(j) == step[j] + 1 < Len(Script[j])

(* One command is over: the next one, or the end of the script. *)
Judge(j) ==
    /\ \/ /\ Succeeded(j)
          /\ step' = [step EXCEPT ![j] = @ + 1]
          /\ Move(j, "judging", IF MoreSteps(j) THEN "ready" ELSE "settling")
       \/ /\ ~Succeeded(j)
          /\ Move(j, "judging", "settling")
          /\ UNCHANGED step
    /\ child' = [child EXCEPT ![j] = "none"]
    /\ UNCHANGED <<request, ledgerVars, laneVars, landed, cancelVars, endVars, stopper, dbErrors>>

(* `ok` wins over `cancelled`. *)
Settle(j) ==
    /\ Move(j, "settling", "unregister")
    /\ verdict' = [verdict EXCEPT ![j] =
            IF step[j] = Len(Script[j]) THEN "done"
            ELSE IF j \in cancelled THEN "stopped" ELSE "failed"]
    /\ UNCHANGED <<request, ledgerVars, laneVars, childVars, cancelVars, tries, stopper, dbErrors>>

Unregister(j) ==
    /\ RegistryFree
    /\ Move(j, "unregister", "finalizing")
    /\ registry' = registry \ {j}
    /\ UNCHANGED <<request, ledgerVars, laneVars, childVars, cancelled, slot, endVars, stopper, dbErrors>>

(* The script's commit step returned success: head_sha is asked for, and    *)
(* answers with a commit or not at all.                                     *)
CommitOk(j) == \E k \in 1 .. step[j] : Script[j][k] = "commit"

(* db::job_finished. *)
Finalize(j) ==
    /\ Move(j, "finalizing", "advancing")
    /\ row' = [row EXCEPT ![j] = verdict[j]]
    /\ sha' \in {sha} \cup {sha \cup {k} : k \in {i \in {j} : CommitOk(i)}}
    /\ UNCHANGED <<request, id, lastId, laneVars, childVars, cancelVars, endVars, stopper, dbErrors>>

(* One attempt, and no second. *)
GivesUpAtOnce(j) == TRUE

(* attempt == 4 *)
GivesUp(j) == tries[j] + 1 = FinalizeAttempts

FinalizeFails(j) ==
    /\ DbFails("finalize")
    /\ tries' = [tries EXCEPT ![j] = @ + 1]
    /\ Move(j, "finalizing", IF GivesUp(j) THEN "advancing" ELSE "finalizing")
    /\ UNCHANGED <<request, ledgerVars, laneVars, childVars, cancelVars, verdict, stopper>>

(* The lane forgets to move on when the job was stopped in its queue. *)
AdvancesUnlessBailed(j) == verdict[j] # "none"

(* run_job advances the lane on every way out of run_job_inner. *)
Advances(j) == TRUE

Advance(j) ==
    LET r == RepoOf[j] IN
    /\ stage[j] = "advancing"
    /\ \/ /\ r \in running
          /\ Advances(j)
          /\ queue[r] # <<>>
          /\ chan' = Append(chan, Head(queue[r]))
          /\ stage' = [stage EXCEPT ![j] = "over", ![Head(queue[r])] = "dispatched"]
          /\ queue' = [queue EXCEPT ![r] = Tail(@)]
          /\ UNCHANGED running
       \/ /\ r \in running
          /\ Advances(j)
          /\ queue[r] = <<>>
          /\ running' = running \ {r}
          /\ stage' = [stage EXCEPT ![j] = "over"]
          /\ UNCHANGED <<queue, chan>>
       \/ /\ r \notin running \/ ~Advances(j)
          /\ stage' = [stage EXCEPT ![j] = "over"]
          /\ UNCHANGED laneVars
    /\ UNCHANGED <<request, ledgerVars, childVars, cancelVars, endVars, stopper, dbErrors>>

-----------------------------------------------------------------------------
(* The child process: `git add`, `git commit`, `git push` or the command of *)
(* an exec job.  Its effect is in the repository before it exits.           *)

ChildLands(j) ==
    /\ child[j] = "running"
    /\ landed[j] = step[j]
    /\ landed' = [landed EXCEPT ![j] = @ + 1]
    /\ UNCHANGED <<request, ledgerVars, laneVars, stage, step, child, cancelVars, endVars, stopper, dbErrors>>

ChildExits(j) ==
    /\ child[j] = "running"
    /\ child' = [child EXCEPT ![j] = IF landed[j] > step[j] THEN "succeeded" ELSE "failed"]
    /\ UNCHANGED <<request, ledgerVars, laneVars, stage, step, landed, cancelVars, endVars, stopper, dbErrors>>

-----------------------------------------------------------------------------

RunJob(j) ==
    \/ Start(j) \/ Claim(j) \/ ClaimFails(j)
    \/ CheckFlag(j) \/ Spawn(j) \/ SpawnFails(j) \/ SetChild(j)
    \/ Reap(j) \/ ClearChild(j) \/ Judge(j)
    \/ Settle(j) \/ Unregister(j) \/ Finalize(j) \/ FinalizeFails(j) \/ Advance(j)

Stop(j) == StopLookup(j) \/ StopKill(j) \/ StopQueued(j)

Next == \E j \in Job :
    Insert(j) \/ Submit(j) \/ Stop(j) \/ RunJob(j) \/ ChildLands(j) \/ ChildExits(j)

Spec == Init /\ [][Next]_vars

(* The daemon's threads run, and a child ends by itself (its own waits, for *)
(* the lane or for a foreign lock, are bounded elsewhere).  Nobody has to   *)
(* submit or to stop anything.                                              *)
Fairness == \A j \in Job :
    /\ WF_vars(Submit(j))
    /\ WF_vars(StopKill(j) \/ StopQueued(j))
    /\ WF_vars(RunJob(j))
    /\ WF_vars(ChildExits(j))

FairSpec == Spec /\ Fairness

-----------------------------------------------------------------------------
(* Properties. *)

(* Every variable keeps the shape the code's types give it. *)
TypeOK ==
    /\ request \in [Job -> {"idle", "inserted", "answered", "refused"}]
    /\ id \in [Job -> Nat]
    /\ lastId \in Nat
    /\ row \in [Job -> {"none", "queued", "running"} \cup Terminal]
    /\ sha \in SUBSET Job
    /\ running \in SUBSET Repo
    /\ queue \in [Repo -> Seq(Job)]
    /\ chan \in Seq(Job)
    /\ stage \in [Job -> Stage]
    /\ step \in [Job -> Nat]
    /\ \A j \in Job : step[j] <= Len(Script[j])
    /\ child \in [Job -> {"none", "running", "succeeded", "failed", "killed"}]
    /\ landed \in [Job -> Nat]
    /\ registry \in SUBSET Job
    /\ cancelled \in SUBSET Job
    /\ slot \in SUBSET Job
    /\ verdict \in [Job -> {"none"} \cup Terminal]
    /\ tries \in [Job -> Nat]
    /\ stopper \in [Job -> {"idle", "missed", "cancelling", "accepted", "refused"}]
    /\ dbErrors \in Nat

(* The lane has let the job go to the pool and is not done with it. *)
InFlight(j) == stage[j] \in {"dispatched"} \cup Active

(* "A repo's jobs run strictly one-at-a-time" (jobpool.rs, RepoLane): two   *)
(* jobs of a repository are never with the pool together, however their     *)
(* submissions, stops and failures interleave.                              *)
OneAtATime ==
    \A j, k \in Job :
        InFlight(j) /\ InFlight(k) /\ RepoOf[j] = RepoOf[k] /\ RepoOf[j] # NoRepo => j = k

(* "the lane never wedges" (jobpool.rs, run_job): a lane marked as running  *)
(* has a job in flight that will advance it, and only a running lane has a  *)
(* backlog.                                                                 *)
LaneMoves ==
    \A r \in Repo :
        /\ r \in running <=> \E j \in Job : InFlight(j) /\ RepoOf[j] = r
        /\ queue[r] # <<>> => r \in running

(* "a client's `add` (job N) always finishes before its `commit` (job N+1)" *)
(* (jobpool.rs, RepoLane): who waited for the number of one job before      *)
(* submitting the next to the same repository sees them run in that order.  *)
SessionOrder ==
    \A j, k \in Job :
        After[k] = j /\ RepoOf[k] = RepoOf[j] /\ RepoOf[j] # NoRepo /\ stage[k] \in Active
            => stage[j] \in {"none", "over"}

(* A job stopped in its queue does not run: once its row says `stopped` and *)
(* no thread had claimed it, nothing of it is ever executed.  And a row     *)
(* that says `done` is a job all of whose commands are in the repository,   *)
(* and one that names a resulting commit is of a job that made one.         *)
RowTellsTruth ==
    \A j \in Job :
        /\ row[j] = "stopped" /\ verdict[j] = "none" => step[j] = 0 /\ child[j] = "none" /\ landed[j] = 0
        /\ row[j] = "done" => landed[j] = Len(Script[j])
        /\ j \in sha => \E k \in 1 .. landed[j] : Script[j][k] = "commit"

(* The life of a row (DESIGN.md, Job lifecycle): queued, running, an end;   *)
(* or queued, stopped.  An end is final: no late claim, stop or finalize    *)
(* changes it.                                                              *)
RowSteps ==
    {<<"none", "queued">>, <<"queued", "running">>, <<"queued", "stopped">>} \cup
    ({"running"} \X Terminal)

RowLifecycle ==
    [][\A j \in Job : row'[j] # row[j] => <<row[j], row'[j]>> \in RowSteps]_vars

(* "abort it between steps" (jobrun.rs, execute): once a stop was answered  *)
(* OK no command of the job counts as successful any more, so the script    *)
(* goes no further and the job does not end `done` because of it.           *)
StopEndsScript ==
    [][\A j \in Job : stopper[j] = "accepted" => step'[j] = step[j]]_vars

ClaimMetError(j) == row[j] = "queued" /\ stage[j] = "over" /\ dbErrors > 0

(* Every submitted job reaches a terminal row, also when its finalize hits  *)
(* a busy ledger now and then ("can't strand the row in `running` forever", *)
(* jobpool.rs, run_job_inner).  Only a job whose claim met an error stays   *)
(* queued when the pool is done with it.                                    *)
JobEnds == \A j \in Job : row[j] = "queued" ~> (row[j] \in Terminal \/ ClaimMetError(j))

(* "a job whose commit/push actually succeeded is `done`, even if a `zjob   *)
(* stop` raced in after the work completed" (jobpool.rs, run_job_inner).    *)
(* The code does not keep this: see StopEndsScript for what it does keep.   *)
LandedIsDone ==
    \A j \in Job : row[j] = "stopped" => landed[j] < Len(Script[j])

=============================================================================

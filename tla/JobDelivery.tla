---------------------------- MODULE JobDelivery ----------------------------
(***************************************************************************)
(* What becomes of a lock verb typed in one repository: run at once, made  *)
(* to wait, turned into a job, or run inline because there is no daemon to *)
(* take it (dispatch.rs: the gate and the second queueing; queue.rs).      *)
(*                                                                         *)
(* The same command may run in three processes, which are its workers: the *)
(* one that was typed, the child of the daemon's pool, and the child of an *)
(* inline run.  The latter two carry ZVCS_QUEUED: they take the lane with  *)
(* a blocking acquire and never queue again.  A child of the daemon's pool *)
(* outlives the daemon.                                                    *)
(*                                                                         *)
(* Lane and pool are taken at the level of LaneSpec and of one serial lane *)
(* (RepoLane, JobPool).  A command writes once, at the end: that it may    *)
(* have done part of its work before it meets a lock is left out.  A       *)
(* process may fail to connect to a living daemon; a connection once made  *)
(* lasts as long as the daemon (WriterExclusion has those that break).     *)
(***************************************************************************)
EXTENDS Naturals, Sequences, FiniteSets, Lines

CONSTANTS Command,   (* lock verbs that are run                             *)
          Before,    (* Before[c]: the commands the shell of c ran first    *)
          Child,     (* those another git process waits for                 *)
          Refused,   (* those whose row the ledger may refuse to insert     *)
          RowFails,  (* those whose row it may fail to bring up to date     *)
          CutOff,    (* those that may fail to connect to a living daemon     *)
          Unlucky,   (* those that may meet a foreign lock or a ref race    *)
          NoOne,     (* nobody                                              *)
          Crashes    (* how often the daemon may go down (bound)            *)

ASSUME DeliveryAssumption ==
    /\ Before \in [Command -> SUBSET Command]
    /\ Child \subseteq Command
    /\ Refused \subseteq Command
    /\ RowFails \subseteq Command
    /\ CutOff \subseteq Command
    /\ Unlucky \subseteq Command
    /\ Crashes \in Nat

Worker == Command \X {"typed", "job", "inline"}

Typed(c)  == <<c, "typed">>
Job(c)    == <<c, "job">>
Inline(c) == <<c, "inline">>

ASSUME NobodyAssumption == NoOne \notin Worker /\ NoOne \notin Command

VARIABLES
    pc,         (* the typed process                                        *)
    status,     (* its exit status: ok and queued are both 0                *)
    st,         (* each worker: its way through RepoLock::acquire           *)
    line,       (* the daemon's lane: holder first, waiters behind          *)
    file,       (* who has the lane file                                    *)
    up,         (* there is a daemon                                        *)
    crashes,    (* how often it went down                                   *)
    backlog,    (* the repository's jobs in the pool, not started           *)
    running,    (* its job that runs, or NoOne                              *)
    row,        (* the ledger row of a job or inline worker                 *)
    landed,     (* history: the workers whose effect landed, in order       *)
    unanswered, (* history: taken by a daemon that went before it answered  *)
    contended,  (* history: commands that met a foreign lock or a ref race  *)
    unrecorded  (* history: jobs whose claim or end the ledger did not take *)

cmdVars    == <<pc, status>>
laneVars   == <<line, file>>
daemonVars == <<up, crashes, backlog, running>>
histVars   == <<landed, unanswered, contended, unrecorded>>
vars == <<cmdVars, st, laneVars, daemonVars, row, histVars>>

Init ==
    /\ pc = [c \in Command |-> "begin"]
    /\ status = [c \in Command |-> "none"]
    /\ st = [w \in Worker |-> "none"]
    /\ line = <<>>
    /\ file = NoOne
    /\ up \in BOOLEAN
    /\ crashes = 0
    /\ backlog = <<>>
    /\ running = NoOne
    /\ row = [w \in Worker |-> "none"]
    /\ landed = <<>>
    /\ unanswered = {}
    /\ contended = {}
    /\ unrecorded = {}

Goto(c, from, to) ==
    /\ pc[c] = from
    /\ pc' = [pc EXCEPT ![c] = to]

Step(w, from, to) ==
    /\ st[w] = from
    /\ st' = [st EXCEPT ![w] = to]

(* A fresh command let past the jobs that wait. *)
PendingNever == FALSE

(* jobpool::repo_has_pending *)
Pending == running # NoOne \/ backlog # <<>>

Ready(c) == \A b \in Before[c] : pc[b] = "exit"

InLine(w) == \E i \in DOMAIN line : line[i] = w

(* A guard that is not given back. *)
LineKept(w) == line

(* Dropping the guard, or the process that has it *)
LineWithout(w) == Retain(line, w)
FileWithout(w) == IF file = w THEN NoOne ELSE file

-----------------------------------------------------------------------------
(* The gate in dispatch. *)

GateGranted(c) ==
    /\ Ready(c)
    /\ up
    /\ line = <<>>
    /\ ~Pending
    /\ Goto(c, "begin", "runs")
    /\ Step(Typed(c), "none", "in")
    /\ line' = <<Typed(c)>>
    /\ UNCHANGED <<status, file, daemonVars, row, histVars>>

(* BUSY: a child must not be queued (queueing_would_swallow_work), it takes *)
(* the lane by a blocking acquire; any other command becomes a job.         *)
WhenBusy(c) == IF c \in Child THEN "runs" ELSE "submit"

GateBusy(c) ==
    /\ Ready(c)
    /\ up
    /\ line # <<>> \/ Pending
    /\ Goto(c, "begin", WhenBusy(c))
    /\ st' = [st EXCEPT ![Typed(c)] = IF WhenBusy(c) = "runs" THEN "wants" ELSE @]
    /\ UNCHANGED <<status, laneVars, daemonVars, row, histVars>>

(* A connect that fails: there is no daemon, or it could not be reached.    *)
Unreached(c) == ~up \/ c \in CutOff

(* No daemon: try_acquire goes on to the lane file. *)
GateNoDaemon(c) ==
    /\ Ready(c)
    /\ Unreached(c)
    /\ Goto(c, "begin", "runs")
    /\ Step(Typed(c), "none", "file")
    /\ UNCHANGED <<status, laneVars, daemonVars, row, histVars>>

-----------------------------------------------------------------------------
(* RepoLock::acquire, for any worker. *)

(* An inline run is a child of the typed process, which may have the lane.  *)
AncestorIs(v, w) == w[2] = "inline" /\ v = Typed(w[1])

Ask(w) ==
    /\ up
    /\ line # <<>> => ~AncestorIs(Head(line), w)
    /\ Step(w, "wants", "line")
    /\ line' = Append(line, w)
    /\ UNCHANGED <<cmdVars, file, daemonVars, row, histVars>>

Granted(w) ==
    /\ line # <<>>
    /\ Head(line) = w
    /\ Step(w, "line", "in")
    /\ UNCHANGED <<cmdVars, laneVars, daemonVars, row, histVars>>

InsideAncestor(w) ==
    /\ \/ /\ up /\ line # <<>> /\ AncestorIs(Head(line), w)
          /\ Step(w, "wants", "in")
       \/ AncestorIs(file, w) /\ Step(w, "file", "in")
    /\ UNCHANGED <<cmdVars, laneVars, daemonVars, row, histVars>>

(* Connect error, or EOF while waiting. *)
NoLane(w) ==
    /\ \/ Unreached(w[1]) /\ Step(w, "wants", "file")
       \/ ~InLine(w) /\ Step(w, "line", "file")
    /\ UNCHANGED <<cmdVars, laneVars, daemonVars, row, histVars>>

FileGranted(w) ==
    /\ file = NoOne
    /\ Step(w, "file", "in")
    /\ file' = w
    /\ UNCHANGED <<cmdVars, line, daemonVars, row, histVars>>

(* The budget for the holder of the lane file is spent. *)
FileDenied(w) ==
    /\ file # NoOne
    /\ ~AncestorIs(file, w)
    /\ Step(w, "file", "denied")
    /\ UNCHANGED <<cmdVars, laneVars, daemonVars, row, histVars>>

(* The write succeeds; a worker that is done has given its guard back.      *)
Land(w) ==
    /\ Step(w, "in", "landed")
    /\ landed' = Append(landed, w)
    /\ line' = LineWithout(w)
    /\ file' = FileWithout(w)
    /\ UNCHANGED <<cmdVars, daemonVars, row, unanswered, contended, unrecorded>>

(* A guard kept by every process that met a foreign lock. *)
KeepsAlways(w) == TRUE

(* Somebody who is not zvcs has index.lock for longer than                  *)
(* wait_for_foreign_index_lock waits, or has moved the reference.           *)
(* A typed command keeps its guard until it has queued the work.            *)
Keeps(w) == w[2] = "typed"

Contend(w) ==
    /\ w[1] \in Unlucky
    /\ Step(w, "in", "contended")
    /\ line' = IF Keeps(w) THEN line ELSE LineWithout(w)
    /\ file' = IF Keeps(w) THEN file ELSE FileWithout(w)
    /\ contended' = contended \cup {w[1]}
    /\ UNCHANGED <<cmdVars, daemonVars, row, landed, unanswered, unrecorded>>

-----------------------------------------------------------------------------
(* The end of dispatch, and queue.rs. *)

Exit(c, from, how) ==
    /\ Goto(c, from, "exit")
    /\ status' = [status EXCEPT ![c] = how]
    /\ line' = LineWithout(Typed(c))
    /\ file' = FileWithout(Typed(c))

Ends(c) ==
    /\ \/ st[Typed(c)] = "landed" /\ Exit(c, "runs", "ok")
       \/ st[Typed(c)] = "denied" /\ Exit(c, "runs", "error")
    /\ UNCHANGED <<st, daemonVars, row, histVars>>

(* Lock contention after all: the command is queued, whoever waits for it. *)
Requeue(c) ==
    /\ st[Typed(c)] = "contended"
    /\ Goto(c, "runs", "submit")
    /\ UNCHANGED <<status, st, laneVars, daemonVars, row, histVars>>

(* try_submit: connect and write SUBMIT, or run inline. *)
Submit(c) ==
    /\ \/ up /\ Goto(c, "submit", "asked")
       \/ Unreached(c) /\ Goto(c, "submit", "inline")
    /\ UNCHANGED <<status, st, laneVars, daemonVars, row, histVars>>

Taken(c) == row[Job(c)] # "none"

(* handle_submit: the row, and the pool. *)
Take(c) ==
    /\ up
    /\ pc[c] = "asked"
    /\ ~Taken(c)
    /\ row' = [row EXCEPT ![Job(c)] = "queued"]
    /\ backlog' = Append(backlog, c)
    /\ UNCHANGED <<cmdVars, st, laneVars, up, crashes, running, histVars>>

(* JOB <id>: "queued job #id", exit 0. *)
Answer(c) ==
    /\ up
    /\ Taken(c)
    /\ Exit(c, "asked", "queued")
    /\ UNCHANGED <<st, daemonVars, row, histVars>>

(* An inline run for every submission without an immediate answer. *)
NoAnswerYet(c) ==
    /\ Goto(c, "asked", "inline")
    /\ UNCHANGED <<status, st, laneVars, daemonVars, row, histVars>>

(* ERR, or no answer any more: run it inline. *)
NoAnswer(c) ==
    /\ ~up \/ (c \in Refused /\ ~Taken(c))
    /\ Goto(c, "asked", "inline")
    /\ unanswered' = IF Taken(c) THEN unanswered \cup {c} ELSE unanswered
    /\ UNCHANGED <<status, st, laneVars, daemonVars, row, landed, contended, unrecorded>>

(* run_inline: a row if the ledger allows, then the child. *)
RunInline(c) ==
    /\ Goto(c, "inline", "inlining")
    /\ Step(Inline(c), "none", "wants")
    /\ \E r \in {"queued"} \cup (IF c \in Refused THEN {"none"} ELSE {}) :
         row' = [row EXCEPT ![Inline(c)] = r]
    /\ UNCHANGED <<status, laneVars, daemonVars, histVars>>

(* A job whose failure is taken for a success. *)
VerdictDone(w) == "done"

Verdict(w) == IF st[w] = "landed" THEN "done" ELSE "failed"

Over(w) == st[w] \in {"landed", "contended", "denied"}

(* queue.rs, finalize: the verdict on an inline run, or no row, or one that *)
(* stays unfinished (queued stands for running too: finalize passes both).  *)
InlineRows(c) ==
    IF row[Inline(c)] = "none" THEN {"none"}
    ELSE {Verdict(Inline(c))} \cup (IF c \in RowFails THEN {"queued"} ELSE {})

InlineEnds(c) ==
    /\ Over(Inline(c))
    /\ Exit(c, "inlining", IF st[Inline(c)] = "landed" THEN "ok" ELSE "error")
    /\ \E r \in InlineRows(c) : row' = [row EXCEPT ![Inline(c)] = r]
    /\ UNCHANGED <<st, daemonVars, histVars>>

-----------------------------------------------------------------------------
(* The daemon. *)

StartJob(c) ==
    /\ up
    /\ running = NoOne
    /\ backlog # <<>>
    /\ Head(backlog) = c
    /\ running' = c
    /\ backlog' = Tail(backlog)
    /\ row' = [row EXCEPT ![Job(c)] = "running"]
    /\ Step(Job(c), "none", "wants")
    /\ UNCHANGED <<cmdVars, laneVars, up, crashes, histVars>>

EndJob(c) ==
    /\ up
    /\ running = c
    /\ Over(Job(c))
    /\ running' = NoOne
    /\ row' = [row EXCEPT ![Job(c)] = Verdict(Job(c))]
    /\ UNCHANGED <<cmdVars, st, laneVars, up, crashes, backlog, histVars>>

(* The claim fails on the ledger: the job is dropped, its row stays, and    *)
(* the lane goes on to the next one.                                        *)
ClaimFails(c) ==
    /\ up
    /\ running = NoOne
    /\ backlog # <<>>
    /\ Head(backlog) = c
    /\ c \in RowFails
    /\ backlog' = Tail(backlog)
    /\ unrecorded' = unrecorded \cup {c}
    /\ UNCHANGED <<cmdVars, st, laneVars, up, crashes, running, row, landed, unanswered, contended>>

(* The ledger fails five times to take a job's end: its row stays.          *)
FinalizeFails(c) ==
    /\ up
    /\ running = c
    /\ Over(Job(c))
    /\ c \in RowFails
    /\ running' = NoOne
    /\ unrecorded' = unrecorded \cup {c}
    /\ UNCHANGED <<cmdVars, st, laneVars, up, crashes, backlog, row, landed, unanswered, contended>>

(* The daemon is gone with its lane and its pool; the rows stay. *)
Crash ==
    /\ up
    /\ crashes < Crashes
    /\ up' = FALSE
    /\ crashes' = crashes + 1
    /\ line' = <<>>
    /\ backlog' = <<>>
    /\ running' = NoOne
    /\ UNCHANGED <<cmdVars, st, file, row, histVars>>

(* Another daemon: nothing of the first is taken up. *)
Restart ==
    /\ ~up
    /\ crashes > 0
    /\ up' = TRUE
    /\ UNCHANGED <<cmdVars, st, laneVars, crashes, backlog, running, row, histVars>>

-----------------------------------------------------------------------------

Dispatch(c) ==
    \/ GateGranted(c) \/ GateBusy(c) \/ GateNoDaemon(c)
    \/ Ends(c) \/ Requeue(c) \/ Submit(c) \/ NoAnswer(c)
    \/ RunInline(c) \/ InlineEnds(c)

Locking(w) ==
    \/ Ask(w) \/ Granted(w) \/ InsideAncestor(w) \/ NoLane(w)
    \/ FileGranted(w) \/ FileDenied(w) \/ Land(w) \/ Contend(w)

Daemon(c) ==
    \/ Take(c) \/ Answer(c)
    \/ StartJob(c) \/ EndJob(c) \/ ClaimFails(c) \/ FinalizeFails(c)

Next ==
    \/ \E c \in Command : Dispatch(c) \/ Daemon(c)
    \/ \E w \in Worker : Locking(w)
    \/ Crash \/ Restart

Spec == Init /\ [][Next]_vars

(* Processes and the daemon run; whether the ledger fails is open.          *)
Fairness ==
    /\ \A c \in Command : WF_vars(Dispatch(c)) /\ WF_vars(Daemon(c))
    /\ \A w \in Worker : WF_vars(Locking(w))

FairSpec == Spec /\ Fairness

-----------------------------------------------------------------------------
(* Properties. *)

(* The types; and whoever is in a lane is still on its way through it.      *)
Row == {"none", "queued", "running", "done", "failed"}

TypeOK ==
    /\ pc \in [Command -> {"begin", "runs", "submit", "asked", "inline", "inlining", "exit"}]
    /\ status \in [Command -> {"none", "ok", "queued", "error"}]
    /\ st \in [Worker -> {"none", "wants", "line", "file", "in", "landed", "contended", "denied"}]
    /\ line \in Seq(Worker)
    /\ file \in Worker \cup {NoOne}
    /\ up \in BOOLEAN
    /\ crashes \in 0..Crashes
    /\ backlog \in Seq(Command)
    /\ running \in Command \cup {NoOne}
    /\ row \in [Worker -> Row]
    /\ landed \in Seq(Worker)
    /\ unanswered \subseteq Command
    /\ contended \subseteq Command
    /\ unrecorded \subseteq Command
    /\ \A w \in Worker : InLine(w) => st[w] \in {"line", "in", "contended"}
    /\ file # NoOne => st[file] \in {"in", "contended"}

Landings(c) == {i \in DOMAIN landed : landed[i][1] = c}

(* A command's work lands once, although it may be tried by the typed       *)
(* process, then a job, then an inline run: twice only if a daemon took the *)
(* job and went without an answer.                                          *)
LandsOnce == \A c \in Command : Cardinality(Landings(c)) > 1 => c \in unanswered

(* Exit status 0 is kept: the work has landed, or a daemon has it, or its   *)
(* row says how it ended.  Two things leave a queued job's row unfinished:  *)
(* the daemon went, or the ledger did not take the job's claim or its end   *)
(* while the daemon lived on.  A row left `queued` is one whose work has    *)
(* not landed; one left `running` says nothing.  To a git process that      *)
(* waits for its child exit 0 says that the work has landed                 *)
(* (dispatch.rs:1158): a busy lane never makes it a job, only a lock that   *)
(* is not zvcs's does.                                                      *)
InDaemon(c) == running = c \/ \E i \in DOMAIN backlog : backlog[i] = c

LeftBehind(c) ==
    /\ crashes > 0 \/ c \in unrecorded
    /\ \/ row[Job(c)] = "queued" /\ Landings(c) = {}
       \/ row[Job(c)] = "running"

SuccessIsKept ==
    \A c \in Command :
        /\ status[c] = "ok" => Landings(c) # {}
        /\ status[c] = "queued" => (c \in Child => c \in contended)
        /\ status[c] = "queued" =>
             \/ InDaemon(c)
             \/ row[Job(c)] = "done" /\ Landings(c) # {}
             \/ row[Job(c)] = "failed"
             \/ LeftBehind(c)

(* "a client's `add` (job N) always finishes before its `commit`"           *)
(* (jobpool.rs:30), and a TRYACQUIRE never jumps the queue                  *)
(* (zdaemon.rs:618): while the daemon lives, a command of a shell lands     *)
(* after those the shell ran before it, whichever of them became jobs.      *)
(* Three kinds of command go ahead of the jobs that wait, and are excepted: *)
(* one whose own job the ledger refuses, which runs inline, one that        *)
(* another git process waits for, which is not queued, and one that cannot  *)
(* connect to the daemon, which takes the lane file instead of the lane.    *)
Queueable(c) == c \notin Child \cup Refused \cup CutOff

ShellOrder ==
    crashes = 0 =>
        \A i, j \in DOMAIN landed :
            Queueable(landed[i][1]) /\ landed[j][1] \in Before[landed[i][1]] => j < i

(* Every command ends, and a queued one comes to its end in the ledger if   *)
(* the daemon lives and the ledger takes its claim and its end: nobody      *)
(* waits for somebody who waits for him, although a command may hold the    *)
(* lane while its own job waits for it.  A job the ledger fails keeps its   *)
(* row `queued` or `running` for good, and the jobs behind it go on.        *)
EveryCommandEnds ==
    \A c \in Command :
        /\ <>(pc[c] = "exit")
        /\ row[Job(c)] = "queued" ~>
             (row[Job(c)] \in {"done", "failed"} \/ crashes > 0 \/ c \in unrecorded)

=============================================================================

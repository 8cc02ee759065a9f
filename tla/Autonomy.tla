------------------------------ MODULE Autonomy ------------------------------
(***************************************************************************)
(* What the daemon does by itself to a submodule and to the repository it  *)
(* lies in: the watcher attaches a detached HEAD (attach.rs), forwards the *)
(* mainline to what was fetched (zsync.rs) and commits the submodule's     *)
(* commit in the parent (zbump.rs), once when it starts and each time a    *)
(* reference of the submodule moves (watch.rs), beside a user who edits,   *)
(* commits, fetches, runs `submodule update`, and runs `git zsync` of his  *)
(* own.                                                                    *)
(*                                                                         *)
(* Everything but attach takes the lane of the repository it writes.  The  *)
(* reference edits take any previous value, so what was read decides, and  *)
(* each read and each edit is a step.  A user's command is one step, taken *)
(* while the lane is free; he uses no other branch and no other worktree.  *)
(* Untracked files, which reconcile looks for, are left out.               *)
(***************************************************************************)
EXTENDS Naturals, FiniteSets

CONSTANTS Commits,     (* how many there will be in the submodule (bound)   *)
          Detaches,    (* how often `submodule update` is run (bound)       *)
          Faults       (* how many steps of the daemon may fail (bound)     *)

ASSUME AutonomyAssumption ==
    /\ Commits \in Nat /\ Commits >= 2
    /\ Detaches \in Nat
    /\ Faults \in Nat

Commit == 1..Commits

OnBranch == 0          (* HEAD is symbolic                                  *)
Mixed    == 0          (* a checkout that stopped half way                  *)
Process  == {"watcher", "zsync"}
NoOne    == "none"

VARIABLES
    past,       (* of each commit that exists: its ancestors and itself     *)
    branch,     (* the mainline's tip                                       *)
    head,       (* the commit HEAD is detached at, or OnBranch              *)
    origin,     (* the remote-tracking reference                            *)
    files,      (* the commit index and worktree are of                     *)
    edited,     (* a tracked file was changed                               *)
    lane,       (* who has the submodule's lane                             *)
    recorded,   (* the submodule's commit in the parent's HEAD              *)
    staged,     (* the same in the parent's index                           *)
    others,     (* the user has something else staged in the parent         *)
    leftover,   (* history: a bump that failed has left its commit staged   *)
    parentLane, (* who has the parent's lane                                *)
    pc,         (* each process: its next step                              *)
    saw,        (* what it has read                                         *)
    registered, (* the submodule is watched                                 *)
    event,      (* the watcher has an event to read                         *)
    missed,     (* history: since the last reaction began, one of its steps *)
                (*   failed, or another moved a reference that is not       *)
                (*   watched yet                                            *)
    detaches, faults

subVars    == <<past, branch, head, origin, files, edited>>
parentVars == <<recorded, staged, others, leftover, parentLane>>
news == <<registered, event, missed>>
vars == <<subVars, lane, parentVars, pc, saw, news, detaches, faults>>

Made == DOMAIN past

HeadCommit == IF head = OnBranch THEN branch ELSE head

(* merge_base(a, b) = a *)
Behind(a, b) == a \in past[b]

IsDirty == edited \/ files # HeadCommit

(* run reacts first, and has the submodule watched only then. *)
Init ==
    /\ past = [c \in {1, 2} |-> 1..c]
    /\ branch \in {1, 2}
    /\ head \in {OnBranch, 1, 2}
    /\ origin \in {1, 2}
    /\ files = HeadCommit
    /\ edited = FALSE
    /\ lane = NoOne
    /\ recorded = 1
    /\ staged = 1
    /\ others = FALSE
    /\ leftover = FALSE
    /\ parentLane = NoOne
    /\ pc = [p \in Process |-> IF p = "watcher" THEN "attach" ELSE "idle"]
    /\ saw = [p \in Process |-> [head |-> 1, branch |-> 1, target |-> 1]]
    /\ registered = FALSE
    /\ event = FALSE
    /\ missed = FALSE
    /\ detaches = 0
    /\ faults = 0

Goto(p, from, to) ==
    /\ pc[p] = from
    /\ pc' = [pc EXCEPT ![p] = to]

(* The step fails, and what is called next is `to`; nothing is tried again. *)
Fails(p, from, to) ==
    /\ faults < Faults
    /\ faults' = faults + 1
    /\ Goto(p, from, to)
    /\ missed' = (missed \/ p = "watcher")
    /\ UNCHANGED <<registered, event>>

(* A reference of the submodule moves. *)
Notify(by) ==
    /\ event' = (event \/ registered)
    /\ missed' = (missed \/ (by # "watcher" /\ ~registered))
    /\ UNCHANGED registered

NewCommit(on) ==
    /\ Cardinality(Made) < Commits
    /\ LET c == Cardinality(Made) + 1 IN
       past' = [d \in Made \cup {c} |-> IF d = c THEN past[on] \cup {c} ELSE past[d]]

Newest == Cardinality(Made) + 1

-----------------------------------------------------------------------------
(* The user. *)

Edit ==
    /\ ~edited
    /\ Cardinality(Made) < Commits
    /\ edited' = TRUE
    /\ UNCHANGED <<past, branch, head, origin, files, lane, parentVars, pc, saw, news, detaches, faults>>

UserCommit ==
    /\ lane = NoOne
    /\ edited
    /\ NewCommit(HeadCommit)
    /\ IF head = OnBranch
       THEN branch' = Newest /\ UNCHANGED head
       ELSE head' = Newest /\ UNCHANGED branch
    /\ files' = Newest
    /\ edited' = FALSE
    /\ Notify("user")
    /\ UNCHANGED <<origin, lane, parentVars, pc, saw, detaches, faults>>

(* git submodule update checks out what the parent's index has. *)
Detach ==
    /\ lane = NoOne
    /\ detaches < Detaches
    /\ ~IsDirty
    /\ head' = staged
    /\ files' = staged
    /\ Notify("user")
    /\ detaches' = detaches + 1
    /\ UNCHANGED <<past, branch, origin, edited, lane, parentVars, pc, saw, faults>>

(* git fetch: somebody else's commit arrives *)
UserFetch ==
    /\ NewCommit(origin)
    /\ origin' = Newest
    /\ Notify("user")
    /\ UNCHANGED <<branch, head, files, edited, lane, parentVars, pc, saw, detaches, faults>>

(* git add and git commit of other paths, in the parent *)
StageOther ==
    /\ parentLane = NoOne
    /\ ~others
    /\ others' = TRUE
    /\ UNCHANGED <<subVars, lane, recorded, staged, leftover, parentLane, pc, saw, news, detaches, faults>>

ParentCommit ==
    /\ parentLane = NoOne
    /\ others
    /\ others' = FALSE
    /\ recorded' = staged
    /\ leftover' = FALSE
    /\ UNCHANGED <<subVars, lane, staged, parentLane, pc, saw, news, detaches, faults>>

(* git checkout and reset repair what is Mixed, or of another commit. *)
Repair ==
    /\ lane = NoOne
    /\ files # HeadCommit
    /\ files' = HeadCommit
    /\ edited' = FALSE
    /\ UNCHANGED <<past, branch, head, origin, lane, parentVars, pc, saw, news, detaches, faults>>

ZsyncCommand ==
    /\ Goto("zsync", "idle", "reconcile")
    /\ UNCHANGED <<subVars, lane, parentVars, saw, news, detaches, faults>>

-----------------------------------------------------------------------------
(* ensure_attached *)

(* The attach that reconcile ends with, taken for the one before it. *)
AfterAttachForgets(p) == "reconcile"

(* react calls it without a lane, before reconcile; reconcile calls it at   *)
(* its end, and then gives the lane back.                                   *)
AfterAttach(p) == IF lane = p THEN "release" ELSE "reconcile"

React ==
    /\ event
    /\ event' = FALSE
    /\ missed' = FALSE
    /\ Goto("watcher", "idle", "attach")
    /\ UNCHANGED <<subVars, lane, parentVars, saw, registered, detaches, faults>>

(* build_targets and register, after the first reaction. *)
Register ==
    /\ pc["watcher"] = "idle"
    /\ ~registered
    /\ registered' = TRUE
    /\ UNCHANGED <<subVars, lane, parentVars, pc, saw, event, missed, detaches, faults>>

AttachReadHead(p) ==
    /\ IF head = OnBranch
       THEN Goto(p, "attach", AfterAttach(p)) /\ UNCHANGED saw
       ELSE Goto(p, "attach", "branch") /\ saw' = [saw EXCEPT ![p].head = head]
    /\ UNCHANGED <<subVars, lane, parentVars, news, detaches, faults>>

(* The branch follows HEAD only forward. *)
BranchFollows(p) == Behind(branch, saw[p].head)

AttachReadBranch(p) ==
    /\ saw' = [saw EXCEPT ![p].branch = branch]
    /\ Goto(p, "branch", IF branch = saw[p].head THEN "symbolic"
                         ELSE IF BranchFollows(p) THEN "update" ELSE AfterAttach(p))
    /\ UNCHANGED <<subVars, lane, parentVars, news, detaches, faults>>

UpdateBranch(p) ==
    /\ Goto(p, "update", "symbolic")
    /\ branch' = saw[p].head
    /\ saw' = [saw EXCEPT ![p].branch = saw[p].head]
    /\ Notify(p)
    /\ UNCHANGED <<past, head, origin, files, edited, lane, parentVars, detaches, faults>>

(* Neither a reference nor a reflog is written: no event. *)
AttachSymbolic(p) ==
    /\ Goto(p, "symbolic", AfterAttach(p))
    /\ head' = OnBranch
    /\ UNCHANGED <<past, branch, origin, files, edited, lane, parentVars, saw, news, detaches, faults>>

AttachFails(p) ==
    /\ \/ Fails(p, "update", AfterAttach(p))
       \/ Fails(p, "symbolic", AfterAttach(p))
    /\ UNCHANGED <<subVars, lane, parentVars, saw, detaches>>

-----------------------------------------------------------------------------
(* reconcile_repo and fast_forward_to *)

TakeLane(p) ==
    /\ lane = NoOne
    /\ lane' = p
    /\ Goto(p, "reconcile", "clean")
    /\ UNCHANGED <<subVars, parentVars, saw, news, detaches, faults>>

CheckClean(p) ==
    /\ Goto(p, "clean", IF IsDirty THEN "release" ELSE "fetch")
    /\ UNCHANGED <<subVars, lane, parentVars, saw, news, detaches, faults>>

(* The watcher never fetches; a command does, and finds something or not. *)
Fetch(p) ==
    /\ \/ UNCHANGED <<past, origin, news>>
       \/ p = "zsync" /\ NewCommit(origin) /\ origin' = Newest /\ Notify(p)
    /\ Goto(p, "fetch", "target")
    /\ UNCHANGED <<branch, head, files, edited, lane, parentVars, saw, detaches, faults>>

ReadTarget(p) ==
    /\ Goto(p, "target", "head")
    /\ saw' = [saw EXCEPT ![p].target = origin]
    /\ UNCHANGED <<subVars, lane, parentVars, news, detaches, faults>>

HeadBehind(p) == Behind(HeadCommit, saw[p].target)

ReadHead(p) ==
    /\ saw' = [saw EXCEPT ![p].head = HeadCommit]
    /\ Goto(p, "head", IF HeadCommit = saw[p].target THEN "attach"
                       ELSE IF HeadBehind(p) THEN "guard" ELSE "release")
    /\ UNCHANGED <<subVars, lane, parentVars, news, detaches, faults>>

(* The guard dropped because HEAD was looked at before. *)
BranchBehindAlways(p) == TRUE

BranchBehind(p) == Behind(branch, saw[p].target)

(* The references first. *)
RefsFirst(step) ==
    CASE step = "guard" -> "forward" [] step = "forward" -> "reattach"
      [] step = "reattach" -> "checkout" [] step = "checkout" -> "release"

(* Files first, then the branch, then HEAD. *)
Follows(step) ==
    CASE step = "guard" -> "checkout" [] step = "checkout" -> "forward"
      [] step = "forward" -> "reattach" [] step = "reattach" -> "release"

GuardBranch(p) ==
    /\ saw' = [saw EXCEPT ![p].branch = branch]
    /\ Goto(p, "guard", IF BranchBehind(p) THEN Follows("guard") ELSE "release")
    /\ UNCHANGED <<subVars, lane, parentVars, news, detaches, faults>>

(* An edit made since the check is overwritten where the target differs. *)
UpdateWorktree(p) ==
    /\ Goto(p, "checkout", Follows("checkout"))
    /\ files' = saw[p].target
    /\ edited' \in {FALSE, edited}
    /\ UNCHANGED <<past, branch, head, origin, lane, parentVars, saw, news, detaches, faults>>

ForwardBranch(p) ==
    /\ Goto(p, "forward", Follows("forward"))
    /\ branch' = saw[p].target
    /\ saw' = [saw EXCEPT ![p] = [head   |-> IF head = OnBranch THEN @.target ELSE @.head,
                                  branch |-> @.target, target |-> @.target]]
    /\ Notify(p)
    /\ UNCHANGED <<past, head, origin, files, edited, lane, parentVars, detaches, faults>>

Reattach(p) ==
    /\ Goto(p, "reattach", Follows("reattach"))
    /\ head' = OnBranch
    /\ UNCHANGED <<past, branch, origin, files, edited, lane, parentVars, saw, news, detaches, faults>>

ReconcileFails(p) ==
    /\ \/ Fails(p, "fetch", "release") /\ UNCHANGED <<files, edited>>
       \/ Fails(p, "forward", "release") /\ UNCHANGED <<files, edited>>
       \/ Fails(p, "reattach", "release") /\ UNCHANGED <<files, edited>>
       \/ Fails(p, "checkout", "release") /\ files' = Mixed /\ edited' \in {FALSE, edited}
    /\ UNCHANGED <<past, branch, head, origin, lane, parentVars, saw, detaches>>

(* A command is over; the watcher goes on to the bump. *)
Release(p) ==
    /\ lane' = NoOne
    /\ Goto(p, "release", IF p = "watcher" THEN "bump" ELSE "over")
    /\ UNCHANGED <<subVars, parentVars, saw, news, detaches, faults>>

-----------------------------------------------------------------------------
(* zbump_run, on the watcher *)

Bump ==
    /\ parentLane = NoOne
    /\ parentLane' = "watcher"
    /\ Goto("watcher", "bump", "ancestry")
    /\ UNCHANGED <<subVars, lane, recorded, staged, others, leftover, saw, news, detaches, faults>>

(* A bump to whatever is checked out. *)
FastForwardAlways == TRUE

(* The gate: the recorded commit must be an ancestor. *)
FastForward == Behind(recorded, HeadCommit)

BumpRead ==
    /\ saw' = [saw EXCEPT !["watcher"].head = HeadCommit]
    /\ Goto("watcher", "ancestry",
            IF HeadCommit # recorded /\ FastForward THEN "stage" ELSE "bumped")
    /\ UNCHANGED <<subVars, lane, parentVars, news, detaches, faults>>

(* The parent's lane given back once the index is written. *)
StageReleasing ==
    /\ Goto("watcher", "stage", "record")
    /\ staged' = saw["watcher"].head
    /\ parentLane' = NoOne
    /\ UNCHANGED <<subVars, lane, recorded, others, leftover, saw, news, detaches, faults>>

Stage ==
    /\ Goto("watcher", "stage", "record")
    /\ staged' = saw["watcher"].head
    /\ UNCHANGED <<subVars, lane, recorded, others, leftover, parentLane, saw, news, detaches, faults>>

(* The commit's tree is HEAD's with the bumped gitlinks, not the index: what *)
(* others the user has staged stay staged.                                   *)
Record ==
    /\ Goto("watcher", "record", "bumped")
    /\ recorded' = saw["watcher"].head
    /\ leftover' = FALSE
    /\ UNCHANGED <<subVars, lane, staged, others, parentLane, saw, news, detaches, faults>>

(* What is staged when the commit fails stays staged. *)
BumpFails ==
    /\ \/ Fails("watcher", "stage", "bumped") /\ UNCHANGED leftover
       \/ Fails("watcher", "record", "bumped") /\ leftover' = TRUE
    /\ UNCHANGED <<subVars, lane, recorded, staged, others, parentLane, saw, detaches>>

(* Whatever came while the watcher reacted is taken for its own doing. *)
BumpOverDrains ==
    /\ Goto("watcher", "bumped", "idle")
    /\ parentLane' = NoOne
    /\ event' = FALSE
    /\ UNCHANGED <<subVars, lane, recorded, staged, others, leftover, saw, registered, missed, detaches, faults>>

BumpOver ==
    /\ Goto("watcher", "bumped", "idle")
    /\ parentLane' = NoOne
    /\ UNCHANGED <<subVars, lane, recorded, staged, others, leftover, saw, news, detaches, faults>>

-----------------------------------------------------------------------------

User ==
    \/ Edit \/ UserCommit \/ Detach \/ UserFetch
    \/ StageOther \/ ParentCommit \/ Repair \/ ZsyncCommand

Reconcile(p) ==
    \/ AttachReadHead(p) \/ AttachReadBranch(p) \/ UpdateBranch(p)
    \/ AttachSymbolic(p) \/ AttachFails(p)
    \/ TakeLane(p) \/ CheckClean(p) \/ Fetch(p) \/ ReadTarget(p)
    \/ ReadHead(p) \/ GuardBranch(p) \/ UpdateWorktree(p)
    \/ ForwardBranch(p) \/ Reattach(p) \/ ReconcileFails(p) \/ Release(p)

Watcher ==
    \/ Register \/ React \/ Bump \/ BumpRead \/ Stage \/ Record \/ BumpFails \/ BumpOver

Next == User \/ Watcher \/ \E p \in Process : Reconcile(p)

Spec == Init /\ [][Next]_vars

(* The watcher's thread and a command that was started run; a user does     *)
(* what he likes.                                                           *)
Fairness ==
    /\ WF_vars(Watcher)
    /\ \A p \in Process : WF_vars(Reconcile(p))

FairSpec == Spec /\ Fairness

-----------------------------------------------------------------------------
(* Properties. *)

Label == {"idle", "attach", "branch", "update", "symbolic", "reconcile", "clean",
          "fetch", "target", "head", "guard", "checkout", "forward", "reattach",
          "release", "bump", "ancestry", "stage", "record", "bumped", "over"}

Locked == {"clean", "fetch", "target", "head", "guard", "checkout", "forward",
           "reattach", "release"}

Attaching == {"attach", "branch", "update", "symbolic"}

(* The types; and each lane is held from a process's check to its end, and  *)
(* by nobody who has come to his end or waits for it again.                 *)
TypeOK ==
    /\ DOMAIN past = 1..Cardinality(Made) /\ Made \subseteq Commit
    /\ past \in [Made -> SUBSET Commit]
    /\ branch \in Made
    /\ head \in Made \cup {OnBranch}
    /\ origin \in Made
    /\ files \in Made \cup {Mixed}
    /\ edited \in BOOLEAN
    /\ lane \in Process \cup {NoOne}
    /\ recorded \in Made /\ staged \in Made
    /\ others \in BOOLEAN /\ leftover \in BOOLEAN
    /\ parentLane \in {"watcher", NoOne}
    /\ pc \in [Process -> Label]
    /\ saw \in [Process -> [head : Made, branch : Made, target : Made]]
    /\ registered \in BOOLEAN /\ event \in BOOLEAN /\ missed \in BOOLEAN
    /\ detaches \in 0..Detaches /\ faults \in 0..Faults
    /\ \A p \in Process :
         /\ pc[p] \in Locked => lane = p
         /\ lane = p => pc[p] \in Locked \cup Attaching
    /\ parentLane = "watcher" <=> pc["watcher"] \in {"ancestry", "stage", "record", "bumped"}

Moves(p) == pc'[p] # pc[p]

(* HEAD or the branch is no longer what the process read. *)
Outdated(p) == branch # saw[p].branch \/ HeadCommit # saw[p].head

(* "moving the branch backward could drop commits" (attach.rs:77): whatever *)
(* reconciles and attaches interleave with a user, the mainline only moves  *)
(* to descendants of its tip, so no commit is dropped from it; except by a  *)
(* process that acts on a HEAD or a branch that has moved since it looked.  *)
BranchForward ==
    [][ \/ past[branch] \subseteq (past[branch])'
        \/ \E p \in Process : Moves(p) /\ Outdated(p) ]_vars

(* Attach "never moves the checked-out commit" (attach.rs:9), and reconcile *)
(* moves it only forward and only to the commit whose files it has just     *)
(* put there, so that a failure at any step leaves HEAD at a commit that    *)
(* the worktree has or is ahead of; with the same exception.                *)
HeadFollowsFiles ==
    [][\A p \in Process :
         (Moves(p) /\ HeadCommit' # HeadCommit) =>
            \/ Behind(HeadCommit, HeadCommit') /\ files = HeadCommit'
            \/ Outdated(p)]_vars

(* The submodule's commit in the parent never goes back, whoever commits,   *)
(* also when a bump that had staged it could not commit it.                 *)
PointerForward == [][past[recorded] \subseteq (past[recorded])']_vars

(* A bump stages the submodule's commit in the index that the user's own    *)
(* commits are made of (zbump.rs:191).  However the two interleave, his     *)
(* commit of other paths moves the submodule's pointer only where a bump    *)
(* has failed between its index and its commit and none has succeeded       *)
(* since: that is swept up, and nothing else is.                            *)
SweepsOnlyLeftovers == [][others /\ ~others' /\ recorded' # recorded => leftover]_vars

(* Once the user rests, HEAD is attached or attach has refused, and the     *)
(* parent records the submodule's commit or bump has refused, although      *)
(* references move while the watcher reacts.  Two things the watcher does   *)
(* not make good before the next event: a step of its own that failed, and  *)
(* a reference that somebody moved before the submodule was watched.        *)
Settled ==
    \/ missed
    \/ /\ head = OnBranch \/ ~Behind(branch, head)
       /\ recorded = HeadCommit \/ ~Behind(recorded, HeadCommit)

Settles == <>[]Settled

=============================================================================

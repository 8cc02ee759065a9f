--------------------------- MODULE AutonomyProofs ---------------------------
(***************************************************************************)
(* No reference goes back, and a user's commit sweeps up nothing but what  *)
(* a failed bump has left, for any number of commits, detachings and       *)
(* failures.                                                               *)
(***************************************************************************)
EXTENDS Autonomy, FiniteSetTheorems, TLAPS

(* TypeOK in parts. *)
PastOK ==
    /\ Made = 1..Cardinality(Made) /\ Made \subseteq Commit
    /\ past \in [Made -> SUBSET Commit]

ValuesOK ==
    /\ branch \in Made
    /\ head \in Made \cup {OnBranch}
    /\ origin \in Made
    /\ files \in Made \cup {Mixed}
    /\ edited \in BOOLEAN
    /\ recorded \in Made /\ staged \in Made
    /\ others \in BOOLEAN /\ leftover \in BOOLEAN
    /\ saw \in [Process -> [head : Made, branch : Made, target : Made]]
    /\ detaches \in 0..Detaches /\ faults \in 0..Faults

NewsOK == registered \in BOOLEAN /\ event \in BOOLEAN /\ missed \in BOOLEAN

ControlOK ==
    /\ pc \in [Process -> Label]
    /\ lane \in Process \cup {NoOne}
    /\ parentLane \in {"watcher", NoOne}
    /\ \A p \in Process :
         /\ pc[p] \in Locked => lane = p
         /\ lane = p => pc[p] \in Locked \cup Attaching
    /\ parentLane = "watcher" <=> pc["watcher"] \in {"ancestry", "stage", "record", "bumped"}

LEMMA TypeParts == TypeOK <=> PastOK /\ ValuesOK /\ NewsOK /\ ControlOK
BY DEF TypeOK, PastOK, ValuesOK, NewsOK, ControlOK, Made

(* Descent is an order. *)
Ordered ==
    \A b \in Made :
        /\ b \in past[b]
        /\ past[b] \subseteq Made
        /\ \A a \in past[b] : past[a] \subseteq past[b]

(* What a process has established of what it saw, and still relies on. *)
Sight(p) ==
    /\ pc[p] = "update" => Behind(saw[p].branch, saw[p].head)
    /\ pc[p] = "symbolic" => saw[p].branch = saw[p].head
    /\ pc[p] \in {"guard", "checkout", "forward", "reattach"} => Behind(saw[p].head, saw[p].target)
    /\ pc[p] \in {"checkout", "forward"} => Behind(saw[p].branch, saw[p].target)
    /\ pc[p] \in {"forward", "reattach"} => files = saw[p].target
    /\ pc[p] = "reattach" => saw[p].branch = saw[p].target

(* What is staged, by a bump that may have failed since or one in progress, *)
(* is a descendant of what is recorded.                                     *)
Pointer ==
    /\ Behind(recorded, staged)
    /\ pc["watcher"] \in {"stage", "record"} => Behind(recorded, saw["watcher"].head)
    /\ pc["watcher"] = "record" => staged = saw["watcher"].head

(* The parent's index and its HEAD have the same commit of the submodule,   *)
(* but for a bump in progress, or one that failed.                          *)
Explained == staged = recorded \/ leftover \/ pc["watcher"] = "record"

Inv ==
    /\ PastOK /\ ValuesOK /\ NewsOK /\ ControlOK
    /\ Ordered
    /\ \A p \in Process : Sight(p)
    /\ Pointer
    /\ Explained

(* Commits stay what they are. *)
Grows == \A c \in Made : c \in Made' /\ past'[c] = past[c]

-----------------------------------------------------------------------------
(* Commits. *)

LEMMA MadeIsFinite == PastOK => IsFiniteSet(Made) /\ Cardinality(Made) \in Nat
<1> SUFFICES ASSUME PastOK PROVE IsFiniteSet(Made) /\ Cardinality(Made) \in Nat
    OBVIOUS
<1>1. IsFiniteSet(Commit)
    BY FS_Interval, AutonomyAssumption DEF Commit
<1>2. IsFiniteSet(Made)
    BY <1>1, FS_Subset DEF PastOK
<1> QED BY <1>2, FS_CardinalityType

LEMMA NewCommitGrows ==
    ASSUME PastOK, Ordered, NEW on \in Made, NewCommit(on)
    PROVE  /\ PastOK' /\ Ordered' /\ Grows
           /\ Newest \in Made'
           /\ past'[Newest] = past[on] \cup {Newest}
<1> DEFINE n == Cardinality(Made)
<1>1. n \in Nat /\ IsFiniteSet(Made) /\ Made = 1..n
    BY MadeIsFinite DEF PastOK
<1>2. n < Commits /\ Newest = n + 1 /\ n + 1 \in Commit /\ n + 1 \notin Made
    BY <1>1, AutonomyAssumption DEF NewCommit, Newest, Commit
<1>3. past' = [d \in Made \cup {n + 1} |-> IF d = n + 1 THEN past[on] \cup {n + 1} ELSE past[d]]
    BY DEF NewCommit
<1>4. Made' = Made \cup {n + 1}
    BY <1>3 DEF Made
<1>5. Cardinality(Made') = n + 1
    BY <1>1, <1>2, <1>4, FS_AddElement
<1>6. \A d \in Made : past'[d] = past[d]
    BY <1>2, <1>3
<1>7. past'[n + 1] = past[on] \cup {n + 1}
    BY <1>3
<1> HIDE DEF n
<1>8. PastOK'
  <2>1. Made' = 1..Cardinality(Made') /\ Made' \subseteq Commit
      BY <1>1, <1>2, <1>4, <1>5 DEF PastOK
  <2>2. \A d \in Made' : past'[d] \in SUBSET Commit
      BY <1>2, <1>4, <1>6, <1>7 DEF PastOK
  <2>3. past' \in [Made' -> SUBSET Commit]
      BY <1>3, <1>4, <2>2
  <2> QED BY <2>1, <2>3 DEF PastOK
<1>9. Ordered'
  <2>1. \A b \in Made : past[b] \subseteq Made
      BY DEF Ordered
  <2>2. ASSUME NEW b \in Made'
        PROVE  /\ b \in past'[b]
               /\ past'[b] \subseteq Made'
               /\ \A a \in past'[b] : past'[a] \subseteq past'[b]
    <3>1. CASE b \in Made
        BY <1>4, <1>6, <2>1, <3>1 DEF Ordered
    <3>2. CASE b = n + 1
        BY <1>2, <1>4, <1>6, <1>7, <2>1, <3>2 DEF Ordered
    <3> QED BY <1>4, <3>1, <3>2
  <2> QED BY <2>2 DEF Ordered
<1> QED BY <1>2, <1>4, <1>6, <1>7, <1>8, <1>9 DEF Grows

(* Every step leaves the commits alone or makes one. *)
LEMMA History ==
    ASSUME PastOK, ValuesOK, Ordered, [Next]_vars
    PROVE  PastOK' /\ Ordered' /\ Grows
<1>1. CASE UNCHANGED past
    BY <1>1 DEF PastOK, Ordered, Grows, Made
<1>2. ASSUME NEW on \in Made, NewCommit(on) PROVE PastOK' /\ Ordered' /\ Grows
    BY <1>2, NewCommitGrows
<1>3. HeadCommit \in Made /\ origin \in Made
    BY AutonomyAssumption DEF ValuesOK, HeadCommit
<1>4. CASE UNCHANGED vars
    BY <1>1, <1>4 DEF vars, subVars
<1>5. CASE User
    BY <1>1, <1>2, <1>3, <1>5
    DEF User, Edit, UserCommit, Detach, UserFetch, StageOther, ParentCommit, Repair, ZsyncCommand,
        subVars
<1>6. CASE Watcher
    BY <1>1, <1>6
    DEF Watcher, Register, React, Bump, BumpRead, Stage, Record, BumpFails, BumpOver, subVars
<1>7. ASSUME NEW p \in Process, Reconcile(p) PROVE PastOK' /\ Ordered' /\ Grows
    BY <1>1, <1>2, <1>3, <1>7
    DEF Reconcile, AttachReadHead, AttachReadBranch, UpdateBranch, AttachSymbolic, AttachFails,
        TakeLane, CheckClean, Fetch, ReadTarget, ReadHead, GuardBranch, UpdateWorktree,
        ForwardBranch, Reattach, ReconcileFails, Release, subVars
<1> QED BY <1>4, <1>5, <1>6, <1>7 DEF Next

(* Behind is kept, and is transitive. *)
LEMMA BehindKept ==
    ASSUME PastOK, Grows, NEW a \in Made, NEW b \in Made
    PROVE  Behind(a, b) <=> a \in past'[b]
BY DEF Behind, Grows

LEMMA BehindMeans ==
    ASSUME Ordered, NEW a \in Made, NEW b \in Made
    PROVE  Behind(a, a) /\ (Behind(a, b) => past[a] \subseteq past[b])
BY DEF Behind, Ordered

-----------------------------------------------------------------------------
(* Types of values. *)

LEMMA Widen ==
    ASSUME NEW V, NEW W, V \subseteq W,
           NEW f \in [Process -> [head : V, branch : V, target : V]]
    PROVE  f \in [Process -> [head : W, branch : W, target : W]]
OBVIOUS

LEMMA SawWidens ==
    ASSUME NEW V, NEW W, V \subseteq W, NEW p \in Process,
           NEW f \in [Process -> [head : V, branch : V, target : V]],
           NEW g, NEW h \in W, NEW b \in W, NEW t \in W,
           g = [f EXCEPT ![p] = [head |-> h, branch |-> b, target |-> t]]
    PROVE  g \in [Process -> [head : W, branch : W, target : W]]
BY Widen

(* A process that sees a new value of one field. *)
LEMMA OneField ==
    ASSUME ValuesOK, NEW p \in Process, NEW c
    PROVE  /\ [saw[p] EXCEPT !.head = c] =
                 [head |-> c, branch |-> saw[p].branch, target |-> saw[p].target]
           /\ [saw[p] EXCEPT !.branch = c] =
                 [head |-> saw[p].head, branch |-> c, target |-> saw[p].target]
           /\ [saw[p] EXCEPT !.target = c] =
                 [head |-> saw[p].head, branch |-> saw[p].branch, target |-> c]
<1>1. saw[p] \in [head : Made, branch : Made, target : Made]
    BY DEF ValuesOK
<1> QED BY <1>1

(* One process sees something new. *)
SawOnly(p) ==
    \E h, b, t \in Made' : saw' = [saw EXCEPT ![p] = [head |-> h, branch |-> b, target |-> t]]

LEMMA SawKept ==
    ASSUME ValuesOK, Grows, UNCHANGED saw \/ \E p \in Process : SawOnly(p)
    PROVE  saw' \in [Process -> [head : Made', branch : Made', target : Made']]
<1>1. Made \subseteq Made' /\ saw \in [Process -> [head : Made, branch : Made, target : Made]]
    BY DEF Grows, ValuesOK
<1>2. CASE UNCHANGED saw
    BY <1>1, <1>2, Widen
<1>3. ASSUME NEW p \in Process, SawOnly(p) PROVE saw' \in [Process -> [head : Made', branch : Made', target : Made']]
  <2>1. PICK h \in Made', b \in Made', t \in Made' :
          saw' = [saw EXCEPT ![p] = [head |-> h, branch |-> b, target |-> t]]
      BY <1>3 DEF SawOnly
  <2> QED BY <1>1, <2>1, SawWidens
<1> QED BY <1>2, <1>3

(* What a process saw is commits. *)
LEMMA SawCommits ==
    ASSUME ValuesOK, NEW p \in Process
    PROVE  /\ saw[p].head \in Made /\ saw[p].branch \in Made /\ saw[p].target \in Made
           /\ saw[p] = [head |-> saw[p].head, branch |-> saw[p].branch, target |-> saw[p].target]
           /\ HeadCommit \in Made
<1>1. saw[p] \in [head : Made, branch : Made, target : Made]
    BY DEF ValuesOK
<1>2. HeadCommit \in Made
    BY DEF ValuesOK, HeadCommit
<1> QED BY <1>1, <1>2

(* Each step that reads puts one commit where it saw another. *)
LEMMA Reads ==
    ASSUME PastOK, ValuesOK, Grows, NEW p \in Process, Reconcile(p)
    PROVE  UNCHANGED saw \/ SawOnly(p)
<1>0. /\ saw[p].head \in Made /\ saw[p].branch \in Made /\ saw[p].target \in Made
      /\ saw[p] = [head |-> saw[p].head, branch |-> saw[p].branch, target |-> saw[p].target]
      /\ HeadCommit \in Made
    BY SawCommits
<1>1. branch \in Made /\ origin \in Made /\ (head # OnBranch => head \in Made)
      /\ saw \in [Process -> [head : Made, branch : Made, target : Made]]
    BY DEF ValuesOK
<1>2. \A c \in Made : c \in Made'
    BY DEF Grows
<1>3. ASSUME NEW h \in Made, NEW b \in Made, NEW t \in Made,
             saw' = [saw EXCEPT ![p] = [head |-> h, branch |-> b, target |-> t]]
      PROVE  SawOnly(p)
    BY <1>2, <1>3 DEF SawOnly
<1>fields. \A c : /\ [saw[p] EXCEPT !.head = c] = [head |-> c, branch |-> saw[p].branch, target |-> saw[p].target]
             /\ [saw[p] EXCEPT !.branch = c] = [head |-> saw[p].head, branch |-> c, target |-> saw[p].target]
             /\ [saw[p] EXCEPT !.target = c] = [head |-> saw[p].head, branch |-> saw[p].branch, target |-> c]
    BY OneField
<1>4. CASE UNCHANGED saw
    BY <1>4
<1>5. CASE AttachReadHead(p)
  <2>1. CASE head # OnBranch
    <3>1. saw' = [saw EXCEPT ![p] = [head |-> head, branch |-> saw[p].branch, target |-> saw[p].target]]
        BY <1>5, <1>fields, <2>1 DEF AttachReadHead
    <3> QED BY <1>0, <1>1, <1>3, <2>1, <3>1
  <2> QED BY <1>5, <2>1 DEF AttachReadHead
<1>6. CASE AttachReadBranch(p) \/ GuardBranch(p)
  <2>1. saw' = [saw EXCEPT ![p] = [head |-> saw[p].head, branch |-> branch, target |-> saw[p].target]]
      BY <1>6, <1>fields DEF AttachReadBranch, GuardBranch
  <2> QED BY <1>0, <1>1, <1>3, <2>1
<1>7. CASE UpdateBranch(p)
  <2>1. saw' = [saw EXCEPT ![p] = [head |-> saw[p].head, branch |-> saw[p].head, target |-> saw[p].target]]
      BY <1>7, <1>fields DEF UpdateBranch
  <2> QED BY <1>0, <1>3, <2>1
<1>8. CASE ReadTarget(p)
  <2>1. saw' = [saw EXCEPT ![p] = [head |-> saw[p].head, branch |-> saw[p].branch, target |-> origin]]
      BY <1>8, <1>fields DEF ReadTarget
  <2> QED BY <1>0, <1>1, <1>3, <2>1
<1>9. CASE ReadHead(p)
  <2>1. saw' = [saw EXCEPT ![p] = [head |-> HeadCommit, branch |-> saw[p].branch, target |-> saw[p].target]]
      BY <1>9, <1>fields DEF ReadHead
  <2> QED BY <1>0, <1>3, <2>1
<1>10. CASE ForwardBranch(p)
  <2>1. PICK h : h = IF head = OnBranch THEN saw[p].target ELSE saw[p].head
      OBVIOUS
  <2>2. h \in Made
      BY <1>0, <2>1
  <2>3. saw' = [saw EXCEPT ![p] = [head |-> h, branch |-> saw[p].target, target |-> saw[p].target]]
      BY <1>1, <1>10, <2>1 DEF ForwardBranch
  <2> QED BY <1>0, <1>3, <2>2, <2>3
<1> QED BY <1>4, <1>5, <1>6, <1>7, <1>8, <1>9, <1>10
    DEF Reconcile, AttachSymbolic, AttachFails, TakeLane, CheckClean, Fetch, UpdateWorktree,
        Reattach, ReconcileFails, Release

LEMMA ReadsSomething ==
    ASSUME PastOK, ValuesOK, Grows, Next
    PROVE  UNCHANGED saw \/ \E p \in Process : SawOnly(p)
<1>1. CASE User
    BY <1>1
    DEF User, Edit, UserCommit, Detach, UserFetch, StageOther, ParentCommit, Repair, ZsyncCommand
<1>2. CASE Watcher /\ ~BumpRead
    BY <1>2 DEF Watcher, Register, React, Bump, Stage, Record, BumpFails, BumpOver
<1>3. CASE BumpRead
  <2>1. /\ "watcher" \in Process
        /\ saw["watcher"].branch \in Made /\ saw["watcher"].target \in Made
        /\ HeadCommit \in Made
        /\ saw["watcher"] = [head |-> saw["watcher"].head, branch |-> saw["watcher"].branch,
                             target |-> saw["watcher"].target]
      BY SawCommits DEF Process
  <2>2. saw \in [Process -> [head : Made, branch : Made, target : Made]]
      BY DEF ValuesOK
  <2>3. saw' = [saw EXCEPT !["watcher"] = [head |-> HeadCommit, branch |-> saw["watcher"].branch,
                                           target |-> saw["watcher"].target]]
      BY <1>3, <2>1, OneField DEF BumpRead
  <2>4. \A c \in Made : c \in Made'
      BY DEF Grows
  <2> QED BY <2>1, <2>3, <2>4 DEF SawOnly
<1>4. ASSUME NEW p \in Process, Reconcile(p) PROVE UNCHANGED saw \/ SawOnly(p)
    BY <1>4, Reads
<1> QED BY <1>1, <1>2, <1>3, <1>4 DEF Next

LEMMA ValuesKept ==
    ASSUME PastOK, ValuesOK, Ordered, Next
    PROVE  ValuesOK'
<1>1. PastOK' /\ Grows /\ Made \subseteq Made'
    BY History DEF Grows
<1>2. saw' \in [Process -> [head : Made', branch : Made', target : Made']]
    BY <1>1, ReadsSomething, SawKept
<1>3. \A p \in Process : saw[p].head \in Made /\ saw[p].target \in Made
    BY SawCommits
<1>4. HeadCommit \in Made
    BY SawCommits DEF Process
<1>5. \A on \in Made : NewCommit(on) => Newest \in Made'
    BY NewCommitGrows
<1> DEFINE Rest ==
      /\ branch \in Made
      /\ head \in Made \cup {OnBranch}
      /\ origin \in Made
      /\ files \in Made \cup {Mixed}
      /\ edited \in BOOLEAN
      /\ recorded \in Made /\ staged \in Made
      /\ others \in BOOLEAN /\ leftover \in BOOLEAN
      /\ detaches \in 0..Detaches /\ faults \in 0..Faults
<1>6. Rest
    BY DEF ValuesOK
<1>7. ASSUME User PROVE Rest'
  <2>1. \A c \in Made : c \in Made'
      BY <1>1
  <2>2. CASE Edit \/ StageOther \/ ParentCommit \/ ZsyncCommand
      BY <1>1, <1>6, <2>2 DEF Edit, StageOther, ParentCommit, ZsyncCommand, subVars, parentVars
  <2>3. CASE UserCommit
    <3>1. Newest \in Made'
        BY <1>4, <1>5, <2>3 DEF UserCommit
    <3>2. branch' \in Made' /\ head' \in Made' \cup {OnBranch}
        BY <1>6, <2>1, <2>3, <3>1 DEF UserCommit
    <3> QED BY <1>1, <1>6, <2>3, <3>1, <3>2 DEF UserCommit, parentVars
  <2>4. CASE Detach
    <3>1. detaches + 1 \in 0..Detaches
        BY <1>6, <2>4, AutonomyAssumption DEF Detach
    <3> QED BY <1>1, <1>6, <2>4, <3>1 DEF Detach, parentVars
  <2>5. CASE UserFetch
    <3>1. origin' \in Made'
        BY <1>5, <1>6, <2>5 DEF UserFetch
    <3> QED BY <1>1, <1>6, <2>5, <3>1 DEF UserFetch, parentVars
  <2>6. CASE Repair
      BY <1>1, <1>4, <1>6, <2>6 DEF Repair, parentVars
  <2> QED BY <1>7, <2>2, <2>3, <2>4, <2>5, <2>6 DEF User
<1>8. ASSUME Watcher PROVE Rest'
  <2>1. saw["watcher"].head \in Made /\ saw["watcher"].head \in Made'
      BY <1>1, <1>3 DEF Process
  <2>2. faults < Faults => faults + 1 \in 0..Faults
      BY <1>6, AutonomyAssumption
  <2>3. CASE Register \/ React \/ Bump \/ BumpRead \/ BumpOver
      BY <1>1, <1>6, <2>3 DEF Register, React, Bump, BumpRead, BumpOver, subVars, parentVars
  <2>4. CASE Stage
      BY <1>1, <1>6, <2>1, <2>4 DEF Stage, subVars
  <2>5. CASE Record
      BY <1>1, <1>6, <2>1, <2>5 DEF Record, subVars
  <2>6. CASE BumpFails
      BY <1>1, <1>6, <2>2, <2>6 DEF BumpFails, Fails, subVars, parentVars
  <2> QED BY <1>8, <2>3, <2>4, <2>5, <2>6 DEF Watcher
<1>9. ASSUME NEW p \in Process, Reconcile(p) PROVE Rest'
  <2>1. /\ saw[p].head \in Made /\ saw[p].target \in Made
        /\ saw[p].head \in Made' /\ saw[p].target \in Made'
      BY <1>1, <1>3
  <2>2. faults < Faults => faults + 1 \in 0..Faults
      BY <1>6, AutonomyAssumption
  <2>3. CASE UNCHANGED <<subVars, recorded, staged, others, leftover, detaches>>
             /\ (UNCHANGED faults \/ (faults < Faults /\ faults' = faults + 1))
      BY <1>1, <1>6, <2>2, <2>3 DEF subVars
  <2>4. CASE AttachReadHead(p) \/ AttachReadBranch(p) \/ AttachFails(p) \/ TakeLane(p)
             \/ CheckClean(p) \/ ReadTarget(p) \/ ReadHead(p) \/ GuardBranch(p) \/ Release(p)
      BY <2>3, <2>4
      DEF AttachReadHead, AttachReadBranch, AttachFails, TakeLane, CheckClean, ReadTarget,
          ReadHead, GuardBranch, Release, Fails, parentVars
  <2>5. CASE UpdateBranch(p)
      BY <1>1, <1>6, <2>1, <2>5 DEF UpdateBranch, parentVars
  <2>6. CASE ForwardBranch(p)
      BY <1>1, <1>6, <2>1, <2>6 DEF ForwardBranch, parentVars
  <2>7. CASE AttachSymbolic(p) \/ Reattach(p)
      BY <1>1, <1>6, <2>7 DEF AttachSymbolic, Reattach, parentVars
  <2>8. CASE UpdateWorktree(p)
      BY <1>1, <1>6, <2>1, <2>8 DEF UpdateWorktree, parentVars
  <2>9. CASE ReconcileFails(p)
      BY <1>1, <1>6, <2>2, <2>9 DEF ReconcileFails, Fails, parentVars
  <2>10. CASE Fetch(p)
    <3>0. NewCommit(origin) => Newest \in Made'
        BY <1>5, <1>6
    <3>1. origin' = origin \/ (origin' = Newest /\ NewCommit(origin))
        BY <2>10 DEF Fetch
    <3>2. origin' \in Made'
        BY <1>1, <1>6, <3>0, <3>1
    <3> QED BY <1>1, <1>6, <2>10, <3>2 DEF Fetch, parentVars
  <2> QED BY <1>9, <2>4, <2>5, <2>6, <2>7, <2>8, <2>9, <2>10 DEF Reconcile
<1> QED BY <1>2, <1>7, <1>8, <1>9 DEF Next, ValuesOK

LEMMA NewsKept ==
    ASSUME NewsOK, Next
    PROVE  NewsOK'
<1>1. CASE UNCHANGED news
    BY <1>1 DEF NewsOK, news
<1>2. ASSUME NEW by, Notify(by) PROVE NewsOK'
    BY <1>2 DEF NewsOK, Notify
<1>3. ASSUME NEW p, NEW from, NEW to, Fails(p, from, to) PROVE NewsOK'
    BY <1>3 DEF NewsOK, Fails
<1>4. CASE User
    BY <1>1, <1>2, <1>4
    DEF User, Edit, UserCommit, Detach, UserFetch, StageOther, ParentCommit, Repair, ZsyncCommand
<1>5. CASE Watcher
  <2>1. CASE Register \/ React
      BY <2>1 DEF Register, React, NewsOK
  <2> QED BY <1>1, <1>3, <1>5, <2>1 DEF Watcher, Bump, BumpRead, Stage, Record, BumpFails, BumpOver
<1>6. ASSUME NEW p \in Process, Reconcile(p) PROVE NewsOK'
  <2>1. CASE Fetch(p)
      BY <1>1, <1>2, <2>1 DEF Fetch, news
  <2> QED BY <1>1, <1>2, <1>3, <1>6, <2>1
      DEF Reconcile, AttachReadHead, AttachReadBranch, UpdateBranch, AttachSymbolic, AttachFails,
          TakeLane, CheckClean, ReadTarget, ReadHead, GuardBranch, UpdateWorktree,
          ForwardBranch, Reattach, ReconcileFails, Release
<1> QED BY <1>4, <1>5, <1>6 DEF Next

-----------------------------------------------------------------------------
(* Locks. *)

Bumping == {"ancestry", "stage", "record", "bumped"}

(* A process's step to where it holds the same lanes. *)
LEMMA StepInside ==
    ASSUME ControlOK, NEW p \in Process, NEW from, NEW to \in Label, Goto(p, from, to),
           UNCHANGED <<lane, parentLane>>,
           from \in Locked \cup Attaching \/ lane # p,
           to \in Locked => lane = p,
           lane = p => to \in Locked \cup Attaching,
           from \in Bumping <=> to \in Bumping
    PROVE  ControlOK'
<1>1. pc \in [Process -> Label] /\ pc' = [pc EXCEPT ![p] = to] /\ pc[p] = from
    BY DEF ControlOK, Goto
<1>2. pc' \in [Process -> Label] /\ pc'[p] = to /\ \A q \in Process : q # p => pc'[q] = pc[q]
    BY <1>1
<1>3. "watcher" \in Process
    BY DEF Process
<1>4. \A q \in Process : /\ pc'[q] \in Locked => lane' = q
                         /\ lane' = q => pc'[q] \in Locked \cup Attaching
    BY <1>2 DEF ControlOK
<1>5. parentLane' = "watcher" <=> pc'["watcher"] \in Bumping
    BY <1>1, <1>2, <1>3 DEF ControlOK, Bumping
<1> QED BY <1>2, <1>4, <1>5 DEF ControlOK, Bumping

LEMMA ControlKept ==
    ASSUME ControlOK, Next
    PROVE  ControlOK'
<1>1. pc \in [Process -> Label]
    BY DEF ControlOK
<1>2. CASE User
  <2>1. CASE UNCHANGED <<pc, lane, parentLane>>
      BY <2>1 DEF ControlOK
  <2>2. CASE ZsyncCommand
    <3>1. /\ Goto("zsync", "idle", "reconcile") /\ UNCHANGED <<lane, parentLane>>
          /\ pc["zsync"] = "idle"
        BY <2>2 DEF ZsyncCommand, parentVars, Goto
    <3>2. lane # "zsync"
        BY <3>1 DEF ControlOK, Locked, Attaching, Process
    <3> QED BY <3>1, <3>2, StepInside DEF Locked, Attaching, Bumping, Label, Process
  <2> QED BY <1>2, <2>1, <2>2
      DEF User, Edit, UserCommit, Detach, UserFetch, StageOther, ParentCommit, Repair, parentVars
<1>3. CASE Watcher
  <2> DEFINE w == "watcher"
  <2>1. w \in Process
      BY DEF Process
  <2>0. CASE Register
      BY <2>0 DEF Register, parentVars, ControlOK
  <2>2. CASE React
    <3>1. Goto(w, "idle", "attach") /\ UNCHANGED <<lane, parentLane>> /\ pc[w] = "idle"
        BY <2>2 DEF React, parentVars, Goto
    <3>2. lane # w
        BY <2>1, <3>1 DEF ControlOK, Locked, Attaching
    <3> QED BY <2>1, <3>1, <3>2, StepInside DEF Locked, Attaching, Bumping, Label
  <2>3. CASE BumpRead
    <3>1. PICK to \in {"stage", "bumped"} : Goto(w, "ancestry", to)
        BY <2>3 DEF BumpRead
    <3>2. UNCHANGED <<lane, parentLane>> /\ pc[w] = "ancestry"
        BY <2>3, <3>1 DEF BumpRead, parentVars, Goto
    <3>3. lane # w
        BY <2>1, <3>2 DEF ControlOK, Locked, Attaching
    <3> QED BY <2>1, <3>1, <3>2, <3>3, StepInside DEF Locked, Attaching, Bumping, Label
  <2>4. CASE Stage
    <3>1. Goto(w, "stage", "record") /\ UNCHANGED <<lane, parentLane>> /\ pc[w] = "stage"
        BY <2>4 DEF Stage, Goto
    <3>2. lane # w
        BY <2>1, <3>1 DEF ControlOK, Locked, Attaching
    <3> QED BY <2>1, <3>1, <3>2, StepInside DEF Locked, Attaching, Bumping, Label
  <2>5. CASE Record \/ BumpFails
    <3>1. PICK from \in {"stage", "record"} : Goto(w, from, "bumped")
        BY <2>5 DEF Record, BumpFails, Fails
    <3>2. UNCHANGED <<lane, parentLane>> /\ pc[w] = from
        BY <2>5, <3>1 DEF Record, BumpFails, parentVars, Goto
    <3>3. lane # w
        BY <2>1, <3>2 DEF ControlOK, Locked, Attaching
    <3> QED BY <2>1, <3>1, <3>2, <3>3, StepInside DEF Locked, Attaching, Bumping, Label
  <2>6. CASE Bump \/ BumpOver
    <3>1. PICK to \in {"ancestry", "idle"} :
             /\ pc' = [pc EXCEPT ![w] = to]
             /\ pc[w] \in {"bump", "bumped"}
             /\ lane' = lane
             /\ parentLane' = IF to = "ancestry" THEN w ELSE NoOne
        BY <2>6 DEF Bump, BumpOver, Goto
    <3>2. lane # w
        BY <2>1, <3>1 DEF ControlOK, Locked, Attaching
    <3>3. pc' \in [Process -> Label]
        BY <1>1, <3>1 DEF Label
    <3>4. pc'[w] = to /\ \A q \in Process : q # w => pc'[q] = pc[q]
        BY <1>1, <2>1, <3>1
    <3>5. \A q \in Process : /\ pc'[q] \in Locked => lane' = q
                             /\ lane' = q => pc'[q] \in Locked \cup Attaching
        BY <3>1, <3>2, <3>4 DEF ControlOK, Locked
    <3>6. parentLane' = "watcher" <=> pc'["watcher"] \in {"ancestry", "stage", "record", "bumped"}
        BY <3>1, <3>4 DEF NoOne
    <3>7. lane' \in Process \cup {NoOne} /\ parentLane' \in {"watcher", NoOne}
        BY <3>1 DEF ControlOK
    <3> QED BY <3>3, <3>5, <3>6, <3>7 DEF ControlOK
  <2> QED BY <1>3, <2>0, <2>2, <2>3, <2>4, <2>5, <2>6 DEF Watcher
<1>4. ASSUME NEW p \in Process, Reconcile(p) PROVE ControlOK'
  <2>1. CASE \/ AttachReadHead(p) \/ AttachReadBranch(p) \/ UpdateBranch(p)
             \/ AttachSymbolic(p) \/ AttachFails(p)
    <3>1. PICK from \in Attaching, to \in Attaching \cup {AfterAttach(p)} : Goto(p, from, to)
        BY <2>1 DEF AttachReadHead, AttachReadBranch, UpdateBranch, AttachSymbolic, AttachFails,
                    Fails, Attaching
    <3>2. UNCHANGED <<lane, parentLane>>
        BY <2>1 DEF AttachReadHead, AttachReadBranch, UpdateBranch, AttachSymbolic, AttachFails,
                    parentVars
    <3>3. to \in Attaching \/ (to = "release" /\ lane = p) \/ (to = "reconcile" /\ lane # p)
        BY DEF AfterAttach
    <3>4. /\ to \in Label
          /\ to \in Locked => lane = p
          /\ lane = p => to \in Locked \cup Attaching
          /\ from \notin Bumping /\ to \notin Bumping
        BY <3>3 DEF Attaching, Locked, Label, Bumping
    <3> QED BY <3>1, <3>2, <3>4, StepInside
  <2>2. CASE \/ CheckClean(p) \/ Fetch(p) \/ ReadTarget(p) \/ ReadHead(p) \/ GuardBranch(p)
             \/ UpdateWorktree(p) \/ ForwardBranch(p) \/ Reattach(p) \/ ReconcileFails(p)
    <3>1. PICK from \in Locked, to \in Locked \cup {"attach"} : Goto(p, from, to)
        BY <2>2 DEF CheckClean, Fetch, ReadTarget, ReadHead, GuardBranch, UpdateWorktree,
                    ForwardBranch, Reattach, ReconcileFails, Fails, Follows, Locked
    <3>2. UNCHANGED <<lane, parentLane>>
        BY <2>2 DEF CheckClean, Fetch, ReadTarget, ReadHead, GuardBranch, UpdateWorktree,
                    ForwardBranch, Reattach, ReconcileFails, parentVars
    <3>3. lane = p
        BY <3>1 DEF Goto, ControlOK
    <3>4. to \in Label /\ to \in Locked \cup Attaching /\ from \notin Bumping /\ to \notin Bumping
        BY DEF Attaching, Locked, Label, Bumping
    <3> QED BY <3>1, <3>2, <3>3, <3>4, StepInside
  <2>3. CASE TakeLane(p) \/ Release(p)
    <3>1. PICK to \in {"clean", "bump", "over"} :
             /\ pc' = [pc EXCEPT ![p] = to]
             /\ pc[p] \in {"reconcile", "release"}
             /\ lane' = IF to = "clean" THEN p ELSE NoOne
             /\ lane \in {p, NoOne}
             /\ parentLane' = parentLane
        BY <2>3 DEF TakeLane, Release, Goto, parentVars, ControlOK, Locked
    <3>2. pc' \in [Process -> Label]
        BY <1>1, <3>1 DEF Label
    <3>3. pc'[p] = to /\ \A q \in Process : q # p => pc'[q] = pc[q]
        BY <1>1, <3>1
    <3>4. NoOne \notin Process
        BY DEF NoOne, Process
    <3>5. \A q \in Process : /\ pc'[q] \in Locked => lane' = q
                             /\ lane' = q => pc'[q] \in Locked \cup Attaching
      <4>1. ASSUME NEW q \in Process, q # p
            PROVE  pc'[q] \notin Locked /\ lane' # q
          BY <3>1, <3>3, <3>4, <4>1 DEF ControlOK
      <4>2. /\ pc'[p] \in Locked => lane' = p
            /\ lane' = p => pc'[p] \in Locked \cup Attaching
          BY <3>1, <3>3, <3>4 DEF Locked
      <4> QED BY <4>1, <4>2
    <3>6. parentLane' = "watcher" <=> pc'["watcher"] \in {"ancestry", "stage", "record", "bumped"}
        BY <3>1, <3>3 DEF ControlOK, Process
    <3>7. lane' \in Process \cup {NoOne} /\ parentLane' \in {"watcher", NoOne}
        BY <3>1 DEF ControlOK
    <3> QED BY <3>2, <3>5, <3>6, <3>7 DEF ControlOK
  <2> QED BY <1>4, <2>1, <2>2, <2>3 DEF Reconcile
<1> QED BY <1>2, <1>3, <1>4 DEF Next

-----------------------------------------------------------------------------
(* What a process saw still holds. *)

LEMMA Undisturbed ==
    ASSUME PastOK, ValuesOK, Grows, NEW q \in Process, Sight(q),
           pc'[q] = pc[q], saw'[q] = saw[q],
           pc[q] \in {"forward", "reattach"} => files' = files
    PROVE  Sight(q)'
<1>1. saw[q].head \in Made /\ saw[q].branch \in Made /\ saw[q].target \in Made
    BY SawCommits
<1>2. \A a, b \in Made : a \in past[b] <=> a \in past'[b]
    BY BehindKept DEF Behind
<1>3. /\ saw[q].branch \in past[saw[q].head] <=> saw[q].branch \in past'[saw[q].head]
      /\ saw[q].head \in past[saw[q].target] <=> saw[q].head \in past'[saw[q].target]
      /\ saw[q].branch \in past[saw[q].target] <=> saw[q].branch \in past'[saw[q].target]
    BY <1>1, <1>2
<1> QED BY <1>3 DEF Sight, Behind

(* A process's own step. *)
LEMMA OwnSight ==
    ASSUME PastOK, ValuesOK, ControlOK, Ordered, NEW p \in Process, Sight(p), Reconcile(p)
    PROVE  Sight(p)'
<1>0. /\ saw[p].head \in Made /\ saw[p].branch \in Made /\ saw[p].target \in Made
      /\ HeadCommit \in Made
    BY SawCommits
<1>1. /\ saw \in [Process -> [head : Made, branch : Made, target : Made]]
      /\ pc \in [Process -> Label]
    BY DEF ValuesOK, ControlOK
<1>2. \A from, to : Goto(p, from, to) => pc[p] = from /\ pc'[p] = to
    BY <1>1 DEF Goto
<1>3. CASE pc'[p] \notin {"update", "symbolic", "guard", "checkout", "forward", "reattach"}
    BY <1>3 DEF Sight
<1>4. CASE AttachReadBranch(p)
  <2>1. saw'[p].branch = branch /\ saw'[p].head = saw[p].head /\ past' = past
      BY <1>1, <1>4 DEF AttachReadBranch, subVars
  <2>2. /\ pc'[p] \in {"symbolic", "update", "release", "reconcile"}
        /\ pc'[p] = "symbolic" => branch = saw[p].head
        /\ pc'[p] = "update" => BranchFollows(p)
      BY <1>2, <1>4 DEF AttachReadBranch, AfterAttach
  <2> QED BY <2>1, <2>2 DEF Sight, BranchFollows, Behind
<1>5. CASE UpdateBranch(p)
  <2>1. saw'[p].branch = saw[p].head /\ saw'[p].head = saw[p].head
      BY <1>1, <1>5 DEF UpdateBranch
  <2>2. pc'[p] = "symbolic"
      BY <1>2, <1>5 DEF UpdateBranch
  <2> QED BY <2>1, <2>2 DEF Sight
<1>6. CASE ReadHead(p)
  <2>1. saw'[p].head = HeadCommit /\ saw'[p].target = saw[p].target /\ past' = past
      BY <1>1, <1>6 DEF ReadHead, subVars
  <2>2. /\ pc'[p] \in {"attach", "guard", "release"}
        /\ pc'[p] = "guard" => HeadBehind(p)
      BY <1>2, <1>6 DEF ReadHead
  <2> QED BY <2>1, <2>2 DEF Sight, HeadBehind, Behind
<1>7. CASE GuardBranch(p)
  <2>1. /\ saw'[p].branch = branch /\ saw'[p].head = saw[p].head
        /\ saw'[p].target = saw[p].target /\ past' = past
      BY <1>1, <1>7 DEF GuardBranch, subVars
  <2>2. /\ pc[p] = "guard" /\ pc'[p] \in {"checkout", "release"}
        /\ pc'[p] = "checkout" => BranchBehind(p)
      BY <1>2, <1>7 DEF GuardBranch, Follows
  <2> QED BY <2>1, <2>2 DEF Sight, BranchBehind, Behind
<1>8. CASE UpdateWorktree(p)
  <2>1. pc[p] = "checkout" /\ pc'[p] = "forward"
      BY <1>2, <1>8 DEF UpdateWorktree, Follows
  <2>2. saw' = saw /\ past' = past /\ files' = saw[p].target
      BY <1>8 DEF UpdateWorktree
  <2> QED BY <2>1, <2>2 DEF Sight, Behind
<1>9. CASE ForwardBranch(p)
  <2>1. pc[p] = "forward" /\ pc'[p] = "reattach"
      BY <1>2, <1>9 DEF ForwardBranch, Follows
  <2>2. /\ saw'[p].branch = saw[p].target /\ saw'[p].target = saw[p].target
        /\ saw'[p].head \in {saw[p].target, saw[p].head}
        /\ past' = past /\ files' = files
      BY <1>1, <1>9 DEF ForwardBranch
  <2>3. saw[p].target \in past[saw[p].target]
      BY <1>0 DEF Ordered
  <2> QED BY <2>1, <2>2, <2>3 DEF Sight, Behind
<1>10. CASE \/ AttachReadHead(p) \/ AttachSymbolic(p) \/ AttachFails(p) \/ TakeLane(p)
            \/ CheckClean(p) \/ Fetch(p) \/ ReadTarget(p) \/ Reattach(p)
            \/ ReconcileFails(p) \/ Release(p)
  <2>1. CASE AttachReadHead(p) \/ AttachSymbolic(p)
      BY <1>2, <1>3, <2>1 DEF AttachReadHead, AttachSymbolic, AfterAttach
  <2>2. CASE AttachFails(p)
    <3>1. Goto(p, "update", AfterAttach(p)) \/ Goto(p, "symbolic", AfterAttach(p))
        BY <2>2 DEF AttachFails, Fails
    <3> QED BY <1>2, <1>3, <3>1 DEF AfterAttach
  <2>3. CASE TakeLane(p) \/ CheckClean(p) \/ Fetch(p) \/ ReadTarget(p)
      BY <1>2, <1>3, <2>3 DEF TakeLane, CheckClean, Fetch, ReadTarget
  <2>4. CASE Reattach(p)
      BY <1>2, <1>3, <2>4 DEF Reattach, Follows
  <2>5. CASE ReconcileFails(p)
    <3>1. \E from : Goto(p, from, "release")
        BY <2>5 DEF ReconcileFails, Fails
    <3> QED BY <1>2, <1>3, <3>1
  <2>6. CASE Release(p)
      BY <1>2, <1>3, <2>6 DEF Release
  <2> QED BY <1>10, <2>1, <2>2, <2>3, <2>4, <2>5, <2>6
<1> QED BY <1>4, <1>5, <1>6, <1>7, <1>8, <1>9, <1>10 DEF Reconcile

LEMMA SightKept ==
    ASSUME Inv, Next, NEW q \in Process
    PROVE  Sight(q)'
<1>1. PastOK /\ ValuesOK /\ ControlOK /\ Ordered /\ Sight(q) /\ Grows
    BY History DEF Inv
<1>2. /\ saw \in [Process -> [head : Made, branch : Made, target : Made]]
      /\ pc \in [Process -> Label]
    BY <1>1 DEF ValuesOK, ControlOK
<1>3. pc[q] \in {"forward", "reattach"} => lane = q /\ lane # NoOne
    BY <1>1 DEF ControlOK, Locked, NoOne, Process
<1>4. CASE User
  <2>1. saw' = saw
      BY <1>4
      DEF User, Edit, UserCommit, Detach, UserFetch, StageOther, ParentCommit, Repair, ZsyncCommand
  <2>2. files' = files \/ lane = NoOne
      BY <1>4
      DEF User, Edit, UserCommit, Detach, UserFetch, StageOther, ParentCommit, Repair, ZsyncCommand,
          subVars
  <2>3. pc' = pc \/ Goto("zsync", "idle", "reconcile")
      BY <1>4
      DEF User, Edit, UserCommit, Detach, UserFetch, StageOther, ParentCommit, Repair, ZsyncCommand
  <2>4. pc'[q] = pc[q] \/ pc'[q] = "reconcile"
      BY <1>2, <2>3 DEF Goto
  <2>5. CASE pc'[q] = pc[q]
      BY <1>1, <1>3, <2>1, <2>2, <2>5, Undisturbed
  <2>6. CASE pc'[q] = "reconcile"
      BY <2>6 DEF Sight
  <2> QED BY <2>4, <2>5, <2>6
<1>5. CASE Watcher
  <2>0. CASE Register
    <3>1. UNCHANGED <<pc, saw, files>>
        BY <2>0 DEF Register, subVars
    <3> QED BY <1>1, <3>1, Undisturbed
  <2>1. ASSUME ~Register
        PROVE  /\ \E from, to : Goto("watcher", from, to)
                         /\ to \in {"attach", "ancestry", "stage", "record", "bumped", "idle"}
               /\ files' = files
               /\ saw' = saw \/ saw' = [saw EXCEPT !["watcher"].head = HeadCommit]
      BY <1>5, <2>1 DEF Watcher, React, Bump, BumpRead, Stage, Record, BumpFails, BumpOver, Fails, subVars
  <2>2. CASE q = "watcher" /\ ~Register
    <3>1. pc'[q] \in {"attach", "ancestry", "stage", "record", "bumped", "idle"}
        BY <1>2, <2>1, <2>2 DEF Goto
    <3> QED BY <3>1 DEF Sight
  <2>3. CASE q # "watcher" /\ ~Register
    <3>1. pc'[q] = pc[q]
        BY <1>2, <2>1, <2>3 DEF Goto
    <3>2. saw'[q] = saw[q]
        BY <1>2, <2>1, <2>3
    <3> QED BY <1>1, <2>1, <2>3, <3>1, <3>2, Undisturbed
  <2> QED BY <2>0, <2>2, <2>3
<1>6. ASSUME NEW p \in Process, Reconcile(p) PROVE Sight(q)'
  <2>1. CASE p = q
      BY <1>1, <1>6, <2>1, OwnSight
  <2>2. CASE p # q
    <3>1. PICK from, to : Goto(p, from, to)
        BY <1>6
        DEF Reconcile, AttachReadHead, AttachReadBranch, UpdateBranch, AttachSymbolic, AttachFails,
            TakeLane, CheckClean, Fetch, ReadTarget, ReadHead, GuardBranch, UpdateWorktree,
            ForwardBranch, Reattach, ReconcileFails, Release, Fails
    <3>2. pc'[q] = pc[q]
        BY <1>2, <2>2, <3>1 DEF Goto
    <3>3. saw'[q] = saw[q]
      <4>1. UNCHANGED saw \/ SawOnly(p)
          BY <1>1, <1>6, Reads
      <4> QED BY <1>2, <2>2, <4>1 DEF SawOnly
    <3>4. files' = files \/ pc[p] = "checkout"
        BY <1>6
        DEF Reconcile, AttachReadHead, AttachReadBranch, UpdateBranch, AttachSymbolic, AttachFails,
            TakeLane, CheckClean, Fetch, ReadTarget, ReadHead, GuardBranch, UpdateWorktree,
            ForwardBranch, Reattach, ReconcileFails, Release, Fails, Goto, subVars
    <3>5. pc[p] = "checkout" => lane = p
        BY <1>1 DEF ControlOK, Locked
    <3> QED BY <1>1, <1>3, <2>2, <3>2, <3>3, <3>4, <3>5, Undisturbed
  <2> QED BY <2>1, <2>2
<1> QED BY <1>4, <1>5, <1>6 DEF Next

-----------------------------------------------------------------------------
(* What the parent records. *)

LEMMA PointerKept ==
    ASSUME Inv, Next
    PROVE  Pointer'
<1> DEFINE w == "watcher"
<1>1. PastOK /\ ValuesOK /\ ControlOK /\ Ordered /\ Pointer /\ Grows
    BY History DEF Inv
<1>2. /\ saw \in [Process -> [head : Made, branch : Made, target : Made]]
      /\ pc \in [Process -> Label]
      /\ recorded \in Made /\ staged \in Made /\ saw[w].head \in Made
      /\ w \in Process
    BY <1>1, SawCommits DEF ValuesOK, ControlOK, Process
<1>3. \A a, b \in Made : a \in past[b] <=> a \in past'[b]
    BY <1>1, BehindKept DEF Behind
<1>4. \A a \in Made : a \in past[a]
    BY <1>1 DEF Ordered
<1> HIDE DEF w
<1>5. ASSUME UNCHANGED <<recorded, staged>>,
             pc'[w] \notin {"stage", "record"} \/ (pc'[w] = pc[w] /\ saw'[w] = saw[w])
      PROVE  Pointer'
  <2>1. recorded \in past'[staged]
      BY <1>1, <1>2, <1>3 DEF Pointer, Behind
  <2>2. recorded \in past[saw[w].head] => recorded \in past'[saw[w].head]
      BY <1>2, <1>3
  <2> QED BY <1>1, <1>5, <2>1, <2>2 DEF Pointer, Behind, w
<1>6. CASE User /\ ~ParentCommit
  <2>1. UNCHANGED <<recorded, staged, saw>> /\ (pc' = pc \/ Goto("zsync", "idle", "reconcile"))
      BY <1>6
      DEF User, Edit, UserCommit, Detach, UserFetch, StageOther, Repair, ZsyncCommand, parentVars
  <2>2. pc'[w] = pc[w]
      BY <1>2, <2>1 DEF Goto, w
  <2> QED BY <1>5, <2>1, <2>2
<1>7. CASE ParentCommit
  <2>1. pc[w] \notin {"stage", "record"}
      BY <1>1, <1>7 DEF ParentCommit, ControlOK, NoOne, w
  <2>2. recorded' = staged /\ staged' = staged /\ pc' = pc /\ past' = past
      BY <1>7 DEF ParentCommit, subVars
  <2> QED BY <1>2, <1>4, <2>1, <2>2 DEF Pointer, Behind, w
<1>8. CASE Watcher
  <2>0. CASE Register
      BY <1>5, <2>0 DEF Register, parentVars
  <2>1. CASE React \/ Bump \/ BumpOver \/ BumpFails
    <3>1. UNCHANGED <<recorded, staged>>
        BY <2>1 DEF React, Bump, BumpOver, BumpFails, parentVars
    <3>2. \E from, to : Goto(w, from, to) /\ to \notin {"stage", "record"}
        BY <2>1 DEF React, Bump, BumpOver, BumpFails, Fails, w
    <3>3. pc'[w] \notin {"stage", "record"}
        BY <1>2, <3>2 DEF Goto
    <3> QED BY <1>5, <3>1, <3>3
  <2>2. CASE BumpRead
    <3>1. saw'[w].head = HeadCommit /\ UNCHANGED <<recorded, staged, past>>
        BY <1>2, <2>2 DEF BumpRead, subVars, parentVars, w
    <3>2. pc'[w] \in {"stage", "bumped"} /\ (pc'[w] = "stage" => FastForward)
        BY <1>2, <2>2 DEF BumpRead, Goto, w
    <3> QED BY <1>1, <3>1, <3>2 DEF Pointer, FastForward, Behind, w
  <2>3. CASE Stage
    <3>1. pc[w] = "stage" /\ pc'[w] = "record"
        BY <1>2, <2>3 DEF Stage, Goto, w
    <3>2. staged' = saw[w].head /\ UNCHANGED <<recorded, saw, past>>
        BY <2>3 DEF Stage, subVars, w
    <3> QED BY <1>1, <3>1, <3>2 DEF Pointer, Behind, w
  <2>4. CASE Record
    <3>1. pc[w] = "record" /\ pc'[w] = "bumped"
        BY <1>2, <2>4 DEF Record, Goto, w
    <3>2. recorded' = saw[w].head /\ UNCHANGED <<staged, past>>
        BY <2>4 DEF Record, subVars, w
    <3>3. staged = saw[w].head
        BY <1>1, <3>1 DEF Pointer, w
    <3> QED BY <1>2, <1>4, <3>1, <3>2, <3>3 DEF Pointer, Behind, w
  <2> QED BY <1>8, <2>0, <2>1, <2>2, <2>3, <2>4 DEF Watcher
<1>9. ASSUME NEW p \in Process, Reconcile(p) PROVE Pointer'
  <2>1. UNCHANGED <<recorded, staged>>
      BY <1>9
      DEF Reconcile, AttachReadHead, AttachReadBranch, UpdateBranch, AttachSymbolic, AttachFails,
          TakeLane, CheckClean, Fetch, ReadTarget, ReadHead, GuardBranch, UpdateWorktree,
          ForwardBranch, Reattach, ReconcileFails, Release, parentVars
  <2>2. \A from, to : Goto(p, from, to) => pc'[p] = to /\ \A q \in Process : q # p => pc'[q] = pc[q]
      BY <1>2 DEF Goto
  <2>3. pc'[p] \notin {"stage", "record"}
    <3>1. AfterAttach(p) \notin {"stage", "record"}
        BY DEF AfterAttach
    <3>2. CASE AttachReadHead(p) \/ AttachReadBranch(p) \/ UpdateBranch(p) \/ AttachSymbolic(p)
        BY <2>2, <3>1, <3>2 DEF AttachReadHead, AttachReadBranch, UpdateBranch, AttachSymbolic
    <3>3. CASE AttachFails(p)
      <4>1. Goto(p, "update", AfterAttach(p)) \/ Goto(p, "symbolic", AfterAttach(p))
          BY <3>3 DEF AttachFails, Fails
      <4> QED BY <2>2, <3>1, <4>1
    <3>4. CASE ReconcileFails(p)
      <4>1. \E from : Goto(p, from, "release")
          BY <3>4 DEF ReconcileFails, Fails
      <4> QED BY <2>2, <4>1
    <3>5. CASE TakeLane(p) \/ CheckClean(p) \/ Fetch(p) \/ ReadTarget(p)
        BY <2>2, <3>5 DEF TakeLane, CheckClean, Fetch, ReadTarget
    <3>6. CASE ReadHead(p)
        BY <2>2, <3>6 DEF ReadHead
    <3>7. CASE Release(p)
        BY <2>2, <3>7 DEF Release
    <3>8. CASE GuardBranch(p)
      <4>1. Goto(p, "guard", "checkout") \/ Goto(p, "guard", "release")
          BY <3>8 DEF GuardBranch, Follows
      <4> QED BY <2>2, <4>1
    <3>9. CASE UpdateWorktree(p) \/ ForwardBranch(p) \/ Reattach(p)
      <4>1. /\ Follows("checkout") = "forward" /\ Follows("forward") = "reattach"
            /\ Follows("reattach") = "release"
          BY DEF Follows
      <4> QED BY <2>2, <3>9, <4>1 DEF UpdateWorktree, ForwardBranch, Reattach
    <3> QED BY <1>9, <3>2, <3>3, <3>4, <3>5, <3>6, <3>7, <3>8, <3>9 DEF Reconcile
  <2>4. CASE p # w
    <3>0. \E from, to : Goto(p, from, to)
        BY <1>9
        DEF Reconcile, AttachReadHead, AttachReadBranch, UpdateBranch, AttachSymbolic, AttachFails,
            TakeLane, CheckClean, Fetch, ReadTarget, ReadHead, GuardBranch, UpdateWorktree,
            ForwardBranch, Reattach, ReconcileFails, Release, Fails
    <3>1. pc'[w] = pc[w]
        BY <1>2, <2>2, <2>4, <3>0
    <3>2. UNCHANGED saw \/ SawOnly(p)
        BY <1>1, <1>9, Reads
    <3>3. saw'[w] = saw[w]
        BY <1>2, <2>4, <3>2 DEF SawOnly
    <3> QED BY <1>5, <2>1, <3>1, <3>3
  <2>5. CASE p = w
      BY <1>5, <2>1, <2>3, <2>5
  <2> QED BY <2>4, <2>5
<1> QED BY <1>6, <1>7, <1>8, <1>9 DEF Next

LEMMA ExplainedKept ==
    ASSUME Inv, Next
    PROVE  Explained'
<1> DEFINE w == "watcher"
<1>1. /\ pc \in [Process -> Label] /\ Pointer /\ Explained /\ w \in Process
    BY DEF Inv, ControlOK, Process
<1> HIDE DEF w
<1>2. \A p \in Process : \A from, to : Goto(p, from, to) =>
          /\ pc[p] = from /\ pc'[p] = to
          /\ \A q \in Process : q # p => pc'[q] = pc[q]
    BY <1>1 DEF Goto
<1>3. ASSUME UNCHANGED <<recorded, staged, leftover>>, pc[w] = "record" => pc'[w] = "record"
      PROVE  Explained'
    BY <1>1, <1>3 DEF Explained, w
<1>4. CASE User /\ ~ParentCommit
  <2>1. UNCHANGED <<recorded, staged, leftover>> /\ (pc' = pc \/ Goto("zsync", "idle", "reconcile"))
      BY <1>4
      DEF User, Edit, UserCommit, Detach, UserFetch, StageOther, Repair, ZsyncCommand, parentVars
  <2>2. pc'[w] = pc[w]
      BY <1>1, <2>1 DEF Goto, w
  <2> QED BY <1>3, <2>1, <2>2
<1>5. CASE ParentCommit
    BY <1>5 DEF ParentCommit, Explained
<1>6. CASE Watcher
  <2>1. CASE Register
      BY <1>3, <2>1 DEF Register, parentVars
  <2>2. CASE React \/ Bump \/ BumpRead \/ BumpOver
    <3>1. UNCHANGED <<recorded, staged, leftover>>
        BY <2>2 DEF React, Bump, BumpRead, BumpOver, parentVars
    <3>2. \E from, to : Goto(w, from, to) /\ from # "record"
        BY <2>2 DEF React, Bump, BumpRead, BumpOver, w
    <3> QED BY <1>1, <1>2, <1>3, <3>1, <3>2
  <2>3. CASE Stage
      BY <1>1, <1>2, <2>3 DEF Stage, Explained, w
  <2>4. CASE Record
    <3>1. pc[w] = "record" /\ recorded' = saw[w].head /\ staged' = staged
        BY <1>1, <1>2, <2>4 DEF Record, w
    <3> QED BY <1>1, <3>1 DEF Pointer, Explained, w
  <2>5. CASE BumpFails
    <3>1. UNCHANGED <<recorded, staged>>
        BY <2>5 DEF BumpFails
    <3>2. leftover' \/ (leftover' = leftover /\ Goto(w, "stage", "bumped"))
        BY <2>5 DEF BumpFails, Fails, w
    <3>3. CASE leftover'
        BY <3>3 DEF Explained
    <3>4. CASE leftover' = leftover /\ Goto(w, "stage", "bumped")
        BY <1>1, <1>2, <1>3, <3>1, <3>4
    <3> QED BY <3>2, <3>3, <3>4
  <2> QED BY <1>6, <2>1, <2>2, <2>3, <2>4, <2>5 DEF Watcher
<1>7. ASSUME NEW p \in Process, Reconcile(p) PROVE Explained'
  <2>1. UNCHANGED <<recorded, staged, leftover>>
      BY <1>7
      DEF Reconcile, AttachReadHead, AttachReadBranch, UpdateBranch, AttachSymbolic, AttachFails,
          TakeLane, CheckClean, Fetch, ReadTarget, ReadHead, GuardBranch, UpdateWorktree,
          ForwardBranch, Reattach, ReconcileFails, Release, parentVars
  <2>2. \E from, to : Goto(p, from, to) /\ from # "record"
    <3>1. CASE AttachReadHead(p) \/ AttachReadBranch(p)
        BY <3>1 DEF AttachReadHead, AttachReadBranch
    <3>2. CASE UpdateBranch(p) \/ AttachSymbolic(p) \/ TakeLane(p) \/ CheckClean(p)
        BY <3>2 DEF UpdateBranch, AttachSymbolic, TakeLane, CheckClean
    <3>3. CASE AttachFails(p)
        BY <3>3 DEF AttachFails, Fails
    <3>4. CASE Fetch(p) \/ ReadTarget(p) \/ ReadHead(p) \/ GuardBranch(p)
        BY <3>4 DEF Fetch, ReadTarget, ReadHead, GuardBranch
    <3>5. CASE UpdateWorktree(p) \/ ForwardBranch(p)
      <4>1. \/ Goto(p, "checkout", Follows("checkout"))
            \/ Goto(p, "forward", Follows("forward"))
          BY <3>5 DEF UpdateWorktree, ForwardBranch
      <4> QED BY <4>1
    <3>6. CASE Reattach(p) \/ Release(p)
        BY <3>6 DEF Reattach, Release
    <3>7. CASE ReconcileFails(p)
      <4>1. PICK from \in {"fetch", "forward", "reattach", "checkout"} : Goto(p, from, "release")
          BY <3>7 DEF ReconcileFails, Fails
      <4> QED BY <4>1
    <3> QED BY <1>7, <3>1, <3>2, <3>3, <3>4, <3>5, <3>6, <3>7 DEF Reconcile
  <2> QED BY <1>1, <1>2, <1>3, <2>1, <2>2
<1> QED BY <1>4, <1>5, <1>6, <1>7 DEF Next

LEMMA Inductive == Inv /\ [Next]_vars => Inv'
<1> SUFFICES ASSUME Inv, [Next]_vars PROVE Inv'
    OBVIOUS
<1>1. CASE Next
  <2>1. PastOK' /\ Ordered'
      BY History DEF Inv
  <2>2. ValuesOK' /\ NewsOK' /\ ControlOK'
      BY <1>1, ValuesKept, NewsKept, ControlKept DEF Inv
  <2>3. \A p \in Process : Sight(p)'
      BY <1>1, SightKept
  <2>4. Pointer'
      BY <1>1, PointerKept
  <2>5. Explained'
      BY <1>1, ExplainedKept
  <2> QED BY <2>1, <2>2, <2>3, <2>4, <2>5 DEF Inv
<1>2. CASE UNCHANGED vars
    BY <1>2
    DEF vars, subVars, parentVars, news, Inv, PastOK, ValuesOK, NewsOK, ControlOK, Ordered, Sight,
        Pointer, Explained, Made, Behind
<1> QED BY <1>1, <1>2

LEMMA Initial == Init => Inv
<1> SUFFICES ASSUME Init PROVE Inv
    OBVIOUS
<1>1. Made = {1, 2} /\ past[1] = {1} /\ past[2] = {1, 2}
  <2>1. past = [c \in {1, 2} |-> 1..c]
      BY DEF Init
  <2>2. 1..1 = {1} /\ 1..2 = {1, 2}
      OBVIOUS
  <2> QED BY <2>1, <2>2 DEF Made
<1>2. Cardinality(Made) = 2
  <2>1. IsFiniteSet({1}) /\ Cardinality({1}) = 1
      BY FS_Singleton
  <2>2. Cardinality({1} \cup {2}) = Cardinality({1}) + 1
      BY <2>1, FS_AddElement
  <2> QED BY <1>1, <2>1, <2>2
<1>3. PastOK
  <2>1. {1, 2} = 1..2 /\ {1, 2} \subseteq Commit
      BY AutonomyAssumption DEF Commit
  <2>2. past \in [{1, 2} -> SUBSET Commit]
      BY <1>1, <2>1 DEF Init
  <2> QED BY <1>1, <1>2, <2>1, <2>2 DEF PastOK
<1>4. ValuesOK
  <2>1. saw \in [Process -> [head : Made, branch : Made, target : Made]]
      BY <1>1 DEF Init
  <2>2. HeadCommit \in Made
      BY <1>1 DEF Init, HeadCommit, OnBranch
  <2>3. detaches \in 0..Detaches /\ faults \in 0..Faults
      BY AutonomyAssumption DEF Init
  <2>4. /\ branch \in Made /\ head \in Made \cup {OnBranch} /\ origin \in Made
        /\ files \in Made /\ recorded \in Made /\ staged \in Made
      BY <1>1, <2>2 DEF Init, OnBranch
  <2> QED BY <2>1, <2>3, <2>4 DEF Init, ValuesOK
<1>5. pc \in [Process -> Label] /\ \A p \in Process : pc[p] \in {"attach", "idle"}
    BY DEF Init, Label
<1>6. ControlOK
    BY <1>5 DEF Init, ControlOK, Locked, NoOne, Process
<1>7. Ordered
    BY <1>1 DEF Ordered
<1>8. \A p \in Process : Sight(p)
    BY <1>5 DEF Sight
<1>9. Pointer
    BY <1>1, <1>5 DEF Init, Pointer, Behind, Process
<1>10. NewsOK /\ Explained
    BY DEF Init, NewsOK, Explained
<1> QED BY <1>3, <1>4, <1>6, <1>7, <1>8, <1>9, <1>10 DEF Inv

LEMMA Always == Spec => []Inv
<1> QED BY Initial, Inductive, PTL DEF Spec

-----------------------------------------------------------------------------
(* The theorems. *)

(* The types; each lane is held from a process's check to its end           *)
(* (zsync.rs, zbump.rs), whatever fails.                                    *)
THEOREM TypeCorrect == Spec => []TypeOK
<1>1. Inv => TypeOK
    BY TypeParts DEF Inv
<1> QED BY Always, <1>1, PTL

(* The submodule's commit in the parent never goes back, whoever commits    *)
(* and whatever fails (the gate of zbump.rs).                               *)
THEOREM PointerOnlyForward == Spec => PointerForward
<1>1. Inv /\ [Next]_vars => (past[recorded] \subseteq (past[recorded])')
  <2> SUFFICES ASSUME Inv, [Next]_vars PROVE past[recorded] \subseteq past'[recorded']
      OBVIOUS
  <2>1. PastOK /\ ValuesOK /\ Ordered /\ Pointer /\ Grows
      BY History DEF Inv
  <2>2. recorded \in Made /\ staged \in Made /\ saw["watcher"].head \in Made
      BY <2>1, SawCommits DEF ValuesOK, Process
  <2>3. recorded' \in {recorded, staged}
    <3>1. CASE UNCHANGED recorded
        BY <3>1
    <3>2. CASE ParentCommit
        BY <3>2 DEF ParentCommit
    <3>3. CASE Record
        BY <2>1, <3>3 DEF Record, Goto, Pointer
    <3>4. ASSUME NEW p \in Process, Reconcile(p) PROVE UNCHANGED recorded
        BY <3>4
        DEF Reconcile, AttachReadHead, AttachReadBranch, UpdateBranch, AttachSymbolic, AttachFails,
            TakeLane, CheckClean, Fetch, ReadTarget, ReadHead, GuardBranch, UpdateWorktree,
            ForwardBranch, Reattach, ReconcileFails, Release, parentVars
    <3>5. CASE User /\ ~ParentCommit
        BY <3>1, <3>5
        DEF User, Edit, UserCommit, Detach, UserFetch, StageOther, Repair, ZsyncCommand, parentVars
    <3>6. CASE Watcher /\ ~Record
        BY <3>1, <3>6 DEF Watcher, Register, React, Bump, BumpRead, Stage, BumpFails, BumpOver, parentVars
    <3>7. CASE UNCHANGED vars
        BY <3>1, <3>7 DEF vars, parentVars
    <3> QED BY <3>1, <3>2, <3>3, <3>4, <3>5, <3>6, <3>7 DEF Next
  <2>4. past[recorded] \subseteq past[staged]
      BY <2>1, <2>2, BehindMeans DEF Pointer
  <2>5. past'[recorded'] = past[recorded']
      BY <2>1, <2>2, <2>3 DEF Grows
  <2> QED BY <2>3, <2>4, <2>5
<1> QED BY Always, <1>1, PTL DEF Spec, PointerForward

(* A bump stages in the index of the user's own commits (zbump.rs:191) and  *)
(* has the parent's lane until its commit is made: whatever interleaves and *)
(* fails, a commit of other paths sweeps up a staged pointer only where a   *)
(* bump has failed after it was staged, and none has succeeded since.       *)
THEOREM SweepsLeftovers == Spec => SweepsOnlyLeftovers
<1>1. Inv /\ [Next]_vars => [others /\ ~others' /\ recorded' # recorded => leftover]_vars
  <2> SUFFICES ASSUME Inv, Next, others, ~others', recorded' # recorded
               PROVE  leftover
      OBVIOUS
  <2>1. ControlOK /\ Explained
      BY DEF Inv
  <2>2. CASE ParentCommit
    <3>1. parentLane # "watcher" /\ recorded' = staged
        BY <2>2 DEF ParentCommit, NoOne
    <3>2. pc["watcher"] # "record"
        BY <2>1, <3>1 DEF ControlOK
    <3> QED BY <2>1, <3>1, <3>2 DEF Explained
  <2>3. CASE User /\ ~ParentCommit
      BY <2>3
      DEF User, Edit, UserCommit, Detach, UserFetch, StageOther, Repair, ZsyncCommand, parentVars
  <2>4. CASE Watcher
      BY <2>4
      DEF Watcher, Register, React, Bump, BumpRead, Stage, Record, BumpFails, BumpOver, parentVars
  <2>5. ASSUME NEW p \in Process, Reconcile(p) PROVE others' = others
      BY <2>5
      DEF Reconcile, AttachReadHead, AttachReadBranch, UpdateBranch, AttachSymbolic, AttachFails,
          TakeLane, CheckClean, Fetch, ReadTarget, ReadHead, GuardBranch, UpdateWorktree,
          ForwardBranch, Reattach, ReconcileFails, Release, parentVars
  <2> QED BY <2>2, <2>3, <2>4, <2>5 DEF Next
<1> QED BY Always, <1>1, PTL DEF Spec, SweepsOnlyLeftovers

(* A process's step is its own. *)
LEMMA MovesOne ==
    ASSUME ControlOK, NEW p \in Process, NEW q \in Process, Reconcile(p), Moves(q)
    PROVE  p = q
<1>1. \E from, to : Goto(p, from, to)
    BY DEF Reconcile, AttachReadHead, AttachReadBranch, UpdateBranch, AttachSymbolic, AttachFails,
           TakeLane, CheckClean, Fetch, ReadTarget, ReadHead, GuardBranch, UpdateWorktree,
           ForwardBranch, Reattach, ReconcileFails, Release, Fails
<1> QED BY <1>1 DEF Goto, Moves, ControlOK

(* What a process does to the references, when it acts on what is so.       *)
LEMMA Careful ==
    ASSUME Inv, NEW p \in Process, Reconcile(p), ~Outdated(p)
    PROVE  /\ branch' # branch => branch' \in Made /\ Behind(branch, branch')
           /\ HeadCommit' # HeadCommit =>
                /\ Behind(HeadCommit, HeadCommit')
                /\ files = HeadCommit'
<1>1. ValuesOK /\ ControlOK /\ Sight(p)
    BY DEF Inv
<1>2. /\ saw[p].head \in Made /\ saw[p].target \in Made
      /\ branch = saw[p].branch /\ HeadCommit = saw[p].head
    BY <1>1, SawCommits DEF Outdated
<1>3. CASE UNCHANGED <<branch, head>>
    BY <1>3 DEF HeadCommit
<1>4. CASE UpdateBranch(p)
  <2>1. Behind(branch, saw[p].head) /\ branch' = saw[p].head /\ head' = head
      BY <1>1, <1>2, <1>4 DEF UpdateBranch, Goto, Sight
  <2>2. HeadCommit' = HeadCommit
      BY <1>2, <2>1 DEF HeadCommit
  <2> QED BY <1>2, <2>1, <2>2
<1>5. CASE AttachSymbolic(p)
  <2>1. branch = saw[p].head /\ branch' = branch /\ head' = OnBranch
      BY <1>1, <1>2, <1>5 DEF AttachSymbolic, Goto, Sight
  <2>2. HeadCommit' = HeadCommit
      BY <1>2, <2>1 DEF HeadCommit
  <2> QED BY <2>1, <2>2
<1>6. CASE ForwardBranch(p)
  <2>1. /\ Behind(branch, saw[p].target) /\ Behind(HeadCommit, saw[p].target)
        /\ files = saw[p].target /\ branch' = saw[p].target /\ head' = head
      BY <1>1, <1>2, <1>6 DEF ForwardBranch, Goto, Sight
  <2>2. HeadCommit' = HeadCommit \/ HeadCommit' = saw[p].target
      BY <2>1 DEF HeadCommit
  <2> QED BY <1>2, <2>1, <2>2
<1>7. CASE Reattach(p)
  <2>1. /\ Behind(HeadCommit, saw[p].target) /\ branch = saw[p].target
        /\ files = saw[p].target /\ branch' = branch /\ head' = OnBranch
      BY <1>1, <1>2, <1>7 DEF Reattach, Goto, Sight
  <2>2. HeadCommit' = saw[p].target
      BY <2>1 DEF HeadCommit
  <2> QED BY <2>1, <2>2
<1> QED BY <1>3, <1>4, <1>5, <1>6, <1>7
    DEF Reconcile, AttachReadHead, AttachReadBranch, AttachFails, TakeLane, CheckClean, Fetch,
        ReadTarget, ReadHead, GuardBranch, UpdateWorktree, ReconcileFails, Release, subVars

(* The mainline moves only to descendants of its tip (attach.rs:77), unless *)
(* a process acts on what is no longer so.                                  *)
THEOREM BranchOnlyForward == Spec => BranchForward
<1> DEFINE Forward == \/ past[branch] \subseteq (past[branch])'
                      \/ \E p \in Process : Moves(p) /\ Outdated(p)
<1>1. Inv /\ [Next]_vars => [Forward]_vars
  <2> SUFFICES ASSUME Inv, Next PROVE Forward
      OBVIOUS
  <2>1. PastOK /\ ValuesOK /\ ControlOK /\ Ordered /\ Grows
      BY History DEF Inv
  <2>2. branch \in Made /\ HeadCommit \in Made
      BY <2>1, SawCommits DEF ValuesOK, Process
  <2>3. CASE branch' = branch
    <3>1. past'[branch] = past[branch]
        BY <2>1, <2>2 DEF Grows
    <3> QED BY <2>3, <3>1
  <2>4. CASE UserCommit /\ branch' # branch
    <3>1. branch' = Newest /\ HeadCommit = branch
        BY <2>4 DEF UserCommit, HeadCommit
    <3>2. past'[Newest] = past[branch] \cup {Newest}
        BY <2>1, <2>2, <2>4, <3>1, NewCommitGrows DEF UserCommit
    <3> QED BY <3>1, <3>2
  <2>5. ASSUME NEW p \in Process, Reconcile(p), branch' # branch PROVE Forward
    <3>1. Moves(p)
        BY <2>1, <2>5
        DEF Reconcile, AttachReadHead, AttachReadBranch, UpdateBranch, AttachSymbolic, AttachFails,
            TakeLane, CheckClean, Fetch, ReadTarget, ReadHead, GuardBranch, UpdateWorktree,
            ForwardBranch, Reattach, ReconcileFails, Release, Follows, Goto, Moves, ControlOK, subVars
    <3>2. CASE Outdated(p)
        BY <3>1, <3>2
    <3>3. CASE ~Outdated(p)
      <4>1. branch' \in Made /\ Behind(branch, branch')
          BY <2>5, <3>3, Careful
      <4>2. past[branch] \subseteq past[branch']
          BY <2>1, <2>2, <4>1, BehindMeans
      <4>3. past'[branch'] = past[branch']
          BY <2>1, <4>1 DEF Grows
      <4> QED BY <4>2, <4>3
    <3> QED BY <3>2, <3>3
  <2>6. CASE User /\ ~UserCommit
      BY <2>3, <2>6
      DEF User, Edit, Detach, UserFetch, StageOther, ParentCommit, Repair, ZsyncCommand, subVars
  <2>7. CASE Watcher
      BY <2>3, <2>7 DEF Watcher, Register, React, Bump, BumpRead, Stage, Record, BumpFails, BumpOver, subVars
  <2> QED BY <2>3, <2>4, <2>5, <2>6, <2>7 DEF Next
<1> QED BY Always, <1>1, PTL DEF Spec, BranchForward

(* HEAD moves only forward and only to the commit whose files are there     *)
(* (zsync.rs), unless a process acts on what is no longer so.               *)
THEOREM HeadFollows == Spec => HeadFollowsFiles
<1> DEFINE Follow == \A p \in Process :
                       (Moves(p) /\ HeadCommit' # HeadCommit) =>
                          \/ Behind(HeadCommit, HeadCommit') /\ files = HeadCommit'
                          \/ Outdated(p)
<1>1. Inv /\ [Next]_vars => [Follow]_vars
  <2> SUFFICES ASSUME Inv, Next, NEW q \in Process, Moves(q), HeadCommit' # HeadCommit, ~Outdated(q)
               PROVE  Behind(HeadCommit, HeadCommit') /\ files = HeadCommit'
      OBVIOUS
  <2>1. ASSUME NEW p \in Process, Reconcile(p)
        PROVE  Behind(HeadCommit, HeadCommit') /\ files = HeadCommit'
    <3>1. p = q
        BY <2>1, MovesOne DEF Inv
    <3> QED BY <2>1, <3>1, Careful
  <2>2. CASE User
      BY <2>2
      DEF User, Edit, UserCommit, Detach, UserFetch, StageOther, ParentCommit, Repair, ZsyncCommand,
          subVars, Moves, HeadCommit
  <2>3. CASE Watcher
      BY <2>3
      DEF Watcher, Register, React, Bump, BumpRead, Stage, Record, BumpFails, BumpOver, subVars, HeadCommit
  <2> QED BY <2>1, <2>2, <2>3 DEF Next
<1> QED BY Always, <1>1, PTL DEF Spec, HeadFollowsFiles

=============================================================================

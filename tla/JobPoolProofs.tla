---------------------------- MODULE JobPoolProofs ----------------------------
(***************************************************************************)
(* Theorems about JobPool, for every set of jobs and repositories, every   *)
(* script, any number of threads and any number of ledger errors.          *)
(*                                                                         *)
(* LaneOnly is about the lane alone: where each job is, and that a lane    *)
(* marked as running has exactly one job in flight.  RowInv ties a job's   *)
(* row to its stage: a thread that got past the claim owns the row until   *)
(* it finalizes.  WorkInv says how far a running script is and what of it  *)
(* is in the work tree, TruthInv what an ended row says of it, StopInv     *)
(* what a cancelled thread may still do, and SessionInv that the jobs of a *)
(* session end in the order in which they were queued.                     *)
(***************************************************************************)
EXTENDS JobPool, SequenceTheorems, TLAPS

-----------------------------------------------------------------------------
(* The invariants. *)

(* Nobody has submitted the job yet. *)
Unsubmitted ==
    \A j \in Job : request[j] # "answered" => stage[j] = "none"

(* A lane's backlog: each of its jobs once, waiting, and of that repository.*)
Backlog ==
    \A r \in Repo : \A k \in DOMAIN queue[r] :
        /\ stage[queue[r][k]] = "queued"
        /\ RepoOf[queue[r][k]] = r
        /\ \A i \in DOMAIN queue[r] : queue[r][i] = queue[r][k] => i = k

LaneOnly == Unsubmitted /\ Backlog /\ LaneMoves /\ OneAtATime

(* Past the claim and before the end of finalizing. *)
Owning == {"ready", "cleared", "spawned", "waiting", "reaped", "judging",
           "settling", "unregister", "finalizing"}

RowInv ==
    \A j \in Job :
        /\ request[j] = "idle" => row[j] = "none"
        /\ stage[j] \in Owning => row[j] = "running"
        /\ stage[j] \in {"unregister", "finalizing"} => verdict[j] \in Terminal

(* A command is being run only while there is one left in the script. *)
Running == {"ready", "cleared", "spawned", "waiting", "reaped", "judging"}

StepInv ==
    \A j \in Job :
        /\ stage[j] \in Running => step[j] < Len(Script[j])
        /\ stage[j] \in {"none", "queued", "dispatched", "claiming"} => step[j] = 0

-----------------------------------------------------------------------------
(* Type correctness. *)

LEMMA ScriptFact ==
    ASSUME NEW j \in Job
    PROVE  Len(Script[j]) \in Nat \ {0}
<1>1. Script[j] \in Seq({"add", "commit", "push", "exec"}) /\ Script[j] # <<>>
  BY PoolAssumption
<1> QED
  BY <1>1

LEMMA TypeInit == Init => TypeOK /\ StepInv
<1> SUFFICES ASSUME Init PROVE TypeOK /\ StepInv
  OBVIOUS
<1>1. \A j \in Job : Len(Script[j]) \in Nat \ {0}
  BY ScriptFact
<1>2. TypeOK
  BY <1>1 DEF Init, TypeOK, Stage, Terminal
<1>3. StepInv
  BY <1>1 DEF Init, StepInv, Running
<1> QED
  BY <1>2, <1>3

LEMMA TypeStep ==
    ASSUME TypeOK, StepInv, [Next]_vars
    PROVE  TypeOK'
<1> USE DEF TypeOK, Stage, Active, Terminal, Move
<1>1. ASSUME NEW j \in Job, Insert(j) PROVE TypeOK'
  <2>1. lastId' \in Nat /\ dbErrors' \in Nat
    BY <1>1 DEF Insert, DbFails
  <2>2. id' \in [Job -> Nat]
    <3>1. id' = id \/ id' = [id EXCEPT ![j] = lastId']
      BY <1>1 DEF Insert
    <3> QED
      BY <2>1, <3>1
  <2>3. row' \in [Job -> {"none", "queued", "running"} \cup Terminal]
    <3>1. row' = row \/ row' = [row EXCEPT ![j] = "queued"]
      BY <1>1 DEF Insert
    <3> QED
      BY <3>1
  <2>4. request' \in [Job -> {"idle", "inserted", "answered", "refused"}]
    <3>1. request' = [request EXCEPT ![j] = "inserted"] \/ request' = [request EXCEPT ![j] = "refused"]
      BY <1>1 DEF Insert
    <3> QED
      BY <3>1
  <2> QED
    BY <1>1, <2>1, <2>2, <2>3, <2>4 DEF Insert, laneVars, childVars, cancelVars, endVars
<1>2. ASSUME NEW j \in Job, Submit(j) PROVE TypeOK'
  <2> DEFINE r == RepoOf[j]
  <2>1. r \in Repo \cup {NoRepo}
    BY PoolAssumption
  <2>2. running' \in SUBSET Repo
    BY <1>2, <2>1 DEF Submit
  <2>3. stage' \in [Job -> Stage]
    BY <1>2 DEF Submit
  <2>4. chan' \in Seq(Job)
    <3>1. Append(chan, j) \in Seq(Job)
      OBVIOUS
    <3> QED
      BY <1>2, <3>1 DEF Submit
  <2>5. queue' \in [Repo -> Seq(Job)]
    <3>1. r # NoRepo => r \in Repo /\ Append(queue[r], j) \in Seq(Job)
      BY <2>1
    <3>2. r # NoRepo => [queue EXCEPT ![r] = Append(queue[r], j)] \in [Repo -> Seq(Job)]
      BY <3>1
    <3> QED
      BY <1>2, <3>2 DEF Submit, Enqueue
  <2>6. request' \in [Job -> {"idle", "inserted", "answered", "refused"}]
    BY <1>2 DEF Submit
  <2> QED
    BY <1>2, <2>2, <2>3, <2>4, <2>5, <2>6 DEF Submit, ledgerVars, childVars, cancelVars, endVars
<1>3. ASSUME NEW j \in Job, StopLookup(j) PROVE TypeOK'
  BY <1>3 DEF StopLookup, ledgerVars, laneVars, childVars, endVars
<1>4. ASSUME NEW j \in Job, StopKill(j) PROVE TypeOK'
  BY <1>4 DEF StopKill, ledgerVars, laneVars, cancelVars, endVars
<1>5. ASSUME NEW j \in Job, StopQueued(j) PROVE TypeOK'
  <2>1. dbErrors' \in Nat
    BY <1>5 DEF StopQueued, DbFails
  <2>2. row' \in [Job -> {"none", "queued", "running"} \cup Terminal]
    <3>1. row' = row \/ row' = [row EXCEPT ![j] = "stopped"]
      BY <1>5 DEF StopQueued
    <3> QED
      BY <3>1
  <2>3. stopper' \in [Job -> {"idle", "missed", "cancelling", "accepted", "refused"}]
    <3>1. stopper' = [stopper EXCEPT ![j] = "accepted"] \/ stopper' = [stopper EXCEPT ![j] = "refused"]
      BY <1>5 DEF StopQueued
    <3> QED
      BY <3>1
  <2> QED
    BY <1>5, <2>1, <2>2, <2>3 DEF StopQueued, laneVars, childVars, cancelVars, endVars
<1>6. ASSUME NEW j \in Job, Start(j) PROVE TypeOK'
  <2>1. chan' \in Seq(Job)
    BY <1>6 DEF Start
  <2> QED
    BY <1>6, <2>1 DEF Start, ledgerVars, childVars, endVars
<1>7. ASSUME NEW j \in Job, Claim(j) PROVE TypeOK'
  BY <1>7 DEF Claim, laneVars, childVars, cancelVars, endVars
<1>8. ASSUME NEW j \in Job, ClaimFails(j) PROVE TypeOK'
  BY <1>8 DEF ClaimFails, DbFails, ledgerVars, laneVars, childVars, endVars
<1>9. ASSUME NEW j \in Job, CheckFlag(j) PROVE TypeOK'
  BY <1>9 DEF CheckFlag, ledgerVars, laneVars, childVars, cancelVars, endVars
<1>10. ASSUME NEW j \in Job, Spawn(j) PROVE TypeOK'
  BY <1>10 DEF Spawn, ledgerVars, laneVars, cancelVars, endVars
<1>11. ASSUME NEW j \in Job, SpawnFails(j) PROVE TypeOK'
  BY <1>11 DEF SpawnFails, ledgerVars, laneVars, childVars, cancelVars, endVars
<1>12. ASSUME NEW j \in Job, SetChild(j) PROVE TypeOK'
  BY <1>12 DEF SetChild, ledgerVars, laneVars, childVars, endVars
<1>13. ASSUME NEW j \in Job, Reap(j) PROVE TypeOK'
  BY <1>13 DEF Reap, ledgerVars, laneVars, childVars, cancelVars, endVars
<1>14. ASSUME NEW j \in Job, ClearChild(j) PROVE TypeOK'
  BY <1>14 DEF ClearChild, ledgerVars, laneVars, childVars, endVars
<1>15. ASSUME NEW j \in Job, Judge(j) PROVE TypeOK'
  <2>1. step[j] < Len(Script[j]) /\ Len(Script[j]) \in Nat
    BY <1>15, ScriptFact DEF Judge, StepInv, Running
  <2> DEFINE next == [step EXCEPT ![j] = step[j] + 1]
  <2>5. step' = step \/ step' = next
    BY <1>15 DEF Judge
  <2>2. step' \in [Job -> Nat]
    <3>1. step[j] + 1 \in Nat
      OBVIOUS
    <3> QED
      BY <2>5, <3>1
  <2>3. ASSUME NEW k \in Job PROVE step'[k] <= Len(Script[k])
    <3>1. step'[k] = step[k] \/ (k = j /\ step'[k] = step[k] + 1)
      <4>1. step \in [Job -> Nat]
        OBVIOUS
      <4> HIDE DEF TypeOK
      <4> QED
        BY <2>5, <4>1
    <3>2. step[k] <= Len(Script[k]) /\ step[k] \in Nat
      OBVIOUS
    <3> QED
      BY <2>1, <3>1, <3>2
  <2>4. stage' \in [Job -> Stage] /\ child' \in [Job -> {"none", "running", "succeeded", "failed", "killed"}]
    BY <1>15 DEF Judge
  <2> QED
    BY <1>15, <2>2, <2>3, <2>4 DEF Judge, ledgerVars, laneVars, cancelVars, endVars
<1>16. ASSUME NEW j \in Job, Settle(j) PROVE TypeOK'
  BY <1>16 DEF Settle, ledgerVars, laneVars, childVars, cancelVars
<1>17. ASSUME NEW j \in Job, Unregister(j) PROVE TypeOK'
  BY <1>17 DEF Unregister, ledgerVars, laneVars, childVars, endVars
<1>18. ASSUME NEW j \in Job, Finalize(j) PROVE TypeOK'
  BY <1>18 DEF Finalize, laneVars, childVars, cancelVars, endVars
<1>19. ASSUME NEW j \in Job, FinalizeFails(j) PROVE TypeOK'
  BY <1>19 DEF FinalizeFails, DbFails, ledgerVars, laneVars, childVars, cancelVars
<1>20. ASSUME NEW j \in Job, Advance(j) PROVE TypeOK'
  <2> DEFINE r == RepoOf[j]
  <2>1. CASE r \in running /\ queue[r] # <<>>
    <3>1. queue[r] \in Seq(Job) /\ queue[r] # <<>>
      BY <2>1
    <3> HIDE DEF r
    <3>2. Head(queue[r]) \in Job /\ Tail(queue[r]) \in Seq(Job)
      BY <3>1
    <3>3. /\ chan' = Append(chan, Head(queue[r]))
          /\ queue' = [queue EXCEPT ![r] = Tail(@)]
          /\ stage' = [stage EXCEPT ![j] = "over", ![Head(queue[r])] = "dispatched"]
          /\ running' = running
      BY <1>20, <2>1 DEF Advance, Advances, r
    <3>4. chan' \in Seq(Job)
      BY <3>2, <3>3, AppendProperties
    <3>5. queue' \in [Repo -> Seq(Job)]
      BY <2>1, <3>2, <3>3
    <3>6. stage' \in [Job -> Stage]
      BY <3>2, <3>3
    <3> QED
      BY <1>20, <3>3, <3>4, <3>5, <3>6 DEF Advance, ledgerVars, childVars, cancelVars, endVars
  <2>2. CASE r \in running /\ queue[r] = <<>>
    BY <1>20, <2>2, ZenonT(60) DEF Advance, Advances, ledgerVars, childVars, cancelVars, endVars
  <2>3. CASE r \notin running
    BY <1>20, <2>3 DEF Advance, Advances, ledgerVars, laneVars, childVars, cancelVars, endVars
  <2> QED
    BY <2>1, <2>2, <2>3
<1>21. ASSUME NEW j \in Job, ChildLands(j) PROVE TypeOK'
  BY <1>21 DEF ChildLands, ledgerVars, laneVars, cancelVars, endVars
<1>22. ASSUME NEW j \in Job, ChildExits(j) PROVE TypeOK'
  BY <1>22 DEF ChildExits, ledgerVars, laneVars, cancelVars, endVars
<1>23. CASE UNCHANGED vars
  BY <1>23 DEF vars, ledgerVars, laneVars, childVars, cancelVars, endVars
<1> HIDE DEF TypeOK, Move
<1> QED
  BY <1>1, <1>2, <1>3, <1>4, <1>5, <1>6, <1>7, <1>8, <1>9, <1>10, <1>11, <1>12, <1>13, <1>14, <1>15, <1>16, <1>17, <1>18, <1>19, <1>20, <1>21, <1>22, <1>23 DEF Next, Stop, RunJob

-----------------------------------------------------------------------------
(* The lane. *)

LEMMA LaneInit == Init => LaneOnly
BY DEF Init, LaneOnly, Unsubmitted, Backlog, LaneMoves, OneAtATime, InFlight, Active

(* The job stays in flight and everything else stays where it is. *)
LEMMA StaysInFlight ==
    ASSUME TypeOK, LaneOnly, NEW j \in Job, InFlight(j), NEW to \in Active,
           stage' = [stage EXCEPT ![j] = to], UNCHANGED <<request, running, queue>>
    PROVE  LaneOnly'
<1>1. \A k \in Job : k # j => stage'[k] = stage[k]
  BY DEF TypeOK
<1>2. stage'[j] = to
  BY DEF TypeOK
<1>3. \A k \in Job : InFlight(k)' <=> InFlight(k)
  BY <1>1, <1>2 DEF InFlight
<1>4. \A k \in Job : stage[k] \in {"none", "queued"} <=> stage'[k] \in {"none", "queued"}
  BY <1>1, <1>2 DEF InFlight, Active
<1>5. \A k \in Job : stage[k] \in {"none", "queued"} => stage'[k] = stage[k]
  BY <1>1, <1>2 DEF InFlight, Active
<1>6. Unsubmitted'
  BY <1>5 DEF LaneOnly, Unsubmitted
<1>7. \A r \in Repo : \A i \in DOMAIN queue[r] : queue[r][i] \in Job
  BY DEF TypeOK
<1>8. Backlog'
  BY <1>5, <1>7 DEF LaneOnly, Backlog
<1>9. LaneMoves' /\ OneAtATime'
  BY <1>3 DEF LaneOnly, LaneMoves, OneAtATime
<1> QED
  BY <1>6, <1>8, <1>9 DEF LaneOnly

(* Nothing the lane is about changes. *)
LEMMA LaneUnchanged ==
    ASSUME LaneOnly, UNCHANGED <<stage, running, queue>>,
           \A k \in Job : request'[k] # "answered" => request[k] # "answered"
    PROVE  LaneOnly'
BY DEF LaneOnly, Unsubmitted, Backlog, LaneMoves, OneAtATime, InFlight

LEMMA SubmitKeepsLane ==
    ASSUME TypeOK, LaneOnly, NEW j \in Job, Submit(j)
    PROVE  LaneOnly'
<1> DEFINE r == RepoOf[j]
<1>1. r \in Repo \cup {NoRepo} /\ NoRepo \notin Repo
  BY PoolAssumption
<1>2. stage[j] = "none" /\ ~InFlight(j)
  BY DEF Submit, LaneOnly, Unsubmitted, InFlight, Active
<1>3. \A k \in Job : k # j => stage'[k] = stage[k]
  BY DEF Submit, TypeOK
<1>4. \A k \in Job : k # j => (InFlight(k)' <=> InFlight(k))
  BY <1>3 DEF InFlight
<1>5. Unsubmitted'
  BY <1>3 DEF Submit, LaneOnly, Unsubmitted, TypeOK
<1>6. \A q \in Repo : \A i \in DOMAIN queue[q] : queue[q][i] \in Job /\ queue[q][i] # j
  BY <1>2 DEF TypeOK, LaneOnly, Backlog
<1>7. CASE r = NoRepo \/ r \notin running
  <2>1. /\ running' = running \cup ({r} \ {NoRepo})
        /\ stage' = [stage EXCEPT ![j] = "dispatched"]
        /\ queue' = queue
    BY <1>7 DEF Submit, LaneFree
  <2>2. InFlight(j)'
    BY <2>1 DEF InFlight, TypeOK
  <2>3. Backlog'
    BY <1>3, <1>6, <2>1 DEF LaneOnly, Backlog
  <2>4. \A k \in Job : InFlight(k) /\ RepoOf[k] = r /\ r # NoRepo => FALSE
    BY <1>1, <1>7 DEF LaneOnly, LaneMoves
  <2>5. OneAtATime'
    BY <1>4, <2>4 DEF LaneOnly, OneAtATime
  <2>6. ASSUME NEW q \in Repo
        PROVE  /\ q \in running' <=> \E k \in Job : InFlight(k)' /\ RepoOf[k] = q
               /\ queue'[q] # <<>> => q \in running'
    <3>1. CASE q = r
      <4>1. q \in running'
        BY <1>1, <2>1, <3>1
      <4> QED
        BY <2>2, <3>1, <4>1
    <3>2. CASE q # r
      <4>1. q \in running' <=> q \in running
        BY <2>1, <3>2
      <4>2. (\E k \in Job : InFlight(k)' /\ RepoOf[k] = q) <=> \E k \in Job : InFlight(k) /\ RepoOf[k] = q
        BY <1>2, <1>4, <3>2
      <4> QED
        BY <2>1, <4>1, <4>2 DEF LaneOnly, LaneMoves
    <3> QED
      BY <3>1, <3>2
  <2>7. LaneMoves'
    BY <2>6 DEF LaneMoves
  <2> QED
    BY <1>5, <2>3, <2>5, <2>7 DEF LaneOnly
<1>8. CASE r # NoRepo /\ r \in running
  <2>1. /\ running' = running
        /\ stage' = [stage EXCEPT ![j] = "queued"]
        /\ queue' = [queue EXCEPT ![r] = Append(queue[r], j)]
    BY <1>8 DEF Submit, LaneFree, Enqueue
  <2>2. ~InFlight(j)' /\ stage'[j] = "queued"
    BY <2>1 DEF InFlight, Active, TypeOK
  <2>3. LaneMoves'
    <3>1. ASSUME NEW q \in Repo
          PROVE  /\ q \in running' <=> \E k \in Job : InFlight(k)' /\ RepoOf[k] = q
                 /\ queue'[q] # <<>> => q \in running'
      <4>1. (\E k \in Job : InFlight(k)' /\ RepoOf[k] = q) <=> \E k \in Job : InFlight(k) /\ RepoOf[k] = q
        BY <1>2, <1>4, <2>2
      <4>2. q # r => queue'[q] = queue[q]
        BY <2>1 DEF TypeOK
      <4> QED
        BY <1>8, <2>1, <4>1, <4>2 DEF LaneOnly, LaneMoves
    <3> QED
      BY <3>1 DEF LaneMoves
  <2>4. OneAtATime'
    BY <1>2, <1>4, <2>2 DEF LaneOnly, OneAtATime
  <2>5. Backlog'
    <3>1. ASSUME NEW q \in Repo, NEW k \in DOMAIN queue'[q]
          PROVE  /\ stage'[queue'[q][k]] = "queued"
                 /\ RepoOf[queue'[q][k]] = q
                 /\ \A i \in DOMAIN queue'[q] : queue'[q][i] = queue'[q][k] => i = k
      <4>1. CASE q # r
        <5>1. queue'[q] = queue[q]
          BY <2>1, <4>1 DEF TypeOK
        <5> QED
          BY <1>3, <1>6, <5>1 DEF LaneOnly, Backlog
      <4>2. CASE q = r
        <5> DEFINE s == queue[r]
        <5>1. s \in Seq(Job) /\ queue'[q] = Append(s, j)
          BY <2>1, <4>2 DEF TypeOK
        <5>2. \A i \in DOMAIN s : s[i] # j /\ s[i] \in Job /\ stage[s[i]] = "queued" /\ RepoOf[s[i]] = r
          BY <1>6, <4>2 DEF LaneOnly, Backlog
        <5>3. \A i, n \in DOMAIN s : s[i] = s[n] => i = n
          BY <4>2 DEF LaneOnly, Backlog
        <5> HIDE DEF s
        <5>4. /\ Len(Append(s, j)) = Len(s) + 1 /\ Len(s) \in Nat
              /\ DOMAIN s = 1 .. Len(s) /\ DOMAIN Append(s, j) = 1 .. Len(s) + 1
              /\ \A i \in 1 .. Len(s) : Append(s, j)[i] = s[i]
              /\ Append(s, j)[Len(s) + 1] = j
          BY <5>1
        <5>5. k \in 1 .. Len(s) + 1
          BY <5>1, <5>4
        <5>6. CASE k = Len(s) + 1
          BY <2>2, <4>2, <5>1, <5>2, <5>4, <5>6
        <5>7. CASE k \in 1 .. Len(s)
          <6>1. queue'[q][k] = s[k] /\ s[k] # j /\ s[k] \in Job
            BY <5>1, <5>2, <5>4, <5>7
          <6>2. stage'[s[k]] = "queued" /\ RepoOf[s[k]] = r
            BY <1>3, <5>2, <5>4, <5>7
          <6>3. ASSUME NEW i \in DOMAIN queue'[q], queue'[q][i] = s[k] PROVE i = k
            BY <5>1, <5>2, <5>3, <5>4, <5>7, <6>1, <6>3
          <6> QED
            BY <4>2, <6>1, <6>2, <6>3
        <5> QED
          BY <5>5, <5>6, <5>7, <5>4
      <4> QED
        BY <4>1, <4>2
    <3> QED
      BY <3>1 DEF Backlog
  <2> QED
    BY <1>5, <2>3, <2>4, <2>5 DEF LaneOnly
<1> QED
  BY <1>7, <1>8

(* The lane moves on: the next of the backlog, or nobody. *)
LEMMA AdvanceKeepsLane ==
    ASSUME TypeOK, LaneOnly, NEW j \in Job, Advance(j)
    PROVE  LaneOnly'
<1> DEFINE r == RepoOf[j]
<1>1. r \in Repo \cup {NoRepo} /\ NoRepo \notin Repo
  BY PoolAssumption
<1>2. stage[j] = "advancing" /\ InFlight(j)
  BY DEF Advance, InFlight, Active
<1>3. r \in Repo => r \in running
  BY <1>2 DEF LaneOnly, LaneMoves
<1>4. \A k \in Job : k # j /\ RepoOf[k] = r /\ r # NoRepo => ~InFlight(k)
  BY <1>2 DEF LaneOnly, OneAtATime
<1>5. r \in running => r \in Repo /\ r # NoRepo
  BY <1>1 DEF TypeOK
<1>6. CASE r \notin running \/ queue[r] = <<>>
  <2>1. /\ running' = running \ {r}
        /\ stage' = [stage EXCEPT ![j] = "over"]
        /\ queue' = queue
    BY <1>6 DEF Advance, Advances, laneVars
  <2>2. ~InFlight(j)' /\ stage'[j] = "over"
    BY <2>1 DEF InFlight, Active, TypeOK
  <2>3. \A k \in Job : k # j => stage'[k] = stage[k]
    BY <2>1 DEF TypeOK
  <2>4. \A k \in Job : k # j => (InFlight(k)' <=> InFlight(k))
    BY <2>3 DEF InFlight
  <2>5. request' = request
    BY DEF Advance
  <2>6. Unsubmitted'
    BY <1>2, <2>3, <2>5 DEF LaneOnly, Unsubmitted
  <2>7. \A q \in Repo : \A i \in DOMAIN queue[q] : queue[q][i] \in Job /\ queue[q][i] # j
    BY <1>2 DEF TypeOK, LaneOnly, Backlog
  <2>8. Backlog'
    BY <2>1, <2>3, <2>7 DEF LaneOnly, Backlog
  <2>9. OneAtATime'
    BY <2>2, <2>4 DEF LaneOnly, OneAtATime
  <2>10. ASSUME NEW q \in Repo
         PROVE  /\ q \in running' <=> \E k \in Job : InFlight(k)' /\ RepoOf[k] = q
                /\ queue'[q] # <<>> => q \in running'
    <3>1. CASE q = r
      <4>1. \A k \in Job : RepoOf[k] = q => ~InFlight(k)'
        BY <1>1, <1>4, <2>2, <2>4, <3>1
      <4>2. queue[q] = <<>>
        BY <1>3, <1>6, <3>1
      <4> QED
        BY <2>1, <3>1, <4>1, <4>2
    <3>2. CASE q # r
      <4>1. (\E k \in Job : InFlight(k)' /\ RepoOf[k] = q) <=> \E k \in Job : InFlight(k) /\ RepoOf[k] = q
        BY <2>2, <2>4, <3>2
      <4> QED
        BY <2>1, <3>2, <4>1 DEF LaneOnly, LaneMoves
    <3> QED
      BY <3>1, <3>2
  <2>11. LaneMoves'
    BY <2>10 DEF LaneMoves
  <2> QED
    BY <2>6, <2>8, <2>9, <2>11 DEF LaneOnly
<1>7. CASE r \in running /\ queue[r] # <<>>
  <2>1. queue[r] \in Seq(Job) /\ queue[r] # <<>> /\ r \in Repo /\ r # NoRepo
    BY <1>5, <1>7 DEF TypeOK
  <2>15. Head(queue[r]) = queue[r][1] /\ 1 \in DOMAIN queue[r] /\ queue[r][1] \in Job
    BY <2>1
  <2>2. PICK n \in Job : n = Head(queue[r]) /\ n = queue[r][1]
    BY <2>15
  <2>3. stage[n] = "queued" /\ RepoOf[n] = r /\ n # j
    BY <1>2, <2>1, <2>2, <2>15 DEF LaneOnly, Backlog
  <2>4. /\ running' = running
        /\ stage' = [stage EXCEPT ![j] = "over", ![n] = "dispatched"]
        /\ queue' = [queue EXCEPT ![r] = Tail(queue[r])]
        /\ request' = request
    BY <1>7, <2>2 DEF Advance, Advances
  <2>5. /\ stage'[j] = "over" /\ stage'[n] = "dispatched"
        /\ \A k \in Job : k # j /\ k # n => stage'[k] = stage[k]
    BY <2>2, <2>3, <2>4 DEF TypeOK
  <2>13. \A k \in Job : k # j /\ k # n => (InFlight(k)' <=> InFlight(k))
    BY <2>5 DEF InFlight
  <2>14. ~InFlight(n) /\ InFlight(n)' /\ ~InFlight(j)'
    BY <2>3, <2>5 DEF InFlight, Active
  <2>6. /\ ~InFlight(j)' /\ InFlight(n)' /\ ~InFlight(n)
        /\ \A k \in Job : k # j /\ k # n => (InFlight(k)' <=> InFlight(k))
    BY <2>13, <2>14
  <2>7. Unsubmitted'
    BY <1>2, <2>3, <2>4, <2>5 DEF LaneOnly, Unsubmitted
  <2>8. OneAtATime'
    <3> SUFFICES ASSUME NEW k \in Job, NEW i \in Job, InFlight(k)', InFlight(i)',
                        RepoOf[k] = RepoOf[i], RepoOf[k] # NoRepo
                 PROVE  k = i
      BY DEF OneAtATime
    <3>1. CASE k = n \/ i = n
      BY <1>4, <2>1, <2>3, <2>6, <3>1
    <3>2. CASE k # n /\ i # n
      BY <2>6, <3>2 DEF LaneOnly, OneAtATime
    <3> QED
      BY <3>1, <3>2
  <2>9. ASSUME NEW q \in Repo
        PROVE  /\ q \in running' <=> \E k \in Job : InFlight(k)' /\ RepoOf[k] = q
               /\ queue'[q] # <<>> => q \in running'
    <3>1. CASE q = r
      <4>1. \E k \in Job : InFlight(k)' /\ RepoOf[k] = q
        BY <2>2, <2>3, <2>6, <3>1
      <4> QED
        BY <1>7, <2>4, <3>1, <4>1
    <3>2. CASE q # r
      <4>1. (\E k \in Job : InFlight(k)' /\ RepoOf[k] = q) <=> \E k \in Job : InFlight(k) /\ RepoOf[k] = q
        BY <2>3, <2>6, <3>2
      <4>2. queue'[q] = queue[q]
        BY <2>4, <3>2 DEF TypeOK
      <4> QED
        BY <2>4, <4>1, <4>2 DEF LaneOnly, LaneMoves
    <3> QED
      BY <3>1, <3>2
  <2>10. LaneMoves'
    BY <2>9 DEF LaneMoves
  <2>11. ASSUME NEW q \in Repo, NEW k \in DOMAIN queue'[q]
         PROVE  /\ stage'[queue'[q][k]] = "queued"
                /\ RepoOf[queue'[q][k]] = q
                /\ \A i \in DOMAIN queue'[q] : queue'[q][i] = queue'[q][k] => i = k
    <3>1. CASE q # r
      <4>1. queue'[q] = queue[q]
        BY <2>4, <3>1 DEF TypeOK
      <4>2. ASSUME NEW i \in DOMAIN queue[q]
            PROVE  queue[q][i] \in Job /\ queue[q][i] # j /\ queue[q][i] # n
        <5>1. stage[queue[q][i]] = "queued" /\ RepoOf[queue[q][i]] = q
          BY DEF LaneOnly, Backlog
        <5>2. queue[q][i] \in Job
          BY DEF TypeOK
        <5> QED
          BY <1>2, <2>3, <3>1, <5>1, <5>2
      <4> QED
        BY <2>5, <4>1, <4>2 DEF LaneOnly, Backlog
    <3>2. CASE q = r
      <4> DEFINE s == queue[r]
      <4>1. s \in Seq(Job) /\ s # <<>> /\ queue'[q] = Tail(s)
        BY <2>1, <2>4, <3>2 DEF TypeOK
      <4>2. ASSUME NEW i \in DOMAIN s
            PROVE  s[i] \in Job /\ s[i] # j /\ stage[s[i]] = "queued" /\ RepoOf[s[i]] = r
        <5>1. stage[s[i]] = "queued" /\ RepoOf[s[i]] = r
          BY <2>1 DEF LaneOnly, Backlog
        <5>2. s[i] \in Job
          BY <2>1
        <5> QED
          BY <1>2, <5>1, <5>2
      <4>3. \A i, m \in DOMAIN s : s[i] = s[m] => i = m
        BY <2>1 DEF LaneOnly, Backlog
      <4>4. n = s[1]
        BY <2>2
      <4> HIDE DEF s
      <4>5. /\ Len(s) \in Nat \ {0} /\ DOMAIN s = 1 .. Len(s)
            /\ DOMAIN Tail(s) = 1 .. Len(s) - 1
            /\ \A i \in 1 .. Len(s) - 1 : Tail(s)[i] = s[i + 1]
        BY <4>1
      <4>6. k \in 1 .. Len(s) - 1 /\ k + 1 \in DOMAIN s /\ k + 1 # 1 /\ 1 \in DOMAIN s
        BY <4>1, <4>5
      <4>7. queue'[q][k] = s[k + 1] /\ s[k + 1] # n /\ s[k + 1] # j /\ s[k + 1] \in Job
        BY <4>1, <4>2, <4>3, <4>4, <4>5, <4>6
      <4>8. stage'[s[k + 1]] = "queued" /\ RepoOf[s[k + 1]] = r
        BY <2>5, <4>2, <4>6, <4>7
      <4>9. ASSUME NEW i \in DOMAIN queue'[q], queue'[q][i] = s[k + 1] PROVE i = k
        <5>1. i \in 1 .. Len(s) - 1 /\ i + 1 \in DOMAIN s /\ queue'[q][i] = s[i + 1]
          BY <4>1, <4>5
        <5>2. i + 1 = k + 1
          BY <4>3, <4>6, <4>9, <5>1
        <5> QED
          BY <4>6, <5>1, <5>2
      <4> QED
        BY <3>2, <4>7, <4>8, <4>9
    <3> QED
      BY <3>1, <3>2
  <2>12. Backlog'
    BY <2>11 DEF Backlog
  <2> QED
    BY <2>7, <2>8, <2>10, <2>12 DEF LaneOnly
<1> QED
  BY <1>6, <1>7

LEMMA LaneStep ==
    ASSUME TypeOK, LaneOnly, [Next]_vars
    PROVE  LaneOnly'
<1> USE DEF Move, ledgerVars, laneVars, childVars, cancelVars, endVars
<1>1. ASSUME NEW j \in Job, Insert(j) PROVE LaneOnly'
  <2>1. UNCHANGED <<stage, running, queue>>
    BY <1>1 DEF Insert
  <2>2. \A k \in Job : request'[k] # "answered" => request[k] # "answered"
    <3>1. request[j] = "idle" /\ \A k \in Job : k # j => request'[k] = request[k]
      BY <1>1 DEF Insert, TypeOK
    <3> QED
      BY <3>1
  <2> QED
    BY <2>1, <2>2, LaneUnchanged
<1>2. ASSUME NEW j \in Job, Submit(j) PROVE LaneOnly'
  BY <1>2, SubmitKeepsLane
<1>3. ASSUME NEW j \in Job, Stop(j) \/ ChildLands(j) \/ ChildExits(j) PROVE LaneOnly'
  <2>1. UNCHANGED <<request, stage, running, queue>>
    BY <1>3 DEF Stop, StopLookup, StopKill, StopQueued, ChildLands, ChildExits
  <2> QED
    BY <2>1, LaneUnchanged
<1>4. ASSUME NEW j \in Job, Advance(j) PROVE LaneOnly'
  BY <1>4, AdvanceKeepsLane
<1>5. ASSUME NEW j \in Job, RunJob(j), ~Advance(j) PROVE LaneOnly'
  <2>1. UNCHANGED <<request, running, queue>>
    BY <1>5 DEF RunJob, Start, Claim, ClaimFails, CheckFlag, Spawn, SpawnFails, SetChild, Reap,
       ClearChild, Judge, Settle, Unregister, Finalize, FinalizeFails
  <2>2. PICK from \in {"dispatched"} \cup Active, to \in Active : stage[j] = from /\ stage' = [stage EXCEPT ![j] = to]
    BY <1>5 DEF RunJob, Start, Claim, ClaimFails, CheckFlag, Spawn, SpawnFails, SetChild, Reap,
       ClearChild, Judge, Settle, Unregister, Finalize, FinalizeFails, Active
  <2>3. InFlight(j)
    BY <2>2 DEF InFlight
  <2> QED
    BY <2>1, <2>2, <2>3, StaysInFlight
<1>6. CASE UNCHANGED vars
  BY <1>6, LaneUnchanged DEF vars
<1> QED
  BY <1>1, <1>2, <1>3, <1>4, <1>5, <1>6 DEF Next

-----------------------------------------------------------------------------
(* Scripts and rows. *)

LEMMA StepStep ==
    ASSUME TypeOK, LaneOnly, StepInv, [Next]_vars
    PROVE  StepInv'
<1> USE DEF Move, ledgerVars, laneVars, childVars, cancelVars, endVars
<1> DEFINE Fresh == {"none", "queued", "dispatched", "claiming"}
           Good(j) == /\ stage[j] \in Running => step[j] < Len(Script[j])
                      /\ stage[j] \in Fresh => step[j] = 0
<1> SUFFICES ASSUME NEW k \in Job PROVE Good(k)'
  BY DEF StepInv
<1>1. Good(k)
  BY DEF StepInv
<1>2. Len(Script[k]) \in Nat \ {0} /\ step[k] \in Nat
  BY ScriptFact DEF TypeOK
<1>3. CASE stage'[k] = stage[k] /\ step'[k] = step[k]
  BY <1>1, <1>3
<1>4. ASSUME NEW j \in Job, Submit(j) PROVE Good(k)'
  <2>1. step' = step /\ \A i \in Job : i # j => stage'[i] = stage[i]
    BY <1>4 DEF Submit, TypeOK
  <2>2. stage[j] = "none" /\ stage'[j] \in {"queued", "dispatched"}
    BY <1>4 DEF Submit, TypeOK, LaneOnly, Unsubmitted
  <2> QED
    BY <1>1, <2>1, <2>2 DEF Running
<1>5. ASSUME NEW j \in Job, Advance(j) PROVE Good(k)'
  <2>1. step' = step
    BY <1>5 DEF Advance
  <2>2. CASE stage' = [stage EXCEPT ![j] = "over"]
    BY <1>1, <2>1, <2>2 DEF TypeOK, Running
  <2>3. ASSUME RepoOf[j] \in running, queue[RepoOf[j]] # <<>>,
               stage' = [stage EXCEPT ![j] = "over", ![Head(queue[RepoOf[j]])] = "dispatched"]
        PROVE  Good(k)'
    <3>1. RepoOf[j] \in Repo /\ queue[RepoOf[j]] \in Seq(Job)
      BY <2>3 DEF TypeOK
    <3>2. Head(queue[RepoOf[j]]) = queue[RepoOf[j]][1] /\ 1 \in DOMAIN queue[RepoOf[j]] /\ queue[RepoOf[j]][1] \in Job
      BY <2>3, <3>1
    <3>3. PICK n \in Job : n = Head(queue[RepoOf[j]]) /\ n = queue[RepoOf[j]][1]
      BY <3>2
    <3>4. stage[n] = "queued"
      BY <3>1, <3>2, <3>3 DEF LaneOnly, Backlog
    <3>5. stage' = [stage EXCEPT ![j] = "over", ![n] = "dispatched"]
      BY <2>3, <3>3
    <3> QED
      BY <1>1, <2>1, <3>4, <3>5 DEF TypeOK, Running
  <2> QED
    BY <1>5, <2>2, <2>3 DEF Advance
<1>6. ASSUME NEW j \in Job, Judge(j) PROVE Good(k)'
  <2>1. CASE k # j
    BY <1>3, <1>6, <2>1 DEF Judge, TypeOK
  <2>2. CASE k = j /\ step' = step
    BY <1>6, <2>2 DEF Judge, TypeOK, Running
  <2>3. CASE k = j /\ step' = [step EXCEPT ![j] = @ + 1]
    <3>1. stage'[j] = "settling" \/ (MoreSteps(j) /\ stage'[j] = "ready")
      BY <1>6, <2>3 DEF Judge, TypeOK
    <3>2. step'[j] = step[j] + 1
      BY <2>3 DEF TypeOK
    <3> QED
      BY <2>3, <3>1, <3>2 DEF MoreSteps, Running
  <2> QED
    BY <1>6, <2>1, <2>2, <2>3 DEF Judge
<1>7. ASSUME NEW j \in Job, RunJob(j), ~Judge(j), ~Advance(j) PROVE Good(k)'
  <2>1. step' = step
    BY <1>7 DEF RunJob, Start, Claim, ClaimFails, CheckFlag, Spawn, SpawnFails, SetChild, Reap,
       ClearChild, Settle, Unregister, Finalize, FinalizeFails
  <2>2. PICK from \in {"dispatched"} \cup Active, to \in Active :
            /\ stage[j] = from /\ stage' = [stage EXCEPT ![j] = to]
            /\ to \in Running => from \in Running \cup {"claiming"}
            /\ to = "claiming" => from = "dispatched"
    BY <1>7 DEF RunJob, Start, Claim, ClaimFails, CheckFlag, Spawn, SpawnFails, SetChild, Reap,
       ClearChild, Settle, Unregister, Finalize, FinalizeFails, Active, Running
  <2>3. CASE k # j
    BY <1>3, <2>1, <2>2, <2>3 DEF TypeOK
  <2>4. CASE k = j
    <3>1. stage'[k] = to /\ stage[k] = from
      BY <2>2, <2>4 DEF TypeOK
    <3> QED
      BY <1>1, <1>2, <2>1, <2>2, <3>1 DEF Active
  <2> QED
    BY <2>3, <2>4
<1>8. ASSUME UNCHANGED <<stage, step>> PROVE Good(k)'
  BY <1>3, <1>8
<1>9. ASSUME NEW j \in Job, Insert(j) \/ Stop(j) \/ ChildLands(j) \/ ChildExits(j) PROVE Good(k)'
  <2>1. UNCHANGED <<stage, step>>
    BY <1>9 DEF Insert, Stop, StopLookup, StopKill, StopQueued, ChildLands, ChildExits
  <2> QED
    BY <1>8, <2>1
<1>10. CASE UNCHANGED vars
  BY <1>8, <1>10 DEF vars
<1> QED
  BY <1>4, <1>5, <1>6, <1>7, <1>9, <1>10 DEF Next

LEMMA RowInit == Init => RowInv
BY DEF Init, RowInv, Owning

(* The row changes only along its life, and RowInv stays. *)
LEMMA RowStep ==
    ASSUME TypeOK, LaneOnly, RowInv, [Next]_vars
    PROVE  /\ RowInv'
           /\ \A j \in Job : row'[j] # row[j] => <<row[j], row'[j]>> \in RowSteps
<1> USE DEF Move, ledgerVars, laneVars, childVars, cancelVars, endVars
<1> DEFINE Good(j) == /\ request[j] = "idle" => row[j] = "none"
                      /\ stage[j] \in Owning => row[j] = "running"
                      /\ stage[j] \in {"unregister", "finalizing"} => verdict[j] \in Terminal
           Legal(j) == row'[j] # row[j] => <<row[j], row'[j]>> \in RowSteps
<1> SUFFICES ASSUME NEW k \in Job PROVE Good(k)' /\ Legal(k)
  BY DEF RowInv
<1>1. Good(k)
  BY DEF RowInv
<1>2. ASSUME UNCHANGED <<row, verdict>>,
             request'[k] = "idle" => request[k] = "idle",
             stage'[k] \in Owning => stage[k] \in Owning,
             stage'[k] \in {"unregister", "finalizing"} => stage[k] \in {"unregister", "finalizing"}
      PROVE  Good(k)' /\ Legal(k)
  BY <1>1, <1>2
<1>3. ASSUME NEW j \in Job, Insert(j) PROVE Good(k)' /\ Legal(k)
  <2>1. stage' = stage /\ verdict' = verdict /\ request[j] = "idle" /\ request'[j] # "idle"
    BY <1>3 DEF Insert, TypeOK
  <2>2. row' = row \/ row' = [row EXCEPT ![j] = "queued"]
    BY <1>3 DEF Insert
  <2>3. \A i \in Job : i # j => request'[i] = request[i]
    BY <1>3 DEF Insert, TypeOK
  <2>4. stage[j] = "none"
    BY <2>1 DEF LaneOnly, Unsubmitted
  <2>5. CASE k # j
    <3>1. row'[k] = row[k]
      BY <2>2, <2>5 DEF TypeOK
    <3> QED
      BY <1>1, <2>1, <2>3, <2>5, <3>1
  <2>6. CASE k = j
    <3>1. row[k] = "none" /\ (row'[k] = "none" \/ row'[k] = "queued")
      BY <1>1, <2>1, <2>2, <2>6 DEF TypeOK
    <3> QED
      BY <2>1, <2>4, <2>6, <3>1 DEF Owning, RowSteps
  <2> QED
    BY <2>5, <2>6
<1>4. ASSUME NEW j \in Job, Submit(j) PROVE Good(k)' /\ Legal(k)
  <2>1. UNCHANGED <<row, verdict>>
    BY <1>4 DEF Submit
  <2>2. request'[k] = "idle" => request[k] = "idle"
    BY <1>4 DEF Submit, TypeOK
  <2>3. stage'[k] = stage[k] \/ stage'[k] \in {"queued", "dispatched"}
    BY <1>4 DEF Submit, TypeOK
  <2> QED
    BY <1>2, <2>1, <2>2, <2>3 DEF Owning
<1>5. ASSUME NEW j \in Job, StopQueued(j) PROVE Good(k)' /\ Legal(k)
  <2>1. stage' = stage /\ verdict' = verdict /\ request' = request
    BY <1>5 DEF StopQueued
  <2>2. row' = row \/ (row[j] = "queued" /\ row' = [row EXCEPT ![j] = "stopped"])
    BY <1>5 DEF StopQueued
  <2>3. row'[k] = row[k] \/ (row[k] = "queued" /\ row'[k] = "stopped")
    BY <2>2 DEF TypeOK
  <2> QED
    BY <1>1, <2>1, <2>3 DEF RowSteps
<1>6. ASSUME NEW j \in Job, Claim(j) PROVE Good(k)' /\ Legal(k)
  <2>1. /\ row[j] = "queued" /\ row' = [row EXCEPT ![j] = "running"]
        /\ request' = request /\ verdict' = verdict /\ stage' = [stage EXCEPT ![j] = "ready"]
    BY <1>6 DEF Claim, Claimable
  <2>2. CASE k # j
    BY <1>1, <2>1, <2>2 DEF TypeOK
  <2>3. CASE k = j
    <3>1. row'[k] = "running" /\ stage'[k] = "ready" /\ request'[k] # "idle"
      BY <1>1, <2>1, <2>3 DEF TypeOK
    <3> QED
      BY <2>1, <2>3, <3>1 DEF RowSteps
  <2> QED
    BY <2>2, <2>3
<1>7. ASSUME NEW j \in Job, Finalize(j) PROVE Good(k)' /\ Legal(k)
  <2>1. /\ row' = [row EXCEPT ![j] = verdict[j]] /\ stage[j] = "finalizing"
        /\ request' = request /\ verdict' = verdict /\ stage' = [stage EXCEPT ![j] = "advancing"]
    BY <1>7 DEF Finalize
  <2>2. CASE k # j
    BY <1>1, <2>1, <2>2 DEF TypeOK
  <2>3. CASE k = j
    <3>1. row[k] = "running" /\ row'[k] \in Terminal /\ stage'[k] = "advancing"
      BY <1>1, <2>1, <2>3 DEF TypeOK, Owning
    <3>2. request[k] # "idle"
      BY <1>1, <3>1
    <3> QED
      BY <2>1, <3>1, <3>2 DEF RowSteps, Owning
  <2> QED
    BY <2>2, <2>3
<1>8. ASSUME NEW j \in Job, Settle(j) PROVE Good(k)' /\ Legal(k)
  <2>1. /\ row' = row /\ request' = request /\ stage[j] = "settling"
        /\ stage' = [stage EXCEPT ![j] = "unregister"]
        /\ \E v \in Terminal : verdict' = [verdict EXCEPT ![j] = v]
    BY <1>8 DEF Settle, Terminal
  <2>2. CASE k # j
    BY <1>1, <2>1, <2>2 DEF TypeOK
  <2>3. CASE k = j
    <3>1. verdict'[k] \in Terminal /\ stage'[k] = "unregister" /\ stage[k] \in Owning
      BY <2>1, <2>3 DEF TypeOK, Owning
    <3> QED
      BY <1>1, <2>1, <3>1
  <2> QED
    BY <2>2, <2>3
<1>9. ASSUME NEW j \in Job, RunJob(j), ~Claim(j), ~Finalize(j), ~Settle(j), ~Advance(j)
      PROVE  Good(k)' /\ Legal(k)
  <2>1. UNCHANGED <<row, verdict, request>>
    BY <1>9 DEF RunJob, Start, ClaimFails, CheckFlag, Spawn, SpawnFails, SetChild, Reap,
       ClearChild, Judge, Unregister, FinalizeFails
  <2>2. PICK from \in {"dispatched"} \cup Active, to \in Active :
            /\ stage[j] = from /\ stage' = [stage EXCEPT ![j] = to]
            /\ to \in Owning => from \in Owning
            /\ to \in {"unregister", "finalizing"} => from \in {"unregister", "finalizing"}
    BY <1>9 DEF RunJob, Start, ClaimFails, CheckFlag, Spawn, SpawnFails, SetChild, Reap,
       ClearChild, Judge, Unregister, FinalizeFails, Active, Owning
  <2>3. CASE k # j
    <3>1. stage'[k] = stage[k]
      BY <2>2, <2>3 DEF TypeOK
    <3> QED
      BY <1>2, <2>1, <3>1
  <2>4. CASE k = j
    <3>1. stage[k] = from /\ stage'[k] = to
      BY <2>2, <2>4 DEF TypeOK
    <3> QED
      BY <1>2, <2>1, <2>2, <3>1
  <2> QED
    BY <2>3, <2>4
<1>10. ASSUME NEW j \in Job, Advance(j) PROVE Good(k)' /\ Legal(k)
  <2>1. UNCHANGED <<row, verdict, request>>
    BY <1>10 DEF Advance
  <2>2. \/ stage' = [stage EXCEPT ![j] = "over"]
        \/ stage' = [stage EXCEPT ![j] = "over", ![Head(queue[RepoOf[j]])] = "dispatched"]
    BY <1>10 DEF Advance
  <2>3. stage'[k] = stage[k] \/ stage'[k] \in {"over", "dispatched"}
    BY <2>2 DEF TypeOK
  <2> QED
    BY <1>2, <2>1, <2>3 DEF Owning
<1>11. ASSUME UNCHANGED <<row, verdict, request, stage>> PROVE Good(k)' /\ Legal(k)
  BY <1>2, <1>11
<1>12. ASSUME NEW j \in Job, StopLookup(j) \/ StopKill(j) \/ ChildLands(j) \/ ChildExits(j)
       PROVE  Good(k)' /\ Legal(k)
  <2>1. UNCHANGED <<row, verdict, request, stage>>
    BY <1>12 DEF StopLookup, StopKill, ChildLands, ChildExits
  <2> QED
    BY <1>11, <2>1
<1>13. CASE UNCHANGED vars
  BY <1>11, <1>13 DEF vars
<1> HIDE DEF Good, Legal
<1> QED
  BY <1>3, <1>4, <1>5, <1>6, <1>7, <1>8, <1>9, <1>10, <1>12, <1>13 DEF Next, Stop

-----------------------------------------------------------------------------
(* What a row says about the work, and what a stop ends. *)

(* The last command the repository has seen is the one that is over or the  *)
(* one that is being run; a child exists only while it is.                  *)
WorkInv ==
    \A j \in Job :
        /\ step[j] <= landed[j] /\ landed[j] <= step[j] + 1 /\ landed[j] <= Len(Script[j])
        /\ child[j] = "running" => stage[j] \in {"spawned", "waiting"}
        /\ child[j] # "none" => stage[j] \in {"spawned", "waiting", "reaped", "judging"}
        /\ child[j] = "succeeded" => landed[j] = step[j] + 1

(* No work before the claim, and none ever for a row stopped in its queue;  *)
(* a verdict or a row that says `done` comes after the last command, and a  *)
(* resulting commit after a commit command.                                 *)
TruthInv ==
    \A j \in Job :
        /\ row[j] \in {"none", "queued"} \/ (row[j] = "stopped" /\ verdict[j] = "none") =>
              step[j] = 0 /\ landed[j] = 0 /\ child[j] = "none"
        /\ verdict[j] = "done" \/ row[j] = "done" => step[j] = Len(Script[j])
        /\ verdict[j] # "none" => stage[j] \in {"unregister", "finalizing", "advancing", "over"}
        /\ j \in sha => \E k \in 1 .. step[j] : Script[j][k] = "commit"

(* An accepted stop has raised the flag, or stopped the row in its queue. *)
StopInv ==
    \A j \in Job :
        /\ stopper[j] = "cancelling" => j \in cancelled
        /\ stopper[j] = "accepted" => j \in cancelled \/ row[j] = "stopped"

(* k's submitter has waited for the number of j, a job of its repository. *)
Follows(k, j) == After[k] = j /\ RepoOf[k] = RepoOf[j] /\ RepoOf[j] # NoRepo

SessionInv ==
    /\ \A j \in Job : request[j] = "answered" => stage[j] # "none"
    /\ \A j \in Job : stage[j] = "queued" =>
          RepoOf[j] \in Repo /\ \E n \in DOMAIN queue[RepoOf[j]] : queue[RepoOf[j]][n] = j
    /\ \A j, k \in Job : Follows(k, j) =>
          /\ request[k] \in {"inserted", "answered"} => request[j] = "answered"
          /\ InFlight(k) => stage[j] = "over"
    /\ \A r \in Repo : \A m \in DOMAIN queue[r] : \A j \in Job : Follows(queue[r][m], j) =>
          stage[j] = "over" \/ InFlight(j) \/ \E n \in DOMAIN queue[r] : n < m /\ queue[r][n] = j

JobStep(j) ==
    Insert(j) \/ Submit(j) \/ Stop(j) \/ RunJob(j) \/ ChildLands(j) \/ ChildExits(j)

(* Where the step of a job leaves another job: as it was, or taken out of   *)
(* the queue by the one before it.                                          *)
LEMMA Others ==
    ASSUME TypeOK, LaneOnly, NEW j \in Job, JobStep(j), NEW k \in Job, k # j
    PROVE  /\ step'[k] = step[k] /\ landed'[k] = landed[k] /\ child'[k] = child[k]
           /\ row'[k] = row[k] /\ verdict'[k] = verdict[k] /\ stopper'[k] = stopper[k]
           /\ request'[k] = request[k]
           /\ (k \in cancelled' <=> k \in cancelled) /\ (k \in sha' <=> k \in sha)
           /\ stage'[k] = stage[k] \/ (stage[k] = "queued" /\ stage'[k] = "dispatched")
<1> USE DEF Move, DbFails, ledgerVars, laneVars, childVars, cancelVars, endVars
<1>0. /\ request \in [Job -> {"idle", "inserted", "answered", "refused"}]
      /\ row \in [Job -> {"none", "queued", "running"} \cup Terminal]
      /\ stage \in [Job -> Stage] /\ step \in [Job -> Nat] /\ landed \in [Job -> Nat]
      /\ child \in [Job -> {"none", "running", "succeeded", "failed", "killed"}]
      /\ verdict \in [Job -> {"none"} \cup Terminal]
      /\ stopper \in [Job -> {"idle", "missed", "cancelling", "accepted", "refused"}]
  BY DEF TypeOK
<1>1. CASE Insert(j)
  BY <1>1, <1>0 DEF Insert
<1>2. CASE Submit(j)
  BY <1>2, <1>0 DEF Submit
<1>3. CASE StopLookup(j)
  BY <1>3, <1>0 DEF StopLookup
<1>4. CASE StopKill(j)
  BY <1>4, <1>0 DEF StopKill
<1>5. CASE StopQueued(j)
  BY <1>5, <1>0 DEF StopQueued
<1>6. CASE Start(j)
  BY <1>6, <1>0 DEF Start
<1>7. CASE Claim(j)
  BY <1>7, <1>0 DEF Claim
<1>8. CASE ClaimFails(j)
  BY <1>8, <1>0 DEF ClaimFails
<1>9. CASE CheckFlag(j)
  BY <1>9, <1>0 DEF CheckFlag
<1>10. CASE Spawn(j)
  BY <1>10, <1>0 DEF Spawn
<1>11. CASE SpawnFails(j)
  BY <1>11, <1>0 DEF SpawnFails
<1>12. CASE SetChild(j)
  BY <1>12, <1>0 DEF SetChild
<1>13. CASE Reap(j)
  BY <1>13, <1>0 DEF Reap
<1>14. CASE ClearChild(j)
  BY <1>14, <1>0 DEF ClearChild
<1>15. CASE Judge(j)
  BY <1>15, <1>0 DEF Judge
<1>16. CASE Settle(j)
  BY <1>16, <1>0 DEF Settle
<1>17. CASE Unregister(j)
  BY <1>17, <1>0 DEF Unregister
<1>18. CASE Finalize(j)
  BY <1>18, <1>0 DEF Finalize
<1>19. CASE FinalizeFails(j)
  BY <1>19, <1>0 DEF FinalizeFails
<1>20. CASE Advance(j)
  <2>1. UNCHANGED <<step, landed, child, row, verdict, stopper, request, cancelled, sha>>
    BY <1>20 DEF Advance
  <2>2. CASE stage' = [stage EXCEPT ![j] = "over"]
    BY <1>0, <2>1, <2>2
  <2>3. ASSUME RepoOf[j] \in running, queue[RepoOf[j]] # <<>>,
               stage' = [stage EXCEPT ![j] = "over", ![Head(queue[RepoOf[j]])] = "dispatched"]
        PROVE  stage'[k] = stage[k] \/ (stage[k] = "queued" /\ stage'[k] = "dispatched")
    <3>1. RepoOf[j] \in Repo /\ queue[RepoOf[j]] \in Seq(Job)
      BY <2>3 DEF TypeOK
    <3>2. Head(queue[RepoOf[j]]) = queue[RepoOf[j]][1] /\ 1 \in DOMAIN queue[RepoOf[j]]
      BY <2>3, <3>1
    <3>3. stage[Head(queue[RepoOf[j]])] = "queued"
      BY <3>1, <3>2 DEF LaneOnly, Backlog
    <3> QED BY <1>0, <2>3, <3>3
  <2> QED BY <1>0, <1>20, <2>1, <2>2, <2>3 DEF Advance
<1>21. CASE ChildLands(j)
  BY <1>21, <1>0 DEF ChildLands
<1>22. CASE ChildExits(j)
  BY <1>22, <1>0 DEF ChildExits
<1> QED BY <1>1, <1>2, <1>3, <1>4, <1>5, <1>6, <1>7, <1>8, <1>9, <1>10, <1>11, <1>12, <1>13, <1>14, <1>15, <1>16, <1>17, <1>18, <1>19, <1>20, <1>21, <1>22 DEF JobStep, Stop, RunJob

LEMMA OwnWork ==
    ASSUME TypeOK, LaneOnly, StepInv, RowInv, WorkInv, NEW j \in Job, JobStep(j)
    PROVE  /\ step'[j] <= landed'[j] /\ landed'[j] <= step'[j] + 1 /\ landed'[j] <= Len(Script[j])
           /\ child'[j] = "running" => stage'[j] \in {"spawned", "waiting"}
           /\ child'[j] # "none" => stage'[j] \in {"spawned", "waiting", "reaped", "judging"}
           /\ child'[j] = "succeeded" => landed'[j] = step'[j] + 1
<1> USE DEF Move, DbFails, ledgerVars, laneVars, childVars, cancelVars, endVars
<1>0. /\ stage \in [Job -> Stage] /\ step \in [Job -> Nat] /\ landed \in [Job -> Nat]
      /\ child \in [Job -> {"none", "running", "succeeded", "failed", "killed"}]
      /\ step[j] <= landed[j] /\ landed[j] <= step[j] + 1 /\ landed[j] <= Len(Script[j])
      /\ child[j] = "running" => stage[j] \in {"spawned", "waiting"}
      /\ child[j] # "none" => stage[j] \in {"spawned", "waiting", "reaped", "judging"}
      /\ child[j] = "succeeded" => landed[j] = step[j] + 1
      /\ Len(Script[j]) \in Nat /\ (stage[j] \in {"spawned", "waiting", "reaped", "judging"} => step[j] < Len(Script[j]))
  BY ScriptFact DEF TypeOK, WorkInv, StepInv, Running
<1>1. CASE Insert(j)
  BY <1>1, <1>0 DEF Insert
<1>2. CASE Submit(j)
  BY <1>2, <1>0 DEF Submit, LaneOnly, Unsubmitted, TypeOK
<1>3. CASE StopLookup(j)
  BY <1>3, <1>0 DEF StopLookup
<1>4. CASE StopKill(j)
  BY <1>4, <1>0 DEF StopKill
<1>5. CASE StopQueued(j)
  BY <1>5, <1>0 DEF StopQueued
<1>6. CASE Start(j)
  BY <1>6, <1>0 DEF Start
<1>7. CASE Claim(j)
  BY <1>7, <1>0 DEF Claim
<1>8. CASE ClaimFails(j)
  BY <1>8, <1>0 DEF ClaimFails
<1>9. CASE CheckFlag(j)
  BY <1>9, <1>0 DEF CheckFlag
<1>10. CASE Spawn(j)
  BY <1>10, <1>0 DEF Spawn
<1>11. CASE SpawnFails(j)
  BY <1>11, <1>0 DEF SpawnFails
<1>12. CASE SetChild(j)
  BY <1>12, <1>0 DEF SetChild
<1>13. CASE Reap(j)
  BY <1>13, <1>0 DEF Reap
<1>14. CASE ClearChild(j)
  BY <1>14, <1>0 DEF ClearChild
<1>15. CASE Judge(j)
  BY <1>15, <1>0 DEF Judge, Succeeded
<1>16. CASE Settle(j)
  BY <1>16, <1>0 DEF Settle
<1>17. CASE Unregister(j)
  BY <1>17, <1>0 DEF Unregister
<1>18. CASE Finalize(j)
  BY <1>18, <1>0 DEF Finalize
<1>19. CASE FinalizeFails(j)
  BY <1>19, <1>0 DEF FinalizeFails
<1>20. CASE Advance(j)
  BY <1>20, <1>0 DEF Advance
<1>21. CASE ChildLands(j)
  BY <1>21, <1>0 DEF ChildLands
<1>22. CASE ChildExits(j)
  BY <1>22, <1>0 DEF ChildExits
<1> QED BY <1>1, <1>2, <1>3, <1>4, <1>5, <1>6, <1>7, <1>8, <1>9, <1>10, <1>11, <1>12, <1>13, <1>14, <1>15, <1>16, <1>17, <1>18, <1>19, <1>20, <1>21, <1>22 DEF JobStep, Stop, RunJob

LEMMA WorkStep ==
    ASSUME TypeOK, LaneOnly, StepInv, RowInv, WorkInv, [Next]_vars
    PROVE  WorkInv'
<1> USE DEF Move, DbFails, ledgerVars, laneVars, childVars, cancelVars, endVars
<1> DEFINE Good(k) == /\ step[k] <= landed[k] /\ landed[k] <= step[k] + 1 /\ landed[k] <= Len(Script[k])
                      /\ child[k] = "running" => stage[k] \in {"spawned", "waiting"}
                      /\ child[k] # "none" => stage[k] \in {"spawned", "waiting", "reaped", "judging"}
                      /\ child[k] = "succeeded" => landed[k] = step[k] + 1
<1>a. CASE UNCHANGED vars
  BY <1>a DEF WorkInv, vars
<1>b. ASSUME NEW j \in Job, JobStep(j) PROVE WorkInv'
  <2>1. ASSUME NEW k \in Job, k # j PROVE Good(k)'
    BY <1>b, <2>1, Others DEF WorkInv
  <2>2. Good(j)'
    BY <1>b, OwnWork DEF WorkInv
  <2> QED BY <2>1, <2>2 DEF WorkInv
<1> QED BY <1>a, <1>b DEF Next, JobStep

LEMMA OwnTruth ==
    ASSUME TypeOK, LaneOnly, StepInv, RowInv, WorkInv, TruthInv, NEW j \in Job, JobStep(j)
    PROVE  /\ row'[j] \in {"none", "queued"} \/ (row'[j] = "stopped" /\ verdict'[j] = "none") =>
                 step'[j] = 0 /\ landed'[j] = 0 /\ child'[j] = "none"
           /\ verdict'[j] = "done" \/ row'[j] = "done" => step'[j] = Len(Script[j])
           /\ verdict'[j] # "none" => stage'[j] \in {"unregister", "finalizing", "advancing", "over"}
           /\ j \in sha' => \E k \in 1 .. step'[j] : Script[j][k] = "commit"
<1> USE DEF Move, DbFails, ledgerVars, laneVars, childVars, cancelVars, endVars, Owning
<1>0. /\ stage \in [Job -> Stage] /\ step \in [Job -> Nat] /\ landed \in [Job -> Nat]
      /\ child \in [Job -> {"none", "running", "succeeded", "failed", "killed"}]
      /\ row \in [Job -> {"none", "queued", "running"} \cup Terminal]
      /\ verdict \in [Job -> {"none"} \cup Terminal]
      /\ stage[j] \in Owning => row[j] = "running"
      /\ stage[j] \in {"unregister", "finalizing"} => verdict[j] \in Terminal
      /\ child[j] = "running" => stage[j] \in {"spawned", "waiting"}
      /\ child[j] # "none" => stage[j] \in {"spawned", "waiting", "reaped", "judging"}
      /\ Len(Script[j]) \in Nat /\ (stage[j] \in Running => step[j] < Len(Script[j]))
      /\ request[j] = "idle" => row[j] = "none"
      /\ row[j] \in {"none", "queued"} \/ (row[j] = "stopped" /\ verdict[j] = "none") =>
            step[j] = 0 /\ landed[j] = 0 /\ child[j] = "none"
      /\ verdict[j] = "done" \/ row[j] = "done" => step[j] = Len(Script[j])
      /\ verdict[j] # "none" => stage[j] \in {"unregister", "finalizing", "advancing", "over"}
      /\ j \in sha => \E k \in 1 .. step[j] : Script[j][k] = "commit"
  BY ScriptFact DEF TypeOK, WorkInv, StepInv, RowInv, TruthInv
<1>1. CASE Insert(j)
  BY <1>1, <1>0 DEF Insert
<1>2. CASE Submit(j)
  BY <1>2, <1>0 DEF Submit, LaneOnly, Unsubmitted
<1>3. CASE StopLookup(j)
  BY <1>3, <1>0 DEF StopLookup
<1>4. CASE StopKill(j)
  BY <1>4, <1>0 DEF StopKill
<1>5. CASE StopQueued(j)
  BY <1>5, <1>0 DEF StopQueued, Terminal
<1>6. CASE Start(j)
  BY <1>6, <1>0 DEF Start
<1>7. CASE Claim(j)
  BY <1>7, <1>0 DEF Claim, Claimable
<1>8. CASE ClaimFails(j)
  BY <1>8, <1>0 DEF ClaimFails
<1>9. CASE CheckFlag(j)
  BY <1>9, <1>0 DEF CheckFlag
<1>10. CASE Spawn(j)
  BY <1>10, <1>0 DEF Spawn
<1>11. CASE SpawnFails(j)
  BY <1>11, <1>0 DEF SpawnFails
<1>12. CASE SetChild(j)
  BY <1>12, <1>0 DEF SetChild
<1>13. CASE Reap(j)
  BY <1>13, <1>0 DEF Reap
<1>14. CASE ClearChild(j)
  BY <1>14, <1>0 DEF ClearChild
<1>15. CASE Judge(j)
  BY <1>15, <1>0 DEF Judge, Succeeded, Running, Terminal
<1>16. CASE Settle(j)
  BY <1>16, <1>0 DEF Settle, Terminal, Running
<1>17. CASE Unregister(j)
  BY <1>17, <1>0 DEF Unregister
<1>18. CASE Finalize(j)
  BY <1>18, <1>0 DEF Finalize, CommitOk, Terminal
<1>19. CASE FinalizeFails(j)
  BY <1>19, <1>0 DEF FinalizeFails
<1>20. CASE Advance(j)
  BY <1>20, <1>0 DEF Advance
<1>21. CASE ChildLands(j)
  BY <1>21, <1>0 DEF ChildLands
<1>22. CASE ChildExits(j)
  BY <1>22, <1>0 DEF ChildExits
<1> QED BY <1>1, <1>2, <1>3, <1>4, <1>5, <1>6, <1>7, <1>8, <1>9, <1>10, <1>11, <1>12, <1>13, <1>14, <1>15, <1>16, <1>17, <1>18, <1>19, <1>20, <1>21, <1>22 DEF JobStep, Stop, RunJob

LEMMA TruthStep ==
    ASSUME TypeOK, LaneOnly, StepInv, RowInv, WorkInv, TruthInv, [Next]_vars
    PROVE  TruthInv'
<1>1. CASE UNCHANGED vars
  BY <1>1 DEF TruthInv, vars, ledgerVars, childVars, endVars
<1>2. ASSUME NEW j \in Job, JobStep(j) PROVE TruthInv'
  <2> DEFINE Good(k) ==
        /\ row[k] \in {"none", "queued"} \/ (row[k] = "stopped" /\ verdict[k] = "none") =>
              step[k] = 0 /\ landed[k] = 0 /\ child[k] = "none"
        /\ verdict[k] = "done" \/ row[k] = "done" => step[k] = Len(Script[k])
        /\ verdict[k] # "none" => stage[k] \in {"unregister", "finalizing", "advancing", "over"}
        /\ k \in sha => \E m \in 1 .. step[k] : Script[k][m] = "commit"
  <2>1. ASSUME NEW k \in Job, k # j PROVE Good(k)'
    <3>1. Good(k)
      BY DEF TruthInv
    <3> QED BY <1>2, <2>1, <3>1, Others
  <2>2. Good(j)'
    BY <1>2, OwnTruth
  <2> QED BY <2>1, <2>2 DEF TruthInv
<1> QED BY <1>1, <1>2 DEF Next, JobStep

(* An accepted stop keeps its hold on the job, and a command is counted     *)
(* only while nobody has one.                                               *)
LEMMA StopStep ==
    ASSUME TypeOK, LaneOnly, RowInv, StopInv, [Next]_vars
    PROVE  /\ StopInv'
           /\ \A j \in Job : stopper[j] = "accepted" => step'[j] = step[j]
<1> USE DEF Move, DbFails, ledgerVars, laneVars, childVars, cancelVars, endVars
<1>1. CASE UNCHANGED vars
  BY <1>1 DEF StopInv, vars
<1>2. ASSUME NEW j \in Job, JobStep(j)
      PROVE  StopInv' /\ \A k \in Job : stopper[k] = "accepted" => step'[k] = step[k]
  <2> DEFINE Good(k) == /\ stopper[k] = "cancelling" => k \in cancelled
                        /\ stopper[k] = "accepted" => k \in cancelled \/ row[k] = "stopped"
  <2>1. ASSUME NEW k \in Job, k # j PROVE Good(k)' /\ step'[k] = step[k]
    <3>1. Good(k)
      BY DEF StopInv
    <3> QED BY <1>2, <2>1, <3>1, Others
  <2>2. Good(j) /\ (row[j] = "stopped" => row'[j] = "stopped")
    <3>1. row'[j] # row[j] => <<row[j], row'[j]>> \in RowSteps
      BY <1>2, RowStep DEF Next, JobStep
    <3>2. row[j] = "stopped" => row'[j] = "stopped"
      BY <3>1 DEF RowSteps
    <3> QED BY <3>2 DEF StopInv
  <2>3. CASE StopLookup(j) \/ StopKill(j) \/ StopQueued(j)
    <3>1. step' = step
      BY <2>3 DEF StopLookup, StopKill, StopQueued
    <3>2. Good(j)'
      BY <2>2, <2>3 DEF StopLookup, StopKill, StopQueued, TypeOK
    <3> QED BY <2>1, <3>1, <3>2 DEF StopInv
  <2>4. CASE ~(StopLookup(j) \/ StopKill(j) \/ StopQueued(j))
    <3>1. stopper' = stopper /\ cancelled' = cancelled
      BY <1>2, <2>4 DEF JobStep, Stop, RunJob, Insert, Submit, Start, Claim, ClaimFails, CheckFlag, Spawn,
         SpawnFails, SetChild, Reap, ClearChild, Judge, Settle, Unregister, Finalize, FinalizeFails,
         Advance, ChildLands, ChildExits
    <3>2. Good(j)'
      BY <2>2, <3>1
    <3>3. stopper[j] = "accepted" => step'[j] = step[j]
      <4>1. CASE Judge(j)
        <5>1. stage[j] = "judging" /\ row[j] = "running"
          BY <4>1 DEF Judge, RowInv, Owning
        <5>2. stopper[j] = "accepted" => ~Succeeded(j)
          BY <2>2, <5>1 DEF Succeeded
        <5> QED BY <4>1, <5>2 DEF Judge
      <4>2. CASE ~Judge(j)
        <5>1. step' = step
          BY <1>2, <2>4, <4>2 DEF JobStep, Stop, RunJob, Insert, Submit, Start, Claim, ClaimFails, CheckFlag,
             Spawn, SpawnFails, SetChild, Reap, ClearChild, Settle, Unregister, Finalize, FinalizeFails,
             Advance, ChildLands, ChildExits
        <5> QED BY <5>1
      <4> QED BY <4>1, <4>2
    <3> QED BY <2>1, <3>2, <3>3 DEF StopInv
  <2> QED BY <2>3, <2>4
<1> QED BY <1>1, <1>2 DEF Next, JobStep

-----------------------------------------------------------------------------
(* Sessions. *)

(* Steps that leave the requests alone and move no job between queue, pool  *)
(* and end.                                                                 *)
LEMMA SessionUnmoved ==
    ASSUME TypeOK, SessionInv, UNCHANGED <<request, queue>>,
           \A j \in Job : InFlight(j)' <=> InFlight(j),
           \A j \in Job : stage[j] \in {"none", "queued", "over"} \/ stage'[j] \in {"none", "queued", "over"}
                            => stage'[j] = stage[j]
    PROVE  SessionInv'
<1>1. \A r \in Repo : \A k \in DOMAIN queue[r] : queue[r][k] \in Job
  BY DEF TypeOK
<1>2. \A j \in Job : request[j] = "answered" => stage'[j] # "none"
  BY DEF SessionInv
<1>3. \A j \in Job : stage'[j] = "queued" =>
        RepoOf[j] \in Repo /\ \E n \in DOMAIN queue[RepoOf[j]] : queue[RepoOf[j]][n] = j
  BY DEF SessionInv
<1>4. \A j, k \in Job : Follows(k, j) /\ InFlight(k)' => stage'[j] = "over"
  BY DEF SessionInv
<1>5. \A r \in Repo : \A m \in DOMAIN queue[r] : \A j \in Job : Follows(queue[r][m], j) =>
          stage'[j] = "over" \/ InFlight(j)' \/ \E n \in DOMAIN queue[r] : n < m /\ queue[r][n] = j
  BY DEF SessionInv
<1> QED BY <1>1, <1>2, <1>3, <1>4, <1>5 DEF SessionInv, Follows

LEMMA SessionInsert ==
    ASSUME TypeOK, LaneOnly, SessionInv, NEW j \in Job, Insert(j)
    PROVE  SessionInv'
<1>1. /\ UNCHANGED <<stage, queue>> /\ request[j] = "idle" /\ request'[j] \in {"inserted", "refused"}
      /\ \A k \in Job : k # j => request'[k] = request[k]
      /\ After[j] # NoJob => request[After[j]] = "answered"
  BY DEF Insert, TypeOK, laneVars
<1>2. \A k \in Job : InFlight(k)' <=> InFlight(k)
  BY <1>1 DEF InFlight
<1>3. \A i \in Job : request[i] = "answered" => i # j /\ request'[i] = "answered"
  BY <1>1
<1>4. ASSUME NEW i \in Job, NEW k \in Job, Follows(k, i), request'[k] \in {"inserted", "answered"}
      PROVE  request'[i] = "answered"
  <2>1. CASE k = j
    <3>1. After[j] = i /\ After[j] # NoJob
      BY <1>4, <2>1, PoolAssumption DEF Follows
    <3> QED BY <1>1, <1>3, <3>1
  <2>2. CASE k # j
    BY <1>1, <1>3, <1>4, <2>2 DEF SessionInv
  <2> QED BY <2>1, <2>2
<1>5. \A i \in Job : request'[i] = "answered" => request[i] = "answered"
  BY <1>1
<1>6. \A i, k \in Job : Follows(k, i)' = Follows(k, i)
  BY DEF Follows
<1> QED BY <1>1, <1>2, <1>4, <1>5 DEF SessionInv, Follows

LEMMA SessionSubmit ==
    ASSUME TypeOK, LaneOnly, SessionInv, NEW j \in Job, Submit(j)
    PROVE  SessionInv'
<1> DEFINE r == RepoOf[j]
<1>1. r \in Repo \cup {NoRepo} /\ NoRepo \notin Repo
  BY PoolAssumption
<1>2. /\ request[j] = "inserted" /\ stage[j] = "none" /\ ~InFlight(j)
      /\ request'[j] = "answered"
      /\ \A k \in Job : k # j => request'[k] = request[k] /\ stage'[k] = stage[k]
  BY DEF Submit, LaneOnly, Unsubmitted, InFlight, Active, TypeOK
<1>3. \A k \in Job : k # j => (InFlight(k)' <=> InFlight(k))
  BY <1>2 DEF InFlight
<1>4. stage'[j] \in {"queued", "dispatched"}
  BY DEF Submit, TypeOK
<1>5. \A i \in Job : request'[i] = "answered" => stage'[i] # "none"
  BY <1>2, <1>4 DEF SessionInv
<1>6. \A i, k \in Job : Follows(k, i) /\ request'[k] \in {"inserted", "answered"} => request'[i] = "answered"
  BY <1>2 DEF SessionInv
(* Nobody who waited for j has been inserted. *)
<1>7. \A k \in Job : Follows(k, j) => request[k] \notin {"inserted", "answered"} /\ stage[k] = "none"
  <2>1. \A k \in Job : Follows(k, j) => request[k] \notin {"inserted", "answered"}
    BY <1>2 DEF SessionInv
  <2> QED BY <2>1 DEF LaneOnly, Unsubmitted
<1>8. ~Follows(j, j)
  BY <1>2, <1>7
(* Whoever j waited for is over, in flight, or queued. *)
<1>9. \A i \in Job : Follows(j, i) => i # j /\ (stage[i] = "over" \/ InFlight(i) \/ stage[i] = "queued")
  <2> SUFFICES ASSUME NEW i \in Job, Follows(j, i)
               PROVE  i # j /\ (stage[i] = "over" \/ InFlight(i) \/ stage[i] = "queued")
    OBVIOUS
  <2>1. i # j /\ request[i] = "answered" /\ stage[i] # "none" /\ stage[i] \in Stage
    BY <1>2, <1>8 DEF SessionInv, TypeOK
  <2> QED BY <2>1 DEF Stage, InFlight
<1>10. \A q \in Repo : \A k \in DOMAIN queue[q] : queue[q][k] \in Job /\ queue[q][k] # j
  BY <1>2 DEF TypeOK, LaneOnly, Backlog
<1>11. CASE r = NoRepo \/ r \notin running
  <2>1. queue' = queue /\ stage'[j] = "dispatched" /\ InFlight(j)'
    BY <1>11 DEF Submit, LaneFree, TypeOK, InFlight
  <2>2. \A i \in Job : Follows(j, i) => stage'[i] = "over"
    <3> SUFFICES ASSUME NEW i \in Job, Follows(j, i) PROVE stage'[i] = "over"
      OBVIOUS
    <3>1. r \in Repo /\ r \notin running /\ RepoOf[i] = r
      BY <1>1, <1>11 DEF Follows
    <3>2. ~InFlight(i) /\ queue[r] = <<>>
      BY <3>1 DEF LaneOnly, LaneMoves
    <3>3. stage[i] # "queued"
      BY <3>1, <3>2 DEF SessionInv
    <3> QED BY <1>2, <1>9, <3>2, <3>3
  <2>3. \A i, k \in Job : Follows(k, i) /\ InFlight(k)' => stage'[i] = "over"
    <3> SUFFICES ASSUME NEW i \in Job, NEW k \in Job, Follows(k, i), InFlight(k)' PROVE stage'[i] = "over"
      OBVIOUS
    <3>1. CASE k = j
      BY <2>2, <3>1
    <3>2. CASE k # j
      <4>1. stage[i] = "over"
        BY <1>3, <3>2 DEF SessionInv
      <4> QED BY <1>2, <4>1
    <3> QED BY <3>1, <3>2
  <2>4. \A i \in Job : stage'[i] = "queued" =>
          RepoOf[i] \in Repo /\ \E n \in DOMAIN queue[RepoOf[i]] : queue[RepoOf[i]][n] = i
    BY <1>2, <2>1 DEF SessionInv
  <2>5. \A q \in Repo : \A m \in DOMAIN queue[q] : \A i \in Job : Follows(queue[q][m], i) =>
          stage'[i] = "over" \/ InFlight(i)' \/ \E n \in DOMAIN queue[q] : n < m /\ queue[q][n] = i
    BY <1>2, <1>3, <2>1 DEF SessionInv
  <2> QED BY <1>5, <1>6, <2>1, <2>3, <2>4, <2>5 DEF SessionInv, Follows
<1>12. CASE r # NoRepo /\ r \in running
  <2> DEFINE s == queue[r]
             t == Append(s, j)
  <2>1. r \in Repo /\ s \in Seq(Job) /\ stage'[j] = "queued" /\ queue' = [queue EXCEPT ![r] = t]
    BY <1>1, <1>12 DEF Submit, LaneFree, Enqueue, TypeOK
  <2>2. queue'[r] = t /\ \A q \in Repo : q # r => queue'[q] = queue[q]
    BY <2>1 DEF TypeOK
  <2>3. /\ Len(s) \in Nat /\ DOMAIN s = 1 .. Len(s) /\ DOMAIN t = 1 .. Len(s) + 1
        /\ t[Len(s) + 1] = j /\ \A n \in DOMAIN s : n \in DOMAIN t /\ t[n] = s[n]
    BY <2>1
  <2>4. ~InFlight(j)'
    BY <2>1 DEF InFlight, Active
  <2>5. \A i, k \in Job : Follows(k, i) /\ InFlight(k)' => stage'[i] = "over"
    <3> SUFFICES ASSUME NEW i \in Job, NEW k \in Job, Follows(k, i), InFlight(k)' PROVE stage'[i] = "over"
      OBVIOUS
    <3>1. k # j /\ InFlight(k)
      BY <1>3, <2>4
    <3>2. stage[i] = "over"
      BY <3>1 DEF SessionInv
    <3> QED BY <1>2, <3>2
  <2>6. ASSUME NEW i \in Job, stage'[i] = "queued"
        PROVE  RepoOf[i] \in Repo /\ \E n \in DOMAIN queue'[RepoOf[i]] : queue'[RepoOf[i]][n] = i
    <3>1. CASE i = j
      <4>1. Len(s) + 1 \in DOMAIN queue'[r] /\ queue'[r][Len(s) + 1] = j
        BY <2>2, <2>3
      <4> QED BY <2>1, <3>1, <4>1
    <3>2. CASE i # j
      <4>1. RepoOf[i] \in Repo /\ \E n \in DOMAIN queue[RepoOf[i]] : queue[RepoOf[i]][n] = i
        BY <1>2, <2>6, <3>2 DEF SessionInv
      <4> QED BY <2>2, <2>3, <4>1
    <3> QED BY <3>1, <3>2
  <2>7. ASSUME NEW q \in Repo, NEW m \in DOMAIN queue'[q], NEW i \in Job, Follows(queue'[q][m], i)
        PROVE  stage'[i] = "over" \/ InFlight(i)' \/ \E n \in DOMAIN queue'[q] : n < m /\ queue'[q][n] = i
    <3>1. CASE q # r \/ m \in DOMAIN s
      <4>1. m \in DOMAIN queue[q] /\ queue'[q][m] = queue[q][m]
        BY <2>2, <2>3, <3>1
      <4>2. i # j
        BY <1>7, <1>10, <2>7, <4>1 DEF LaneOnly, Backlog
      <4>3. stage[i] = "over" \/ InFlight(i) \/ \E n \in DOMAIN queue[q] : n < m /\ queue[q][n] = i
        BY <2>7, <4>1 DEF SessionInv
      <4> QED BY <1>2, <1>3, <2>2, <2>3, <4>2, <4>3
    <3>2. CASE q = r /\ m \notin DOMAIN s
      <4>1. m = Len(s) + 1 /\ queue'[q][m] = j
        BY <2>2, <2>3, <3>2
      <4>2. i # j /\ (stage[i] = "over" \/ InFlight(i) \/ stage[i] = "queued") /\ RepoOf[i] = r
        BY <1>9, <2>7, <4>1 DEF Follows
      <4>3. CASE stage[i] = "queued"
        <5>1. PICK n \in DOMAIN s : s[n] = i
          BY <4>2, <4>3 DEF SessionInv
        <5>2. n < m /\ n \in DOMAIN queue'[q] /\ queue'[q][n] = i
          BY <2>2, <2>3, <3>2, <4>1, <5>1
        <5> QED BY <5>2
      <4> QED BY <1>2, <1>3, <4>2, <4>3
    <3> QED BY <3>1, <3>2
  <2> QED BY <1>5, <1>6, <2>5, <2>6, <2>7 DEF SessionInv, Follows
<1> QED BY <1>1, <1>11, <1>12

LEMMA SessionAdvance ==
    ASSUME TypeOK, LaneOnly, SessionInv, NEW j \in Job, Advance(j)
    PROVE  SessionInv'
<1> DEFINE r == RepoOf[j]
<1>1. r \in Repo \cup {NoRepo} /\ NoRepo \notin Repo /\ request' = request
  BY PoolAssumption DEF Advance
<1>2. stage[j] = "advancing" /\ InFlight(j)
  BY DEF Advance, InFlight, Active
<1>3. \A q \in Repo : \A k \in DOMAIN queue[q] :
         queue[q][k] \in Job /\ queue[q][k] # j /\ stage[queue[q][k]] = "queued" /\ RepoOf[queue[q][k]] = q
  BY <1>2 DEF TypeOK, LaneOnly, Backlog
<1>4. CASE r \notin running \/ queue[r] = <<>>
  <2>1. queue' = queue /\ stage' = [stage EXCEPT ![j] = "over"]
    BY <1>4 DEF Advance, Advances, laneVars
  <2>2. stage'[j] = "over" /\ \A k \in Job : k # j => stage'[k] = stage[k]
    BY <2>1 DEF TypeOK
  <2>3. ~InFlight(j)' /\ \A k \in Job : k # j => (InFlight(k)' <=> InFlight(k))
    BY <2>2 DEF InFlight, Active
  <2>4. \A i \in Job : request[i] = "answered" => stage'[i] # "none"
    BY <2>2 DEF SessionInv
  <2>5. \A i \in Job : stage'[i] = "queued" =>
          RepoOf[i] \in Repo /\ \E n \in DOMAIN queue[RepoOf[i]] : queue[RepoOf[i]][n] = i
    BY <2>2 DEF SessionInv
  <2>6. \A i, k \in Job : Follows(k, i) /\ InFlight(k)' => stage'[i] = "over"
    BY <2>2, <2>3 DEF SessionInv
  <2>7. \A q \in Repo : \A m \in DOMAIN queue[q] : \A i \in Job : Follows(queue[q][m], i) =>
          stage'[i] = "over" \/ InFlight(i)' \/ \E n \in DOMAIN queue[q] : n < m /\ queue[q][n] = i
    BY <2>2, <2>3 DEF SessionInv
  <2>8. \A i, k \in Job : Follows(k, i) /\ request[k] \in {"inserted", "answered"} => request[i] = "answered"
    BY DEF SessionInv
  <2> QED BY <1>1, <2>1, <2>4, <2>5, <2>6, <2>7, <2>8 DEF SessionInv, Follows
<1>5. CASE r \in running /\ queue[r] # <<>>
  <2> DEFINE s == queue[r]
             t == Tail(s)
  <2>1. r \in Repo /\ s \in Seq(Job) /\ s # <<>>
    BY <1>5 DEF TypeOK
  <2>2. /\ Len(s) \in Nat \ {0} /\ DOMAIN s = 1 .. Len(s) /\ DOMAIN t = 1 .. Len(s) - 1
        /\ 1 \in DOMAIN s /\ Head(s) = s[1] /\ s[1] \in Job
        /\ \A i \in 1 .. Len(s) - 1 : t[i] = s[i + 1]
    BY <2>1
  <2>3. PICK n \in Job : n = Head(s) /\ n = s[1]
    BY <2>2
  <2>4. stage[n] = "queued" /\ RepoOf[n] = r /\ n # j
    BY <1>3, <2>1, <2>2, <2>3
  <2>5. stage' = [stage EXCEPT ![j] = "over", ![n] = "dispatched"] /\ queue' = [queue EXCEPT ![r] = t]
    BY <1>5, <2>3 DEF Advance, Advances
  <2>6. /\ stage'[j] = "over" /\ stage'[n] = "dispatched"
        /\ \A k \in Job : k # j /\ k # n => stage'[k] = stage[k]
    BY <2>4, <2>5 DEF TypeOK
  <2>7. /\ ~InFlight(j)' /\ InFlight(n)' /\ ~InFlight(n)
        /\ \A k \in Job : k # j /\ k # n => (InFlight(k)' <=> InFlight(k))
    BY <2>4, <2>6 DEF InFlight, Active
  <2>8. queue'[r] = t /\ \A q \in Repo : q # r => queue'[q] = queue[q]
    BY <2>1, <2>5 DEF TypeOK
  <2>9. \A i \in Job : InFlight(i) /\ RepoOf[i] = r => i = j
    BY <1>1, <1>2, <2>1 DEF LaneOnly, OneAtATime
  <2>10. \A i \in Job : stage[i] = "over" => stage'[i] = "over"
    BY <2>4, <2>6
  <2>11. \A i \in Job : InFlight(i) => InFlight(i)' \/ stage'[i] = "over"
    BY <2>6, <2>7
  <2> HIDE DEF s, t
  <2>12. \A i \in Job : request[i] = "answered" => stage'[i] # "none"
    BY <2>6 DEF SessionInv
  <2>13. \A i, k \in Job : Follows(k, i) /\ request[k] \in {"inserted", "answered"} => request[i] = "answered"
    BY DEF SessionInv
  <2>14. ASSUME NEW i \in Job, NEW k \in Job, Follows(k, i), InFlight(k)' PROVE stage'[i] = "over"
    <3>1. CASE k = n
      <4>1. stage[i] = "over" \/ InFlight(i)
        <5>1. stage[i] = "over" \/ InFlight(i) \/ \E m \in DOMAIN s : m < 1 /\ s[m] = i
          BY <2>1, <2>2, <2>3, <2>14, <3>1 DEF SessionInv, s
        <5> QED BY <2>2, <5>1
      <4>2. RepoOf[i] = r
        BY <2>4, <2>14, <3>1 DEF Follows
      <4> QED BY <2>6, <2>9, <2>10, <4>1, <4>2
    <3>2. CASE k # n
      <4>1. InFlight(k)
        BY <2>7, <2>14, <3>2
      <4>2. stage[i] = "over"
        BY <2>14, <4>1 DEF SessionInv
      <4> QED BY <2>10, <4>2
    <3> QED BY <3>1, <3>2
  <2>15. ASSUME NEW i \in Job, stage'[i] = "queued"
         PROVE  RepoOf[i] \in Repo /\ \E m \in DOMAIN queue'[RepoOf[i]] : queue'[RepoOf[i]][m] = i
    <3>1. i # j /\ i # n /\ stage[i] = "queued"
      BY <2>6, <2>15
    <3>2. RepoOf[i] \in Repo
      BY <3>1 DEF SessionInv
    <3>3. PICK m \in DOMAIN queue[RepoOf[i]] : queue[RepoOf[i]][m] = i
      BY <3>1 DEF SessionInv
    <3>4. CASE RepoOf[i] = r
      <4>1. m \in DOMAIN s /\ s[m] = i /\ m # 1
        BY <2>3, <3>1, <3>3, <3>4 DEF s
      <4>2. m - 1 \in DOMAIN t /\ t[m - 1] = i
        BY <2>2, <4>1
      <4> QED BY <2>8, <3>2, <3>4, <4>2
    <3>5. CASE RepoOf[i] # r
      BY <2>8, <3>2, <3>3, <3>5
    <3> QED BY <3>4, <3>5
  <2>16. ASSUME NEW q \in Repo, NEW m \in DOMAIN queue'[q], NEW i \in Job, Follows(queue'[q][m], i)
         PROVE  stage'[i] = "over" \/ InFlight(i)' \/ \E e \in DOMAIN queue'[q] : e < m /\ queue'[q][e] = i
    <3>1. CASE q # r
      <4>1. m \in DOMAIN queue[q] /\ queue'[q] = queue[q]
        BY <2>8, <3>1
      <4>2. stage[i] = "over" \/ InFlight(i) \/ \E e \in DOMAIN queue[q] : e < m /\ queue[q][e] = i
        BY <2>16, <4>1 DEF SessionInv
      <4> QED BY <2>10, <2>11, <4>1, <4>2
    <3>2. CASE q = r
      <4>1. m \in 1 .. Len(s) - 1 /\ m + 1 \in DOMAIN s /\ queue'[q][m] = s[m + 1] /\ queue'[q] = t
        BY <2>2, <2>8, <3>2
      <4>2. stage[i] = "over" \/ InFlight(i) \/ \E e \in DOMAIN s : e < m + 1 /\ s[e] = i
        BY <2>1, <2>16, <4>1 DEF SessionInv, s
      <4>3. ASSUME NEW e \in DOMAIN s, e < m + 1, s[e] = i
            PROVE  InFlight(i)' \/ \E d \in DOMAIN t : d < m /\ t[d] = i
        <5>1. CASE e = 1
          BY <2>3, <2>7, <4>3, <5>1
        <5>2. CASE e # 1
          <6>1. e - 1 \in DOMAIN t /\ t[e - 1] = i /\ e - 1 < m
            BY <2>2, <4>1, <4>3, <5>2
          <6> QED BY <6>1
        <5> QED BY <5>1, <5>2
      <4> QED BY <2>10, <2>11, <4>1, <4>2, <4>3
    <3> QED BY <3>1, <3>2
  <2> QED BY <1>1, <2>12, <2>13, <2>14, <2>15, <2>16 DEF SessionInv, Follows
<1> QED BY <1>4, <1>5

LEMMA SessionStep ==
    ASSUME TypeOK, LaneOnly, SessionInv, [Next]_vars
    PROVE  SessionInv'
<1> USE DEF Move, ledgerVars, laneVars, childVars, cancelVars, endVars
<1>1. ASSUME UNCHANGED <<request, stage, queue>> PROVE SessionInv'
  BY <1>1, SessionUnmoved DEF InFlight
<1>2. ASSUME NEW j \in Job, Stop(j) \/ ChildLands(j) \/ ChildExits(j) PROVE SessionInv'
  BY <1>1, <1>2 DEF Stop, StopLookup, StopKill, StopQueued, ChildLands, ChildExits
<1>3. ASSUME NEW j \in Job, RunJob(j), ~Advance(j) PROVE SessionInv'
  <2>1. UNCHANGED <<request, queue>>
    BY <1>3 DEF RunJob, Start, Claim, ClaimFails, CheckFlag, Spawn, SpawnFails, SetChild, Reap,
       ClearChild, Judge, Settle, Unregister, Finalize, FinalizeFails
  <2>2. PICK from \in {"dispatched"} \cup Active, to \in Active : stage[j] = from /\ stage' = [stage EXCEPT ![j] = to]
    BY <1>3 DEF RunJob, Start, Claim, ClaimFails, CheckFlag, Spawn, SpawnFails, SetChild, Reap,
       ClearChild, Judge, Settle, Unregister, Finalize, FinalizeFails, Active
  <2>3. stage'[j] = to /\ \A k \in Job : k # j => stage'[k] = stage[k]
    BY <2>2 DEF TypeOK
  <2>4. \A k \in Job : InFlight(k)' <=> InFlight(k)
    BY <2>2, <2>3 DEF InFlight
  <2>5. \A k \in Job : stage[k] \in {"none", "queued", "over"} \/ stage'[k] \in {"none", "queued", "over"}
                          => stage'[k] = stage[k]
    BY <2>2, <2>3 DEF Active
  <2> QED BY <2>1, <2>4, <2>5, SessionUnmoved
<1> QED BY <1>1, <1>2, <1>3, SessionInsert, SessionSubmit, SessionAdvance DEF Next, vars

LEMMA MoreInit == Init => WorkInv /\ TruthInv /\ StopInv /\ SessionInv
<1> SUFFICES ASSUME Init PROVE WorkInv /\ TruthInv /\ StopInv /\ SessionInv
  OBVIOUS
<1>1. \A j \in Job : Len(Script[j]) \in Nat \ {0}
  BY ScriptFact
<1>2. WorkInv /\ TruthInv
  BY <1>1 DEF Init, WorkInv, TruthInv
<1>3. StopInv
  BY DEF Init, StopInv
<1>4. SessionInv
  BY DEF Init, SessionInv, InFlight, Active
<1> QED BY <1>2, <1>3, <1>4

-----------------------------------------------------------------------------
(* The theorems. *)

Inv == TypeOK /\ LaneOnly /\ StepInv /\ RowInv

LEMMA InvHolds == Spec => []Inv
<1>1. Init => Inv
  BY TypeInit, LaneInit, RowInit DEF Inv
<1>2. Inv /\ [Next]_vars => Inv'
  BY TypeStep, LaneStep, StepStep, RowStep DEF Inv
<1> QED
  BY <1>1, <1>2, PTL DEF Spec

(* Every variable of the pool keeps its type, for any number of jobs,       *)
(* repositories, threads and ledger errors.                                 *)
THEOREM TypeCorrect == Spec => []TypeOK
BY InvHolds, PTL DEF Inv

(* A repository's jobs run strictly one at a time.                          *)
THEOREM Serial == Spec => []OneAtATime
BY InvHolds, PTL DEF Inv, LaneOnly

(* The lane never wedges: a running lane has a job in flight that will      *)
(* advance it, whatever way run_job_inner was left.                         *)
THEOREM NeverWedged == Spec => []LaneMoves
BY InvHolds, PTL DEF Inv, LaneOnly

(* A row goes through its life in order, and a terminal row stays as it is. *)
THEOREM Lifecycle == Spec => RowLifecycle
<1>1. Inv /\ [Next]_vars => [\A j \in Job : row'[j] # row[j] => <<row[j], row'[j]>> \in RowSteps]_vars
  BY RowStep DEF Inv
<1> QED
  BY <1>1, InvHolds, PTL DEF Spec, RowLifecycle

LEMMA MoreHolds == Spec => [](WorkInv /\ TruthInv /\ StopInv /\ SessionInv)
<1>1. Inv /\ (WorkInv /\ TruthInv /\ StopInv /\ SessionInv) /\ [Next]_vars
        => (WorkInv /\ TruthInv /\ StopInv /\ SessionInv)'
  BY WorkStep, TruthStep, StopStep, SessionStep DEF Inv
<1> QED
  BY <1>1, MoreInit, InvHolds, PTL DEF Spec

(* What a row says is so: `stopped` in the queue means no command of the    *)
(* job ever ran, `done` that all of them did, a resulting commit that there *)
(* was a commit command; whatever stop, crash of a child or ledger error    *)
(* met the job, for every script.                                           *)
THEOREM Truthful == Spec => []RowTellsTruth
<1>1. Inv /\ WorkInv /\ TruthInv => RowTellsTruth
  <2> SUFFICES ASSUME Inv, WorkInv, TruthInv, NEW j \in Job
               PROVE  /\ row[j] = "stopped" /\ verdict[j] = "none" =>
                            step[j] = 0 /\ child[j] = "none" /\ landed[j] = 0
                      /\ row[j] = "done" => landed[j] = Len(Script[j])
                      /\ j \in sha => \E k \in 1 .. landed[j] : Script[j][k] = "commit"
    BY DEF RowTellsTruth
  <2>1. /\ step[j] \in Nat /\ landed[j] \in Nat /\ Len(Script[j]) \in Nat
        /\ step[j] <= landed[j] /\ landed[j] <= Len(Script[j])
    BY ScriptFact DEF Inv, TypeOK, WorkInv
  <2> QED BY <2>1 DEF TruthInv
<1> QED
  BY <1>1, InvHolds, MoreHolds, PTL

(* Who waited for the number of one job before submitting the next to the   *)
(* same repository has the first over when the second begins, for any       *)
(* number of sessions, jobs and threads.                                    *)
THEOREM Sessions == Spec => []SessionOrder
<1>1. SessionInv => SessionOrder
  BY DEF SessionInv, SessionOrder, Follows, InFlight
<1> QED
  BY <1>1, MoreHolds, PTL

(* After an accepted stop no command of the job counts as successful.       *)
THEOREM StopIsFinal == Spec => StopEndsScript
<1>1. Inv /\ StopInv /\ [Next]_vars => [\A j \in Job : stopper[j] = "accepted" => step'[j] = step[j]]_vars
  BY StopStep DEF Inv
<1> QED
  BY <1>1, InvHolds, MoreHolds, PTL DEF Spec, StopEndsScript

=============================================================================

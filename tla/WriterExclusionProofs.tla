----------------------- MODULE WriterExclusionProofs -----------------------
(***************************************************************************)
(* Proofs about WriterExclusion, for any number of actors and repositories *)
(* and any tree of hooks.                                                  *)
(*                                                                         *)
(* Under OneMechanism there is at most one writer per repository.  That is *)
(* not inductive: a writer with a guard that holds nothing leans on an     *)
(* ancestor, so the proof needs two more facts.  FamilyInv follows the     *)
(* tree of hooks: whoever is above a running actor waits, and the running  *)
(* actors below one ancestor form one branch.  LockInv says whose hold the *)
(* line, the flock and the pid in the lane file stand for.  Without that   *)
(* condition one thing is left: HolderIsNamed, the lane file names whoever *)
(* has its flock and waits, and so no child is refused it.                 *)
(***************************************************************************)
EXTENDS WriterExclusion, SequenceTheorems, TLAPS

-----------------------------------------------------------------------------
(* Lines: what Append, Tail and Retain do to them. *)

LEMMA AppendElements ==
    ASSUME NEW S, NEW s \in Seq(S), NEW e \in S
    PROVE  /\ Append(s, e) \in Seq(S)
           /\ \A k \in DOMAIN Append(s, e) :
                 \/ k \in DOMAIN s /\ Append(s, e)[k] = s[k]
                 \/ k = Len(s) + 1 /\ Append(s, e)[k] = e
           /\ \A k \in DOMAIN s : k \in DOMAIN Append(s, e) /\ Append(s, e)[k] = s[k]
           /\ Len(s) + 1 \in DOMAIN Append(s, e) /\ Append(s, e)[Len(s) + 1] = e
  OBVIOUS

LEMMA AppendKeepsHead ==
    ASSUME NEW S, NEW s \in Seq(S), NEW e \in S, s # <<>>
    PROVE  Append(s, e) # <<>> /\ Head(Append(s, e)) = Head(s)
  OBVIOUS

LEMMA RetainElements ==
    ASSUME NEW S, NEW q \in Seq(S), NEW c
    PROVE  /\ Retain(q, c) \in Seq(S)
           /\ \A k \in DOMAIN Retain(q, c) : \E m \in DOMAIN q : Retain(q, c)[k] = q[m]
  <1>1. CASE \E k \in DOMAIN q : q[k] = c
    <2> DEFINE at == CHOOSE k \in DOMAIN q : q[k] = c
    <2>1. at \in DOMAIN q
      BY <1>1
    <2>2. Retain(q, c) = [k \in 1 .. (Len(q) - 1) |-> IF k < at THEN q[k] ELSE q[k + 1]]
      BY <1>1 DEF Retain
    <2>3. Len(q) - 1 \in Nat
      BY <2>1
    <2> HIDE DEF at
    <2>4. \A k \in 1 .. (Len(q) - 1) : k \in DOMAIN q /\ k + 1 \in DOMAIN q
      BY <2>3
    <2> QED
      BY <2>1, <2>2, <2>3, <2>4, SMTT(40)
  <1>2. CASE ~ \E k \in DOMAIN q : q[k] = c
    BY <1>2 DEF Retain
  <1> QED
    BY <1>1, <1>2

(* Who is not the head leaves the head where it is. *)
LEMMA RetainKeepsHead ==
    ASSUME NEW S, NEW q \in Seq(S), NEW c, q # <<>>, Head(q) # c
    PROVE  Retain(q, c) # <<>> /\ Head(Retain(q, c)) = Head(q)
  <1>0. 1 \in DOMAIN q /\ Head(q) = q[1] /\ Len(q) \in Nat /\ DOMAIN q = 1 .. Len(q)
    OBVIOUS
  <1>1. CASE \E k \in DOMAIN q : q[k] = c
    <2> DEFINE at == CHOOSE k \in DOMAIN q : q[k] = c
    <2>1. at \in DOMAIN q /\ q[at] = c
      BY <1>1
    <2>2. Retain(q, c) = [k \in 1 .. (Len(q) - 1) |-> IF k < at THEN q[k] ELSE q[k + 1]]
      BY <1>1 DEF Retain
    <2>3. at # 1
      BY <2>1, <1>0
    <2> HIDE DEF at
    <2>4. at > 1 /\ Len(q) - 1 \in Nat /\ 1 \in 1 .. (Len(q) - 1)
      BY <2>1, <2>3, <1>0
    <2>5. \A k \in 1 .. (Len(q) - 1) : q[k] \in S /\ q[k + 1] \in S
      BY <2>4, <1>0
    <2>6. Retain(q, c) \in Seq(S) /\ Len(Retain(q, c)) = Len(q) - 1
      BY <2>2, <2>4, <2>5
    <2>7. Retain(q, c)[1] = q[1]
      BY <2>2, <2>4
    <2> QED
      BY <2>4, <2>6, <2>7, <1>0
  <1>2. CASE ~ \E k \in DOMAIN q : q[k] = c
    BY <1>2 DEF Retain
  <1> QED
    BY <1>1, <1>2

-----------------------------------------------------------------------------
Active(a) == pc[a] \notin Ended \cup {"off"}

Inside(a) == pc[a] \in {"writing", "parked"}

(* The tree of hooks. *)
ParentsWait ==
    \A a \in Actor : Active(a) => \A b \in Above(a) : pc[b] = "parked"

OneBranch ==
    \A a, b \in Actor :
        Active(a) /\ Active(b) /\ Above(a) \cap Above(b) # {}
            => a = b \/ a \in Above(b) \/ b \in Above(a)

FamilyInv == ParentsWait /\ OneBranch

(* The locks. *)
OneRoad ==
    /\ DaemonAtStart =>
          /\ daemon = "up"
          /\ \A a \in Actor : pc[a] \notin Polling \cup {"locked", "cleared", "cut"} /\ guard[a] # "file"
    /\ ~DaemonAtStart =>
          /\ daemon = "down"
          /\ \A a \in Actor : pc[a] \notin Connected \cup {"cut"} /\ guard[a] # "daemon"
          /\ \A r \in Repo : line[r] = <<>>

GuardedInside == \A a \in Actor : guard[a] # "none" <=> Inside(a)

DaemonHolds == \A a \in Actor : guard[a] = "daemon" => AtHead(a)

FileHolds ==
    \A a \in Actor :
        guard[a] = "file" \/ pc[a] \in {"locked", "cleared"} => flock[RepoOf[a]] = a

LineIsHonest ==
    \A r \in Repo : \A k \in DOMAIN line[r] :
        /\ RepoOf[line[r][k]] = r
        /\ pc[line[r][k]] \notin {"off", "idle", "connected", "probed"}
        /\ Inside(line[r][k]) => guard[line[r][k]] = "daemon"

LabelIsHonest ==
    \A r \in Repo : label[r] # NoProc =>
        \E b \in Actor :
            /\ ProcOf[b] = label[r]
            /\ RepoOf[b] = r
            /\ pc[b] \in Ended \/ guard[b] = "file"

DeadWereKillable == \A x \in dead : \E b \in Killable : ProcOf[b] = x

LockInv ==
    /\ OneRoad
    /\ GuardedInside
    /\ DaemonHolds
    /\ FileHolds
    /\ LineIsHonest
    /\ LabelIsHonest
    /\ DeadWereKillable

(* The ancestor a guard that holds nothing leans on. *)
Covered ==
    \A a \in Actor : guard[a] = "noop" =>
        \E b \in Above(a) : RepoOf[b] = RepoOf[a] /\ guard[b] \in {"daemon", "file"}

Inv == TypeOK /\ FamilyInv /\ LockInv /\ Covered

-----------------------------------------------------------------------------
(* Type correctness. *)

LEMMA TypeStep == ASSUME TypeOK, [Next]_vars PROVE TypeOK'
<1> USE WriterAssumption DEF TypeOK, PC, Ended, Connected, Polling
<1> DEFINE Guards == {"none", "daemon", "file", "noop"}
<1>m. ASSUME NEW a \in Actor, NEW f, NEW t \in PC, Move(a, f, t)
      PROVE  pc' \in [Actor -> PC]
  BY <1>m DEF Move
<1>e. ASSUME NEW a \in Actor, NEW f, NEW g \in Guards, Enter(a, f, g)
      PROVE  pc' \in [Actor -> PC] /\ guard' \in [Actor -> Guards]
  BY <1>e DEF Enter, Move
<1>1. ASSUME NEW a \in Actor, Spawn(a)
      PROVE  TypeOK'
  BY <1>1 DEF Spawn, fileVars, daemonVars
<1>2. ASSUME NEW a \in Actor, Connect(a) \/ Probe(a) \/ Fallback(a) \/ WouldBlock(a) \/ Resume(a)
      PROVE  TypeOK'
  <2>1. pc' \in [Actor -> PC] /\ guard' \in [Actor -> Guards]
    <3>1. CASE Connect(a)
      BY <3>1, <1>m DEF Connect
    <3>2. CASE Probe(a)
      BY <3>2, <1>m, <1>e DEF Probe
    <3>3. CASE Fallback(a) \/ WouldBlock(a) \/ Resume(a)
      BY <3>3, <1>m DEF Fallback, WouldBlock, Resume
    <3> QED
      BY <1>2, <3>1, <3>2, <3>3
  <2>2. UNCHANGED <<line, flock, label, seen, daemon, dead, changes>>
    BY <1>2 DEF Connect, Probe, Fallback, WouldBlock, Resume, fileVars, daemonVars
  <2> QED
    BY <2>1, <2>2
<1>3. ASSUME NEW a \in Actor, Granted(a)
      PROVE  TypeOK'
  BY <1>3 DEF Granted, Enter, Move, fileVars, daemonVars
<1>4. ASSUME NEW a \in Actor, Acquire(a)
      PROVE  TypeOK'
  <2>1. Append(line[RepoOf[a]], a) \in Seq(Actor)
    BY AppendElements
  <2> QED
    BY <1>4, <2>1 DEF Acquire, Move, fileVars
<1>5. ASSUME NEW a \in Actor, Forget(a)
      PROVE  TypeOK'
  <2>1. Retain(line[RepoOf[a]], a) \in Seq(Actor)
    BY RetainElements
  <2> QED
    BY <1>5, <2>1 DEF Forget, fileVars
<1>5a. ASSUME NEW a \in Actor, LoseConnection(a)
      PROVE  TypeOK'
  <2>1. Retain(line[RepoOf[a]], a) \in Seq(Actor)
    BY RetainElements
  <2> QED
    BY <1>5a, <2>1 DEF LoseConnection, fileVars
<1>6. ASSUME NEW a \in Actor, TakeLane(a)
      PROVE  TypeOK'
  BY <1>6 DEF TakeLane, Move, daemonVars
<1>7. ASSUME NEW a \in Actor, ReadLabel(a)
      PROVE  TypeOK'
  <2>1. /\ pc' \in [Actor -> PC]
        /\ guard' \in [Actor -> {"none", "daemon", "file", "noop"}]
    BY <1>7 DEF ReadLabel, Move, Enter, Deny
  <2>2. seen' \in [Actor -> Proc \cup {NoProc}]
    BY <1>7 DEF ReadLabel
  <2>3. UNCHANGED <<line, flock, label, daemon, dead, changes>>
    BY <1>7 DEF ReadLabel, daemonVars
  <2> QED
    BY <2>1, <2>2, <2>3
<1>8. ASSUME NEW a \in Actor, Truncate(a) \/ Publish(a)
      PROVE  TypeOK'
  <2>1. CASE Truncate(a)
    BY <2>1 DEF Truncate, Move, daemonVars
  <2>2. CASE Publish(a)
    <3>1. pc' \in [Actor -> PC] /\ guard' \in [Actor -> Guards]
      BY <2>2, <1>e DEF Publish
    <3> QED
      BY <2>2, <3>1 DEF Publish, HoldersPid, daemonVars
  <2> QED
    BY <1>8, <2>1, <2>2
<1>9. ASSUME NEW a \in Actor, Finish(a)
      PROVE  TypeOK'
  BY <1>9 DEF Finish, Unlocked, Move, daemonVars
<1>10. ASSUME NEW a \in Actor, Kill(a)
       PROVE  TypeOK'
  <2>1. /\ pc' \in [Actor -> PC]
        /\ guard' \in [Actor -> {"none", "daemon", "file", "noop"}]
    BY <1>10 DEF Kill
  <2> QED
    BY <1>10, <2>1 DEF Kill, Unlocked, daemonVars
<1>11. ASSUME DaemonDown
       PROVE  TypeOK'
  <2>1. /\ pc' \in [Actor -> PC]
        /\ guard' \in [Actor -> {"none", "daemon", "file", "noop"}]
    BY <1>11 DEF DaemonDown
  <2>2. changes' \in 0 .. MaxChanges
    BY <1>11 DEF DaemonDown
  <2>3. flock' \in [Repo -> Actor \cup {NoActor}]
    BY <1>11 DEF DaemonDown, Unlocked
  <2>4. line' \in [Repo -> Seq(Actor)] /\ dead' \in SUBSET Proc /\ daemon' \in {"up", "down"}
    BY <1>11 DEF DaemonDown
  <2> QED
    BY <1>11, <2>1, <2>2, <2>3, <2>4 DEF DaemonDown
<1>12. ASSUME DaemonUp
       PROVE  TypeOK'
  BY <1>12 DEF DaemonUp, fileVars
<1>13. ASSUME UNCHANGED vars
       PROVE  TypeOK'
  BY <1>13 DEF vars
<1> QED
  BY <1>1, <1>2, <1>3, <1>4, <1>5, <1>5a, <1>6, <1>7, <1>8, <1>9, <1>10, <1>11, <1>12, <1>13
     DEF Next, Lock, Work

(* WriterExclusion's variables always have the types their Rust             *)
(* counterparts have, whatever the daemon does.                             *)
THEOREM TypeCorrect == Spec => []TypeOK
<1>1. Init => TypeOK
  BY WriterAssumption DEF Init, TypeOK, PC, Ended, Connected, Polling
<1> QED
  BY <1>1, TypeStep, PTL DEF Spec

-----------------------------------------------------------------------------
(* The tree of hooks. *)

(* Under OneMechanism the daemon neither comes nor goes and no connection   *)
(* fails.                                                                   *)
LEMMA DaemonStays ==
    ASSUME OneMechanism, TypeOK
    PROVE  ~DaemonDown /\ ~DaemonUp /\ \A a \in Actor : ~LoseConnection(a)
  BY DEF OneMechanism, TypeOK, DaemonDown, DaemonUp, LoseConnection

(* FamilyInv outlives a step of actors that are running and above nobody.   *)
LEMMA FamilyQuiet ==
    ASSUME FamilyInv,
           \A x \in Actor : pc'[x] # pc[x] =>
               Active(x) /\ \A c \in Actor : Active(c) => x \notin Above(c)
    PROVE  FamilyInv'
<1>1. \A c \in Actor : Active(c)' => Active(c)
  BY DEF Active
<1>2. \A c \in Actor, b \in Actor : Active(c) /\ b \in Above(c) => pc'[b] = pc[b]
  OBVIOUS
<1>3. \A c \in Actor : Above(c) \subseteq Actor
  BY DEF Above
<1>4. ParentsWait'
  <2> SUFFICES ASSUME NEW c \in Actor, Active(c)', NEW b \in Above(c)
               PROVE  pc'[b] = "parked"
    BY DEF ParentsWait, Above
  <2>1. Active(c) /\ b \in Actor
    BY <1>1, <1>3
  <2> QED
    BY <2>1, <1>2 DEF FamilyInv, ParentsWait
<1>5. OneBranch'
  <2> SUFFICES ASSUME NEW a \in Actor, NEW b \in Actor, Active(a)', Active(b)',
                      Above(a) \cap Above(b) # {}
               PROVE  a = b \/ a \in Above(b) \/ b \in Above(a)
    BY DEF OneBranch, Above
  <2> QED
    BY <1>1 DEF FamilyInv, OneBranch
<1> QED
  BY <1>4, <1>5 DEF FamilyInv

LEMMA FamilyStep ==
    ASSUME OneMechanism, TypeOK, FamilyInv, [Next]_vars
    PROVE  FamilyInv'
<1> USE WriterAssumption
<1>1. \A x, c \in Actor : Active(c) /\ x \in Above(c) => pc[x] = "parked"
  BY DEF FamilyInv, ParentsWait
<1>2. ASSUME NEW a \in Actor,
             \A x \in Actor : pc'[x] # pc[x] => x = a /\ Active(a) /\ pc[a] # "parked"
      PROVE  FamilyInv'
  BY <1>1, <1>2, FamilyQuiet
<1>3. ASSUME NEW a \in Actor, Lock(a) \/ Finish(a) \/ Forget(a)
      PROVE  FamilyInv'
  <2>1. ASSUME NEW f, NEW t, Move(a, f, t), f \notin {"off", "parked"} \cup Ended
        PROVE  FamilyInv'
    BY <2>1, <1>2 DEF Move, TypeOK, Active
  <2> USE DEF Ended
  <2>2. CASE Connect(a)
    BY <2>2, <2>1 DEF Connect
  <2>3. CASE Probe(a)
    BY <2>3, <2>1 DEF Probe, Enter
  <2>4. CASE Acquire(a) \/ Granted(a) \/ Fallback(a)
    BY <2>4, <2>1 DEF Acquire, Granted, Enter, Fallback
  <2>5. CASE TakeLane(a) \/ WouldBlock(a)
    BY <2>5, <2>1 DEF TakeLane, WouldBlock
  <2>6. CASE ReadLabel(a)
    BY <2>6, <2>1 DEF ReadLabel, Enter, Deny
  <2>7. CASE Truncate(a) \/ Publish(a)
    BY <2>7, <2>1 DEF Truncate, Publish, Enter
  <2>8. CASE Finish(a)
    BY <2>8, <2>1 DEF Finish
  <2>9. CASE Forget(a)
    BY <2>9, <1>2 DEF Forget
  <2> QED
    BY <1>3, <2>2, <2>3, <2>4, <2>5, <2>6, <2>7, <2>8, <2>9 DEF Lock
<1>4. ASSUME NEW a \in Actor, Resume(a)
      PROVE  FamilyInv'
  <2>1. \A x \in Actor : pc'[x] # pc[x] => x = a
    BY <1>4 DEF Resume, Move, TypeOK
  <2>2. Active(a)
    BY <1>4 DEF Resume, Move, Active, Ended
  <2>3. ASSUME NEW c \in Actor, Active(c), a \in Above(c)
        PROVE  FALSE
    <3>1. PICK h \in Hooks : Spawner[h] = a /\ h \in {c} \cup Above(c)
      BY <2>3 DEF OneMechanism
    <3>2. h \in Actor
      BY DEF WriterAssumption
    <3>3. pc[h] \in Ended \cup {"off"}
      BY <1>4, <3>1 DEF Resume
    <3>4. h # c
      BY <2>3, <3>3 DEF Active
    <3>5. pc[h] = "parked"
      BY <1>1, <2>3, <3>1, <3>2, <3>4
    <3> QED
      BY <3>3, <3>5 DEF Ended
  <2> QED
    BY <2>1, <2>2, <2>3, FamilyQuiet
<1>5. ASSUME NEW a \in Actor, Kill(a)
      PROVE  FamilyInv'
  <2>1. \A x \in Actor : pc'[x] # pc[x] => x \in Threads(ProcOf[a])
    BY <1>5 DEF Kill, TypeOK
  <2>2. \A x \in Threads(ProcOf[a]) : x = a
    BY DEF Threads, OneMechanism
  <2>3. Active(a)
    BY <1>5 DEF Kill, Active
  <2>4. ASSUME NEW c \in Actor, Active(c), a \in Above(c)
        PROVE  FALSE
    <3>1. PICK h \in Hooks : Spawner[h] = a
      BY <2>4 DEF OneMechanism
    <3> QED
      BY <1>5, <3>1 DEF OneMechanism, Kill
  <2> QED
    BY <2>1, <2>2, <2>3, <2>4, FamilyQuiet
<1>6. ASSUME NEW a \in Actor, Spawn(a)
      PROVE  FamilyInv'
  <2> DEFINE s == Spawner[a]
  <2>1. s \in Actor /\ a \in Hooks /\ s # NoActor
    BY <1>6 DEF Spawn, OneMechanism
  <2>2. pc[a] = "off" /\ pc[s] = "writing" /\ pc' = [pc EXCEPT ![a] = "idle", ![s] = "parked"]
    BY <1>6, <2>1 DEF Spawn
  <2>3. Above(a) = {s} \cup Above(s)
    BY <2>1 DEF OneMechanism
  <2> HIDE DEF s
  <2>4. Active(s) /\ ~Active(a) /\ a # s
    BY <2>2 DEF Active, Ended
  <2>5. \A b \in Above(s) : b \in Actor /\ pc[b] = "parked"
    BY <1>1, <2>1, <2>4 DEF Above
  <2>6. \A c \in Actor : Active(c) => s \notin Above(c)
    BY <1>1, <2>1, <2>2
  <2>7. \A c \in Actor : c # a /\ c # s => pc'[c] = pc[c]
    BY <2>2 DEF TypeOK
  <2>8. pc'[a] = "idle" /\ pc'[s] = "parked"
    BY <2>1, <2>2, <2>4 DEF TypeOK
  <2>9. \A c \in Actor : c # a => (Active(c)' => Active(c))
    BY <2>4, <2>7 DEF Active
  <2>10. ParentsWait'
    <3> SUFFICES ASSUME NEW c \in Actor, Active(c)', NEW b \in Above(c)
                 PROVE  pc'[b] = "parked"
      BY DEF ParentsWait, Above
    <3>1. b \in Actor
      BY DEF Above
    <3>2. CASE c = a
      <4>1. b = s \/ (b \in Above(s) /\ pc[b] = "parked")
        BY <2>3, <2>5, <3>2
      <4> QED
        BY <4>1, <2>7, <2>8, <2>2, <3>1
    <3>3. CASE c # a
      <4>1. Active(c) /\ pc[b] = "parked"
        BY <3>1, <3>3, <2>9, <1>1
      <4> QED
        BY <4>1, <2>2, <2>7, <3>1
    <3> QED
      BY <3>2, <3>3
  <2>11. ASSUME NEW b \in Actor, Active(b), b # a, Above(a) \cap Above(b) # {}
         PROVE  b \in Above(a)
    <3>1. Above(s) \cap Above(b) # {}
      BY <2>3, <2>6, <2>11
    <3>2. s = b \/ s \in Above(b) \/ b \in Above(s)
      BY <3>1, <2>1, <2>4, <2>11 DEF FamilyInv, OneBranch
    <3> QED
      BY <3>2, <2>3, <2>6, <2>11
  <2>12. OneBranch'
    <3> SUFFICES ASSUME NEW c \in Actor, NEW b \in Actor, Active(c)', Active(b)',
                        Above(c) \cap Above(b) # {}
                 PROVE  c = b \/ c \in Above(b) \/ b \in Above(c)
      BY DEF OneBranch, Above
    <3>1. CASE c # a /\ b # a
      BY <3>1, <2>9 DEF FamilyInv, OneBranch
    <3>2. CASE c = a /\ b # a
      BY <3>2, <2>9, <2>11
    <3>3. CASE c # a /\ b = a
      BY <3>3, <2>9, <2>11
    <3> QED
      BY <3>1, <3>2, <3>3
  <2> QED
    BY <2>10, <2>12 DEF FamilyInv
<1>7. ASSUME UNCHANGED vars
      PROVE  FamilyInv'
  BY <1>7, FamilyQuiet DEF vars
<1> QED
  BY <1>3, <1>4, <1>5, <1>6, <1>7, DaemonStays DEF Next, Work

-----------------------------------------------------------------------------
(* The locks. *)

(* The line stays honest while it stays, if whoever is in it stays or still *)
(* has the daemon's guard.                                                  *)
LEMMA LineStays ==
    ASSUME TypeOK, OneRoad, LineIsHonest, line' = line,
           DaemonAtStart => \A x \in Actor :
              \/ pc'[x] = pc[x] /\ guard'[x] = guard[x]
              \/ Inside(x) /\ Inside(x)' /\ guard'[x] = guard[x]
              \/ pc[x] \in {"off", "idle", "connected", "probed"}
              \/ /\ pc'[x] \notin {"off", "idle", "connected", "probed"}
                 /\ Inside(x)' => guard'[x] = "daemon"
    PROVE  LineIsHonest'
<1> SUFFICES ASSUME NEW r \in Repo, NEW k \in DOMAIN line[r]
             PROVE  /\ RepoOf[line[r][k]] = r
                    /\ pc'[line[r][k]] \notin {"off", "idle", "connected", "probed"}
                    /\ Inside(line[r][k])' => guard'[line[r][k]] = "daemon"
  BY DEF LineIsHonest, Inside
<1>1. line[r][k] \in Actor
  BY DEF TypeOK
<1>2. /\ RepoOf[line[r][k]] = r
      /\ pc[line[r][k]] \notin {"off", "idle", "connected", "probed"}
      /\ Inside(line[r][k]) => guard[line[r][k]] = "daemon"
  BY DEF LineIsHonest
<1>3. DaemonAtStart
  BY WriterAssumption DEF OneRoad
<1> QED
  BY <1>1, <1>2, <1>3 DEF Inside

(* The lane file's pid still is that of one who holds it or has ended. *)
LEMMA LabelStays ==
    ASSUME LabelIsHonest, label' = label,
           \A b \in Actor : pc[b] \in Ended \/ guard[b] = "file" =>
                               pc'[b] \in Ended \/ guard'[b] = "file"
    PROVE  LabelIsHonest'
<1> SUFFICES ASSUME NEW r \in Repo, label[r] # NoProc
             PROVE  \E b \in Actor : /\ ProcOf[b] = label[r]
                                     /\ RepoOf[b] = r
                                     /\ pc'[b] \in Ended \/ guard'[b] = "file"
  BY DEF LabelIsHonest
<1>1. PICK b \in Actor : /\ ProcOf[b] = label[r]
                         /\ RepoOf[b] = r
                         /\ pc[b] \in Ended \/ guard[b] = "file"
  BY DEF LabelIsHonest
<1> QED
  BY <1>1

(* One actor moves where it neither holds nor takes anything. *)
LEMMA LockQuiet ==
    ASSUME TypeOK, LockInv, NEW a \in Actor, NEW f, NEW t, Move(a, f, t),
           f \in {"idle", "connected", "opened", "blocked"},
           t \in {"connected", "probed", "opened", "blocked", "denied"},
           DaemonAtStart <=> t \in {"connected", "probed"},
           UNCHANGED <<guard, line, flock, label, daemon, dead>>
    PROVE  LockInv'
<1> USE WriterAssumption DEF LockInv, Polling, Connected, Ended
<1>1. \A x \in Actor : pc'[x] = IF x = a THEN t ELSE pc[x]
  BY DEF Move, TypeOK
<1>2. pc[a] = f
  BY DEF Move
<1>3. OneRoad'
  BY <1>1 DEF OneRoad
<1>4. GuardedInside'
  BY <1>1, <1>2 DEF GuardedInside, Inside
<1>5. DaemonHolds' /\ FileHolds'
  BY <1>1, <1>2 DEF DaemonHolds, FileHolds, AtHead
<1>6. LineIsHonest'
  <2>1. DaemonAtStart => f \in {"idle", "connected"}
    BY <1>2 DEF OneRoad
  <2> QED
    BY <1>1, <1>2, <2>1, LineStays
<1>7. LabelIsHonest'
  BY <1>1, <1>2, LabelStays
<1>8. DeadWereKillable'
  BY DEF DeadWereKillable
<1> QED
  BY <1>3, <1>4, <1>5, <1>6, <1>7, <1>8

(* A writer enters with a guard that holds nothing. *)
LEMMA LockNoOp ==
    ASSUME TypeOK, LockInv, NEW a \in Actor, NEW f, Enter(a, f, "noop"),
           f \in {"connected", "blocked"},
           UNCHANGED <<line, flock, label, daemon, dead>>
    PROVE  LockInv'
<1> USE WriterAssumption DEF LockInv, Polling, Connected, Ended
<1>1. /\ \A x \in Actor : pc'[x] = IF x = a THEN "writing" ELSE pc[x]
      /\ \A x \in Actor : guard'[x] = IF x = a THEN "noop" ELSE guard[x]
  BY DEF Enter, Move, TypeOK
<1>2. pc[a] = f /\ guard[a] = "none"
  BY DEF Enter, Move, GuardedInside, Inside
<1>3. OneRoad'
  BY <1>1 DEF OneRoad
<1>4. GuardedInside'
  BY <1>1 DEF GuardedInside, Inside
<1>5. DaemonHolds' /\ FileHolds'
  BY <1>1, <1>2 DEF DaemonHolds, FileHolds, AtHead
<1>6. LineIsHonest'
  <2>1. DaemonAtStart => pc[a] = "connected"
    BY <1>2 DEF OneRoad
  <2> QED
    BY <1>1, <2>1, LineStays
<1>7. LabelIsHonest'
  <2>1. \A b \in Actor : pc[b] \in Ended \/ guard[b] = "file" => b # a
    BY <1>2
  <2>2. \A b \in Actor : pc[b] \in Ended \/ guard[b] = "file" =>
                             pc'[b] \in Ended \/ guard'[b] = "file"
    BY <1>1, <2>1
  <2> QED
    BY <2>2, LabelStays
<1>8. DeadWereKillable'
  BY DEF DeadWereKillable
<1> QED
  BY <1>3, <1>4, <1>5, <1>6, <1>7, <1>8

(* The daemon's road: ask, be granted, be forgotten. *)
LEMMA LockByDaemon ==
    ASSUME TypeOK, LockInv, NEW a \in Actor, Acquire(a) \/ Granted(a) \/ Forget(a)
    PROVE  LockInv'
<1> USE WriterAssumption DEF LockInv, Polling, Connected, Ended
<1> DEFINE q == line[RepoOf[a]]
<1>0. q \in Seq(Actor) /\ RepoOf[a] \in Repo
  BY DEF TypeOK
<1>1. ASSUME Acquire(a)
      PROVE  LockInv'
  <2>1. \A x \in Actor : pc'[x] = IF x = a THEN "waiting" ELSE pc[x]
    BY <1>1 DEF Acquire, Move, TypeOK
  <2>2. pc[a] = "probed" /\ guard[a] = "none" /\ DaemonAtStart
    BY <1>1 DEF Acquire, Move, GuardedInside, Inside, OneRoad
  <2>3. /\ UNCHANGED <<guard, flock, label, daemon, dead>>
        /\ line' = [line EXCEPT ![RepoOf[a]] = Append(q, a)]
    BY <1>1 DEF Acquire, fileVars
  <2>4. OneRoad' /\ GuardedInside' /\ FileHolds' /\ DeadWereKillable'
    BY <2>1, <2>2, <2>3 DEF OneRoad, GuardedInside, Inside, FileHolds, DeadWereKillable
  <2>5. LabelIsHonest'
    BY <2>1, <2>2, <2>3, LabelStays
  <2>6. DaemonHolds'
    <3> SUFFICES ASSUME NEW x \in Actor, guard[x] = "daemon"
                 PROVE  AtHead(x)'
      BY <2>3 DEF DaemonHolds
    <3>1. AtHead(x)
      BY DEF DaemonHolds
    <3>2. CASE RepoOf[x] = RepoOf[a]
      <4>1. q # <<>> /\ Head(q) = x
        BY <3>1, <3>2 DEF AtHead
      <4>2. Append(q, a) # <<>> /\ Head(Append(q, a)) = x
        BY ONLY a \in Actor, <1>0, <4>1, AppendKeepsHead
      <4> QED
        BY <4>2, <3>2, <2>3, <1>0 DEF AtHead, TypeOK
    <3>3. CASE RepoOf[x] # RepoOf[a]
      BY <3>1, <3>3, <2>3 DEF AtHead, TypeOK
    <3> QED
      BY <3>2, <3>3
  <2>7. LineIsHonest'
    <3> SUFFICES ASSUME NEW r \in Repo, NEW k \in DOMAIN line'[r]
                 PROVE  /\ RepoOf[line'[r][k]] = r
                        /\ pc'[line'[r][k]] \notin {"off", "idle", "connected", "probed"}
                        /\ pc'[line'[r][k]] \in {"writing", "parked"} => guard'[line'[r][k]] = "daemon"
      BY DEF LineIsHonest, Inside
    <3>1. \/ line'[r][k] = a /\ r = RepoOf[a]
          \/ k \in DOMAIN line[r] /\ line'[r][k] = line[r][k]
      <4>1. CASE r = RepoOf[a]
        <5>1. line'[r] = Append(q, a)
          BY <4>1, <2>3 DEF TypeOK
        <5> QED
          BY <5>1, <4>1, <1>0, AppendElements
      <4>2. CASE r # RepoOf[a]
        BY <4>2, <2>3 DEF TypeOK
      <4> QED
        BY <4>1, <4>2
    <3>2. CASE line'[r][k] = a /\ r = RepoOf[a]
      BY <3>2, <2>1 DEF Inside
    <3>3. CASE k \in DOMAIN line[r] /\ line'[r][k] = line[r][k]
      <4>1. line[r][k] \in Actor
        BY <3>3 DEF TypeOK
      <4>2. /\ RepoOf[line[r][k]] = r
            /\ pc[line[r][k]] \notin {"off", "idle", "connected", "probed"}
            /\ Inside(line[r][k]) => guard[line[r][k]] = "daemon"
        BY <3>3 DEF LineIsHonest
      <4>3. line[r][k] # a
        BY <4>2, <2>2
      <4>4. pc'[line[r][k]] = pc[line[r][k]] /\ guard'[line[r][k]] = guard[line[r][k]]
        BY <4>1, <4>3, <2>1, <2>3
      <4> QED
        BY <4>2, <4>4, <3>3 DEF Inside
    <3> QED
      BY <3>1, <3>2, <3>3
  <2> QED
    BY <2>4, <2>5, <2>6, <2>7
<1>2. ASSUME Granted(a)
      PROVE  LockInv'
  <2>1. /\ \A x \in Actor : pc'[x] = IF x = a THEN "writing" ELSE pc[x]
        /\ \A x \in Actor : guard'[x] = IF x = a THEN "daemon" ELSE guard[x]
    BY <1>2 DEF Granted, Enter, Move, TypeOK
  <2>2. pc[a] = "waiting" /\ guard[a] = "none" /\ DaemonAtStart /\ AtHead(a)
    BY <1>2 DEF Granted, Enter, Move, GuardedInside, Inside, OneRoad
  <2>3. UNCHANGED <<line, flock, label, daemon, dead>>
    BY <1>2 DEF Granted, fileVars, daemonVars
  <2>4. OneRoad' /\ GuardedInside' /\ FileHolds' /\ DeadWereKillable'
    BY <2>1, <2>2, <2>3 DEF OneRoad, GuardedInside, Inside, FileHolds, DeadWereKillable
  <2>5. LabelIsHonest'
    BY <2>1, <2>2, <2>3, LabelStays
  <2>6. DaemonHolds'
    BY <2>1, <2>2, <2>3 DEF DaemonHolds, AtHead
  <2>7. LineIsHonest'
    BY <2>1, <2>3, LineStays
  <2> QED
    BY <2>4, <2>5, <2>6, <2>7
<1>3. ASSUME Forget(a)
      PROVE  LockInv'
  <2>1. UNCHANGED <<pc, guard, flock, label, daemon, dead>>
    BY <1>3 DEF Forget, fileVars
  <2>2. guard[a] = "none"
    BY <1>3 DEF Forget, GuardedInside, Inside
  <2>3. line' = [line EXCEPT ![RepoOf[a]] = Retain(q, a)]
    BY <1>3 DEF Forget
  <2>4. GuardedInside' /\ FileHolds' /\ DeadWereKillable' /\ LabelIsHonest'
    BY <2>1 DEF GuardedInside, Inside, FileHolds, DeadWereKillable, LabelIsHonest
  <2>5. OneRoad'
    <3>1. ~DaemonAtStart => FALSE
      BY <1>0, <1>3 DEF OneRoad, Forget, InLine
    <3> QED
      BY <2>1, <3>1 DEF OneRoad
  <2>6. DaemonHolds'
    <3> SUFFICES ASSUME NEW x \in Actor, guard[x] = "daemon"
                 PROVE  AtHead(x)'
      BY <2>1 DEF DaemonHolds
    <3>1. AtHead(x) /\ x # a
      BY <2>2 DEF DaemonHolds
    <3>2. CASE RepoOf[x] = RepoOf[a]
      <4>1. Retain(q, a) # <<>> /\ Head(Retain(q, a)) = x
        BY <1>0, <3>1, <3>2, RetainKeepsHead DEF AtHead
      <4> QED
        BY <4>1, <3>2, <2>3, <1>0 DEF AtHead, TypeOK
    <3>3. CASE RepoOf[x] # RepoOf[a]
      BY <3>1, <3>3, <2>3 DEF AtHead, TypeOK
    <3> QED
      BY <3>2, <3>3
  <2>7. LineIsHonest'
    <3> SUFFICES ASSUME NEW r \in Repo, NEW k \in DOMAIN line'[r]
                 PROVE  /\ RepoOf[line'[r][k]] = r
                        /\ pc[line'[r][k]] \notin {"off", "idle", "connected", "probed"}
                        /\ Inside(line'[r][k]) => guard[line'[r][k]] = "daemon"
      BY <2>1 DEF LineIsHonest, Inside
    <3>1. PICK m \in DOMAIN line[r] : line'[r][k] = line[r][m]
      <4>1. CASE r = RepoOf[a]
        <5>1. line'[r] = Retain(q, a)
          BY <4>1, <2>3 DEF TypeOK
        <5> QED
          BY <5>1, <4>1, <1>0, RetainElements
      <4>2. CASE r # RepoOf[a]
        BY <4>2, <2>3 DEF TypeOK
      <4> QED
        BY <4>1, <4>2
    <3> QED
      BY <3>1 DEF LineIsHonest
  <2> QED
    BY <2>4, <2>5, <2>6, <2>7
<1> QED
  BY <1>1, <1>2, <1>3

(* The lane file's road: the flock, the empty file, the pid in it. *)
LEMMA LockByFile ==
    ASSUME TypeOK, LockInv, NEW a \in Actor, TakeLane(a) \/ Truncate(a) \/ Publish(a)
    PROVE  LockInv'
<1> USE WriterAssumption DEF LockInv, Polling, Connected, Ended
<1>0. RepoOf[a] \in Repo /\ ~DaemonAtStart
  BY DEF OneRoad, TakeLane, Truncate, Publish, Enter, Move
<1>1. guard[a] = "none" /\ pc[a] \in {"opened", "locked", "cleared"}
  BY DEF GuardedInside, Inside, TakeLane, Truncate, Publish, Enter, Move
<1>2. UNCHANGED <<line, daemon, dead>>
  BY DEF TakeLane, Truncate, Publish, daemonVars
<1>3. LineIsHonest'
  BY <1>0, <1>2, LineStays
<1>4. DeadWereKillable'
  BY <1>2 DEF DeadWereKillable
<1>5. ASSUME TakeLane(a) \/ Truncate(a)
      PROVE  LockInv'
  <2> DEFINE t == IF pc[a] = "opened" THEN "locked" ELSE "cleared"
  <2>1. \A x \in Actor : pc'[x] = IF x = a THEN t ELSE pc[x]
    BY <1>5 DEF TakeLane, Truncate, Move, TypeOK
  <2>2. t \in {"locked", "cleared"} /\ UNCHANGED guard
    BY <1>5 DEF TakeLane, Truncate
  <2> HIDE DEF t
  <2>3. OneRoad' /\ GuardedInside' /\ DaemonHolds'
    BY <1>0, <1>1, <1>2, <2>1, <2>2 DEF OneRoad, GuardedInside, Inside, DaemonHolds, AtHead
  <2>4. FileHolds'
    <3>1. CASE TakeLane(a)
      <4>1. /\ flock[RepoOf[a]] = NoActor
            /\ flock' = [flock EXCEPT ![RepoOf[a]] = a]
        BY <3>1 DEF TakeLane
      <4>2. flock'[RepoOf[a]] = a
        BY <4>1, <1>0 DEF TypeOK
      <4>3. \A x \in Actor : flock[RepoOf[x]] = x => flock'[RepoOf[x]] = x
        BY <4>1, <1>0 DEF TypeOK
      <4> QED
        BY <4>2, <4>3, <2>1, <2>2 DEF FileHolds
    <3>2. CASE Truncate(a)
      <4>1. flock' = flock /\ pc[a] = "locked"
        BY <3>2 DEF Truncate, Move
      <4> QED
        BY <4>1, <2>1, <2>2 DEF FileHolds
    <3> QED
      BY <1>5, <3>1, <3>2
  <2>5. LabelIsHonest'
    <3>1. \A r \in Repo : label'[r] = label[r] \/ label'[r] = NoProc
      BY <1>5, <1>0 DEF TakeLane, Truncate, TypeOK
    <3> SUFFICES ASSUME NEW r \in Repo, label'[r] # NoProc
                 PROVE  \E b \in Actor : /\ ProcOf[b] = label'[r]
                                         /\ RepoOf[b] = r
                                         /\ pc'[b] \in Ended \/ guard'[b] = "file"
      BY DEF LabelIsHonest
    <3>2. PICK b \in Actor : /\ ProcOf[b] = label[r]
                             /\ RepoOf[b] = r
                             /\ pc[b] \in Ended \/ guard[b] = "file"
      BY <3>1 DEF LabelIsHonest
    <3>3. b # a
      BY <3>2, <1>1
    <3> QED
      BY <3>1, <3>2, <3>3, <2>1, <2>2
  <2> QED
    BY <1>3, <1>4, <2>3, <2>4, <2>5
<1>6. ASSUME Publish(a)
      PROVE  LockInv'
  <2>1. /\ \A x \in Actor : pc'[x] = IF x = a THEN "writing" ELSE pc[x]
        /\ \A x \in Actor : guard'[x] = IF x = a THEN "file" ELSE guard[x]
    BY <1>6 DEF Publish, Enter, Move, TypeOK
  <2>2. /\ pc[a] = "cleared" /\ flock' = flock
        /\ label' = [label EXCEPT ![RepoOf[a]] = ProcOf[a]]
    BY <1>6 DEF Publish, Enter, Move, HoldersPid
  <2>3. OneRoad' /\ GuardedInside' /\ DaemonHolds' /\ FileHolds'
    BY <1>0, <1>1, <1>2, <2>1, <2>2, ZenonT(60)
       DEF OneRoad, GuardedInside, Inside, DaemonHolds, AtHead, FileHolds
  <2>4. LabelIsHonest'
    <3> SUFFICES ASSUME NEW r \in Repo, label'[r] # NoProc
                 PROVE  \E b \in Actor : /\ ProcOf[b] = label'[r]
                                         /\ RepoOf[b] = r
                                         /\ pc'[b] \in Ended \/ guard'[b] = "file"
      BY DEF LabelIsHonest
    <3>1. CASE r = RepoOf[a]
      BY <3>1, <2>1, <2>2, <1>0 DEF TypeOK
    <3>2. CASE r # RepoOf[a]
      <4>1. label'[r] = label[r]
        BY <3>2, <2>2 DEF TypeOK
      <4>2. PICK b \in Actor : /\ ProcOf[b] = label[r]
                               /\ RepoOf[b] = r
                               /\ pc[b] \in Ended \/ guard[b] = "file"
        BY <4>1 DEF LabelIsHonest
      <4> QED
        BY <4>1, <4>2, <3>2, <2>1
    <3> QED
      BY <3>1, <3>2
  <2> QED
    BY <1>3, <1>4, <2>3, <2>4
<1> QED
  BY <1>5, <1>6

(* A writer ends, of itself or by a kill: its hold ends with it. *)
LEMMA LockLeaves ==
    ASSUME OneMechanism, TypeOK, LockInv, NEW a \in Actor, Finish(a) \/ Kill(a)
    PROVE  LockInv'
<1> USE WriterAssumption DEF LockInv, Polling, Connected, Ended
<1> DEFINE t == IF Finish(a) THEN "over" ELSE "killed"
<1>1. /\ \A x \in Actor : pc'[x] = IF x = a THEN t ELSE pc[x]
      /\ \A x \in Actor : guard'[x] = IF x = a THEN "none" ELSE guard[x]
      /\ flock' = Unlocked({a})
      /\ UNCHANGED <<label, line, daemon>>
  <2>1. CASE Finish(a)
    BY <2>1 DEF Finish, Move, TypeOK, daemonVars
  <2>2. CASE ~Finish(a)
    <3>1. Kill(a)
      BY <2>2
    <3>2. Threads(ProcOf[a]) = {a}
      BY <3>1 DEF Threads, OneMechanism, Kill
    <3> QED
      BY <2>2, <3>1, <3>2 DEF Kill, TypeOK, daemonVars
  <2> QED
    BY <2>1, <2>2
<1>2. t \in {"over", "killed"} /\ pc[a] \notin Ended \cup {"off"}
  BY DEF Finish, Kill, Move
<1>3. dead' = dead \/ (a \in Killable /\ dead' = dead \cup {ProcOf[a]})
  BY DEF Finish, Kill
<1> HIDE DEF t
<1>4. OneRoad' /\ GuardedInside' /\ DaemonHolds'
  BY <1>1, <1>2 DEF OneRoad, GuardedInside, Inside, DaemonHolds, AtHead
<1>5. FileHolds'
  <2>1. \A x \in Actor : x # a /\ flock[RepoOf[x]] = x => flock'[RepoOf[x]] = x
    BY <1>1 DEF Unlocked
  <2> QED
    BY <1>1, <1>2, <2>1 DEF FileHolds
<1>6. LineIsHonest'
  BY <1>1, <1>2, LineStays DEF Inside
<1>7. LabelIsHonest'
  BY <1>1, <1>2, LabelStays
<1>8. DeadWereKillable'
  BY <1>3 DEF DeadWereKillable
<1> QED
  BY <1>4, <1>5, <1>6, <1>7, <1>8

(* A hook starts, or its writer goes on when it has ended: holds stay. *)
LEMMA LockFamily ==
    ASSUME OneMechanism, TypeOK, LockInv, NEW a \in Actor, Spawn(a) \/ Resume(a)
    PROVE  LockInv'
<1> USE WriterAssumption DEF LockInv, Polling, Connected, Ended
<1>1. UNCHANGED <<guard, line, flock, label, daemon, dead>>
  BY DEF Spawn, Resume, fileVars, daemonVars
<1>2. \A x \in Actor : \/ pc'[x] = pc[x]
                       \/ pc[x] = "off" /\ pc'[x] = "idle"
                       \/ pc[x] = "writing" /\ pc'[x] = "parked"
                       \/ pc[x] = "parked" /\ pc'[x] = "writing"
  <2>1. CASE Spawn(a)
    <3>1. Spawner[a] \in Actor /\ a \in Hooks
      BY <2>1 DEF Spawn, OneMechanism
    <3>2. /\ pc[a] = "off" /\ pc[Spawner[a]] = "writing"
          /\ pc' = [pc EXCEPT ![a] = "idle", ![Spawner[a]] = "parked"]
      BY <2>1, <3>1 DEF Spawn
    <3> QED
      BY <3>1, <3>2 DEF TypeOK
  <2>2. CASE Resume(a)
    BY <2>2 DEF Resume, Move, TypeOK
  <2> QED
    BY <2>1, <2>2
<1>3. OneRoad'
  BY <1>1, <1>2 DEF OneRoad
<1>4. GuardedInside'
  BY <1>1, <1>2 DEF GuardedInside, Inside
<1>5. DaemonHolds' /\ FileHolds'
  BY <1>1, <1>2 DEF DaemonHolds, FileHolds, AtHead
<1>6. LineIsHonest'
  <2>1. \A x \in Actor : \/ pc'[x] = pc[x]
                         \/ Inside(x) /\ Inside(x)'
                         \/ pc[x] = "off"
    BY <1>2 DEF Inside
  <2> QED
    BY <1>1, <2>1, LineStays
<1>7. LabelIsHonest'
  BY <1>1, <1>2, LabelStays
<1>8. DeadWereKillable'
  BY <1>1 DEF DeadWereKillable
<1> QED
  BY <1>3, <1>4, <1>5, <1>6, <1>7, <1>8

LEMMA LockStep ==
    ASSUME OneMechanism, TypeOK, LockInv, [Next]_vars
    PROVE  LockInv'
<1>1. ASSUME NEW a \in Actor, Connect(a) \/ Fallback(a) \/ WouldBlock(a)
      PROVE  LockInv'
  <2>1. UNCHANGED <<guard, line, flock, label, daemon, dead>>
    BY <1>1 DEF Connect, Fallback, WouldBlock, fileVars, daemonVars
  <2>2. CASE Connect(a)
    <3> DEFINE t == IF daemon = "up" THEN "connected" ELSE "opened"
    <3>1. Move(a, "idle", t)
      BY <2>2 DEF Connect
    <3>2. DaemonAtStart <=> t \in {"connected", "probed"}
      BY WriterAssumption DEF LockInv, OneRoad
    <3>3. t \in {"connected", "probed", "opened", "blocked", "denied"}
      OBVIOUS
    <3> HIDE DEF t
    <3> QED
      BY <2>1, <3>1, <3>2, <3>3, LockQuiet
  <2>3. CASE Fallback(a)
    BY <2>3, WriterAssumption DEF Fallback, Move, LockInv, OneRoad
  <2>4. CASE WouldBlock(a)
    <3>1. Move(a, "opened", "blocked")
      BY <2>4 DEF WouldBlock
    <3>2. ~DaemonAtStart
      BY <3>1, WriterAssumption DEF Move, LockInv, OneRoad, Polling
    <3> QED
      BY <2>1, <3>1, <3>2, LockQuiet
  <2> QED
    BY <1>1, <2>2, <2>3, <2>4
<1>2. ASSUME NEW a \in Actor, Probe(a)
      PROVE  LockInv'
  <2>1. UNCHANGED <<line, flock, label, daemon, dead>>
    BY <1>2 DEF Probe, fileVars, daemonVars
  <2>2. CASE Enter(a, "connected", "noop")
    BY <2>1, <2>2, LockNoOp
  <2>3. CASE Move(a, "connected", "probed") /\ UNCHANGED guard
    <3>1. DaemonAtStart
      BY <2>3, WriterAssumption DEF Move, LockInv, OneRoad, Connected
    <3> QED
      BY <2>1, <2>3, <3>1, LockQuiet
  <2> QED
    BY <1>2, <2>2, <2>3 DEF Probe
<1>3. ASSUME NEW a \in Actor, ReadLabel(a)
      PROVE  LockInv'
  <2>1. UNCHANGED <<line, flock, label, daemon, dead>>
    BY <1>3 DEF ReadLabel, daemonVars
  <2>2. CASE Enter(a, "blocked", "noop")
    BY <2>1, <2>2, LockNoOp
  <2>3. ASSUME NEW t \in {"opened", "denied"}, Move(a, "blocked", t), UNCHANGED guard
        PROVE  LockInv'
    <3>1. ~DaemonAtStart
      BY <2>3, WriterAssumption DEF Move, LockInv, OneRoad, Polling
    <3> QED
      BY <2>1, <2>3, <3>1, LockQuiet
  <2> QED
    BY <1>3, <2>2, <2>3 DEF ReadLabel, Deny
<1>4. ASSUME UNCHANGED vars
      PROVE  LockInv'
  BY <1>4 DEF vars, LockInv, OneRoad, GuardedInside, Inside, DaemonHolds, AtHead,
              FileHolds, LineIsHonest, LabelIsHonest, DeadWereKillable
<1> QED
  BY <1>1, <1>2, <1>3, <1>4, DaemonStays, LockByDaemon, LockByFile, LockLeaves, LockFamily
     DEF Next, Lock, Work

-----------------------------------------------------------------------------
(* What a guard that holds nothing leans on. *)

LEMMA CoverStays ==
    ASSUME Covered,
           \A x \in Actor : guard'[x] # guard[x] =>
              \/ guard[x] = "none" /\ guard'[x] # "noop"
              \/ /\ guard'[x] = "none"
                 /\ \A c \in Actor : guard[c] = "noop" => x \notin Above(c)
    PROVE  Covered'
<1> SUFFICES ASSUME NEW a \in Actor, guard'[a] = "noop"
             PROVE  \E b \in Above(a) : RepoOf[b] = RepoOf[a] /\ guard'[b] \in {"daemon", "file"}
  BY DEF Covered, Above
<1>1. guard[a] = "noop"
  OBVIOUS
<1>2. PICK b \in Above(a) : RepoOf[b] = RepoOf[a] /\ guard[b] \in {"daemon", "file"}
  BY <1>1 DEF Covered
<1>3. b \in Actor
  BY DEF Above
<1> QED
  BY <1>1, <1>2, <1>3

(* Whoever finds an ancestor's hold may lean on it. *)
LEMMA CoverFound ==
    ASSUME Covered, TypeOK, NEW a \in Actor, NEW f, Enter(a, f, "noop"), guard[a] = "none",
           NEW b \in Above(a), RepoOf[b] = RepoOf[a], guard[b] \in {"daemon", "file"}
    PROVE  Covered'
<1> SUFFICES ASSUME NEW c \in Actor, guard'[c] = "noop"
             PROVE  \E d \in Above(c) : RepoOf[d] = RepoOf[c] /\ guard'[d] \in {"daemon", "file"}
  BY DEF Covered, Above
<1>1. \A x \in Actor : x # a => guard'[x] = guard[x]
  BY DEF Enter, TypeOK
<1>2. CASE c = a
  <2>1. b \in Actor /\ b # a
    BY DEF Above
  <2> QED
    BY <1>1, <1>2, <2>1
<1>3. CASE c # a
  <2>1. PICK d \in Above(c) : RepoOf[d] = RepoOf[c] /\ guard[d] \in {"daemon", "file"}
    BY <1>1, <1>3 DEF Covered
  <2>2. d \in Actor /\ d # a
    BY <2>1 DEF Above
  <2> QED
    BY <1>1, <2>1, <2>2
<1> QED
  BY <1>2, <1>3

LEMMA CoveredStep ==
    ASSUME OneMechanism, Inv, [Next]_vars
    PROVE  Covered'
<1> USE WriterAssumption DEF Inv
<1>1. \A a \in Actor : pc[a] \in {"idle", "connected", "blocked", "waiting", "cleared"} => guard[a] = "none"
  BY DEF LockInv, GuardedInside, Inside
<1>2. \A c, b \in Actor : Active(c) /\ b \in Above(c) => pc[b] = "parked"
  BY DEF FamilyInv, ParentsWait
<1>3. \A c \in Actor : guard[c] = "noop" => Active(c)
  BY DEF LockInv, GuardedInside, Inside, Active, Ended
<1>4. ASSUME UNCHANGED guard
      PROVE  Covered'
  BY <1>4, CoverStays
<1>5. ASSUME NEW a \in Actor, NEW f \in {"waiting", "cleared"}, NEW g \in {"daemon", "file"},
             Enter(a, f, g)
      PROVE  Covered'
  <2>1. \A x \in Actor : guard'[x] # guard[x] => x = a /\ guard'[x] = g
    BY <1>5 DEF Enter, TypeOK
  <2>2. guard[a] = "none"
    BY <1>1, <1>5 DEF Enter, Move
  <2> QED
    BY <2>1, <2>2, CoverStays
<1>6. ASSUME NEW a \in Actor, Probe(a)
      PROVE  Covered'
  <2>1. CASE Enter(a, "connected", "noop") /\ HeldByAncestor(a)
    <3> DEFINE r == RepoOf[a]
               b == Head(line[r])
    <3>1. r \in Repo /\ line[r] \in Seq(Actor) /\ line[r] # <<>>
      BY <2>1 DEF HeldByAncestor, TypeOK
    <3>2. 1 \in DOMAIN line[r] /\ b = line[r][1] /\ b \in Actor
      BY <3>1
    <3>3. b \in Above(a)
      BY <2>1, <3>2 DEF HeldByAncestor, IsAncestor, Above
    <3>4. pc[a] = "connected" /\ guard[a] = "none" /\ Active(a)
      BY <1>1, <2>1 DEF Enter, Move, Active, Ended
    <3>5. pc[b] = "parked"
      BY <1>2, <3>2, <3>3, <3>4
    <3>6. RepoOf[b] = r /\ guard[b] = "daemon"
      BY <3>1, <3>2, <3>5 DEF LockInv, LineIsHonest, Inside
    <3> QED
      BY <2>1, <3>3, <3>4, <3>6, CoverFound
  <2>2. CASE UNCHANGED guard
    BY <2>2, <1>4
  <2> QED
    BY <1>6, <2>1, <2>2 DEF Probe
<1>7. ASSUME NEW a \in Actor, ReadLabel(a)
      PROVE  Covered'
  <2> DEFINE r == RepoOf[a]
             pid == label[r]
  <2>1. CASE Enter(a, "blocked", "noop") /\ IsAncestor(a, pid)
    <3>1. PICK k \in DOMAIN Chain[a] : Chain[a][k] = pid
      BY <2>1 DEF IsAncestor
    <3>2. pid # NoProc /\ r \in Repo
      BY <3>1
    <3>3. PICK b \in Actor : /\ ProcOf[b] = pid
                             /\ RepoOf[b] = r
                             /\ pc[b] \in Ended \/ guard[b] = "file"
      BY <3>2 DEF LockInv, LabelIsHonest
    <3>4. b \in Above(a)
      BY <3>1, <3>3 DEF Above
    <3>5. pc[a] = "blocked" /\ guard[a] = "none" /\ Active(a)
      BY <1>1, <2>1 DEF Enter, Move, Active, Ended
    <3>6. pc[b] = "parked"
      BY <1>2, <3>4, <3>5
    <3>7. guard[b] = "file"
      BY <3>3, <3>6 DEF Ended
    <3> QED
      BY <2>1, <3>3, <3>4, <3>5, <3>7, CoverFound
  <2>2. CASE UNCHANGED guard
    BY <2>2, <1>4
  <2> QED
    BY <1>7, <2>1, <2>2 DEF ReadLabel, Deny
<1>8. ASSUME NEW a \in Actor, Finish(a) \/ Kill(a)
      PROVE  Covered'
  <2>1. \A x \in Actor : guard'[x] # guard[x] => x = a /\ guard'[x] = "none"
    <3>1. CASE Finish(a)
      BY <3>1 DEF Finish, TypeOK
    <3>2. CASE Kill(a)
      <4>1. \A x \in Threads(ProcOf[a]) : x = a
        BY DEF Threads, OneMechanism
      <4> QED
        BY <3>2, <4>1 DEF Kill, TypeOK
    <3> QED
      BY <1>8, <3>1, <3>2
  <2>2. ASSUME NEW c \in Actor, guard[c] = "noop", a \in Above(c)
        PROVE  FALSE
    <3>1. CASE Finish(a)
      BY <1>2, <1>3, <2>2, <3>1 DEF Finish, Move
    <3>2. CASE Kill(a)
      <4>1. PICK h \in Hooks : Spawner[h] = a
        BY <2>2 DEF OneMechanism
      <4> QED
        BY <3>2, <4>1 DEF OneMechanism, Kill
    <3> QED
      BY <1>8, <3>1, <3>2
  <2> QED
    BY <2>1, <2>2, CoverStays
<1>9. ASSUME NEW a \in Actor,
             Spawn(a) \/ Resume(a) \/ Connect(a) \/ Acquire(a) \/ Fallback(a) \/ TakeLane(a)
                \/ WouldBlock(a) \/ Truncate(a) \/ Forget(a)
      PROVE  Covered'
  BY <1>9, <1>4 DEF Spawn, Resume, Connect, Acquire, Fallback, TakeLane, WouldBlock,
                    Truncate, Forget
<1>10. ASSUME NEW a \in Actor, Granted(a) \/ Publish(a)
       PROVE  Covered'
  BY <1>10, <1>5 DEF Granted, Publish
<1>11. ASSUME UNCHANGED vars
       PROVE  Covered'
  BY <1>11, <1>4 DEF vars
<1> QED
  BY <1>6, <1>7, <1>8, <1>9, <1>10, <1>11, DaemonStays DEF Next, Lock, Work

-----------------------------------------------------------------------------
(* The theorems. *)

LEMMA InvInit == ASSUME OneMechanism, Init PROVE Inv
<1> USE WriterAssumption DEF Init, Polling, Connected, Ended
<1>1. TypeOK
  BY DEF TypeOK, PC
<1>2. \A a \in Actor : pc[a] \in {"idle", "off"} /\ guard[a] = "none"
  OBVIOUS
<1>3. \A a \in Actor : Active(a) => Spawner[a] = NoActor
  BY DEF Active
<1>4. LockInv
  BY <1>2 DEF LockInv, OneRoad, GuardedInside, Inside, DaemonHolds, FileHolds, LineIsHonest,
              LabelIsHonest, DeadWereKillable
<1>5. Covered
  BY <1>2 DEF Covered
<1>6. FamilyInv
  BY <1>3 DEF OneMechanism, FamilyInv, ParentsWait, OneBranch
<1> QED
  BY <1>1, <1>4, <1>5, <1>6 DEF Inv

(* Inv is inductive. *)
LEMMA InvStep == ASSUME OneMechanism, Inv, [Next]_vars PROVE Inv'
  BY TypeStep, FamilyStep, LockStep, CoveredStep DEF Inv

(* Two actors with a hold on one repository are one. *)
LEMMA OneHold ==
    ASSUME LockInv, NEW a \in Actor, NEW b \in Actor, RepoOf[a] = RepoOf[b],
           guard[a] \in {"daemon", "file"}, guard[b] \in {"daemon", "file"}
    PROVE  a = b
<1>1. CASE DaemonAtStart
  <2>1. guard[a] = "daemon" /\ guard[b] = "daemon"
    BY <1>1 DEF LockInv, OneRoad
  <2> QED
    BY <2>1 DEF LockInv, DaemonHolds, AtHead
<1>2. CASE ~DaemonAtStart
  <2>1. guard[a] = "file" /\ guard[b] = "file"
    BY <1>2 DEF LockInv, OneRoad
  <2> QED
    BY <2>1 DEF LockInv, FileHolds
<1> QED
  BY <1>1, <1>2

LEMMA InvExcludes == ASSUME Inv PROVE AtMostOneWriter
<1> SUFFICES ASSUME NEW a \in Actor, NEW b \in Actor, pc[a] = "writing", pc[b] = "writing",
                    RepoOf[a] = RepoOf[b]
             PROVE  a = b
  BY DEF AtMostOneWriter
<1>1. \A c \in {a, b} : c \in Actor /\ Active(c) /\ guard[c] \in {"daemon", "file", "noop"}
  BY DEF Inv, TypeOK, LockInv, GuardedInside, Inside, Active, Ended
<1>2. ASSUME NEW c \in {a, b}
      PROVE  a \notin Above(c) /\ b \notin Above(c)
  BY <1>1 DEF Inv, FamilyInv, ParentsWait
<1>3. ASSUME NEW c \in {a, b}
      PROVE  \E h \in Actor : /\ h = c \/ h \in Above(c)
                              /\ RepoOf[h] = RepoOf[a]
                              /\ guard[h] \in {"daemon", "file"}
  <2>1. CASE guard[c] = "noop"
    BY <1>1, <2>1 DEF Inv, Covered, Above
  <2>2. CASE guard[c] # "noop"
    BY <1>1, <2>2
  <2> QED
    BY <2>1, <2>2
<1>4. PICK h \in Actor : /\ h = a \/ h \in Above(a)
                         /\ RepoOf[h] = RepoOf[a]
                         /\ guard[h] \in {"daemon", "file"}
  BY <1>3
<1>5. PICK g \in Actor : /\ g = b \/ g \in Above(b)
                         /\ RepoOf[g] = RepoOf[a]
                         /\ guard[g] \in {"daemon", "file"}
  BY <1>3
<1>6. g = h
  BY <1>4, <1>5, OneHold DEF Inv
<1>7. CASE h \in Above(a) /\ g \in Above(b)
  <2>1. Above(a) \cap Above(b) # {}
    BY <1>6, <1>7
  <2>2. a = b \/ a \in Above(b) \/ b \in Above(a)
    BY <2>1, <1>1 DEF Inv, FamilyInv, OneBranch
  <2> QED
    BY <2>2, <1>2
<1> QED
  BY <1>2, <1>4, <1>5, <1>6, <1>7

(* Whoever has an ancestor's hold over it sees it alive: no process with    *)
(* hooks is killed, so the chain of parents is whole.                       *)
LEMMA InvCovers == ASSUME OneMechanism, Inv PROVE NoOpIsCovered
<1> SUFFICES ASSUME NEW a \in Actor, guard[a] = "noop"
             PROVE  \E b \in Actor : /\ pc[b] = "parked"
                                     /\ guard[b] \in {"daemon", "file"}
                                     /\ RepoOf[b] = RepoOf[a]
                                     /\ IsAncestor(a, ProcOf[b])
  BY DEF NoOpIsCovered
<1>1. PICK b \in Above(a) : RepoOf[b] = RepoOf[a] /\ guard[b] \in {"daemon", "file"}
  BY DEF Inv, Covered
<1>2. b \in Actor /\ \E k \in DOMAIN Chain[a] : Chain[a][k] = ProcOf[b]
  BY <1>1 DEF Above
<1>3. Active(a)
  BY DEF Inv, LockInv, GuardedInside, Inside, Active, Ended
<1>4. pc[b] = "parked"
  BY <1>1, <1>3 DEF Inv, FamilyInv, ParentsWait
<1>5. ASSUME NEW i \in DOMAIN Chain[a], Chain[a][i] \in dead
      PROVE  FALSE
  <2>1. PICK x \in Killable : ProcOf[x] = Chain[a][i]
    BY <1>5 DEF Inv, LockInv, DeadWereKillable
  <2>2. x \in Actor /\ x \in Above(a)
    BY <2>1, WriterAssumption DEF Above
  <2> QED
    BY <2>1, <2>2 DEF OneMechanism
<1>6. PICK k \in DOMAIN Chain[a] : Chain[a][k] = ProcOf[b]
  BY <1>2
<1>7. \A i \in 1 .. k : i \in DOMAIN Chain[a]
  BY <1>6, WriterAssumption
<1>8. IsAncestor(a, ProcOf[b])
  BY <1>5, <1>6, <1>7 DEF IsAncestor
<1> QED
  BY <1>1, <1>2, <1>4, <1>8

(* As long as the daemon neither comes nor goes and no connection to it     *)
(* fails, whoever has an ancestor among the writers is a hook it waits for, *)
(* and no process with hooks is killed: at most one actor writes a          *)
(* repository at any time, for any number of actors and repositories and    *)
(* any depth of hooks.  Without the first two conditions the lane file and  *)
(* a lane of the daemon each let one writer in.                             *)
THEOREM Exclusion == OneMechanism => (Spec => []AtMostOneWriter)
<1> SUFFICES ASSUME OneMechanism
             PROVE  Spec => []AtMostOneWriter
  OBVIOUS
<1>1. Init => Inv
  BY InvInit
<1>2. Inv /\ [Next]_vars => Inv'
  BY InvStep
<1>3. Inv => AtMostOneWriter
  BY InvExcludes
<1> QED
  BY <1>1, <1>2, <1>3, PTL DEF Spec

(* Under the same conditions a guard that holds nothing is given only       *)
(* inside the critical section of an ancestor that holds the lane of the    *)
(* same repository and waits, and stays inside it.                          *)
THEOREM NoOpsCovered == OneMechanism => (Spec => []NoOpIsCovered)
<1> SUFFICES ASSUME OneMechanism
             PROVE  Spec => []NoOpIsCovered
  OBVIOUS
<1>1. Init => Inv
  BY InvInit
<1>2. Inv /\ [Next]_vars => Inv'
  BY InvStep
<1>3. Inv => NoOpIsCovered
  BY InvCovers
<1> QED
  BY <1>1, <1>2, <1>3, PTL DEF Spec

-----------------------------------------------------------------------------
(* The pid in the lane file, whatever the daemon does meanwhile.  Only who  *)
(* has the flock writes the file, and it writes before it looks up from the *)
(* file for the first time: so a holder that waits for its hooks is always  *)
(* named in it.                                                             *)

HoldersPlace == {"locked", "cleared", "writing", "parked"}

HolderIsNamed ==
    /\ \A a \in Actor : pc[a] \in {"locked", "cleared"} => flock[RepoOf[a]] = a
    /\ \A r \in Repo : \A b \in Actor : flock[r] = b =>
          /\ RepoOf[b] = r
          /\ pc[b] \in HoldersPlace
          /\ pc[b] \in {"writing", "parked"} => label[r] = ProcOf[b]

(* A step that leaves the lane file alone and takes nobody into it or out.  *)
LEMMA NamedStays ==
    ASSUME HolderIsNamed, UNCHANGED <<flock, label>>,
           \A x \in Actor :
              \/ pc'[x] = pc[x]
              \/ pc[x] \in {"writing", "parked"} /\ pc'[x] \in {"writing", "parked"}
              \/ pc[x] \notin HoldersPlace /\ pc'[x] \notin {"locked", "cleared"}
    PROVE  HolderIsNamed'
  BY DEF HolderIsNamed, HoldersPlace

LEMMA NamedMove ==
    ASSUME TypeOK, HolderIsNamed, UNCHANGED <<flock, label>>,
           NEW a \in Actor, NEW f, NEW t, Move(a, f, t),
           f \notin HoldersPlace, t \notin {"locked", "cleared"}
    PROVE  HolderIsNamed'
<1>1. \A x \in Actor : pc'[x] = IF x = a THEN t ELSE pc[x]
  BY DEF TypeOK, Move
<1>2. pc[a] = f
  BY DEF Move
<1> QED BY <1>1, <1>2, NamedStays

(* A step that takes these actors out of the lane file and out of the way.  *)
LEMMA NamedLeave ==
    ASSUME TypeOK, HolderIsNamed, NEW T \in SUBSET Actor,
           flock' = Unlocked(T), label' = label,
           \A x \in T : pc'[x] \notin {"locked", "cleared"},
           \A x \in Actor \ T :
              \/ pc'[x] = pc[x]
              \/ pc[x] \notin HoldersPlace /\ pc'[x] \notin {"locked", "cleared"}
    PROVE  HolderIsNamed'
<1>0. flock \in [Repo -> Actor \cup {NoActor}] /\ NoActor \notin Actor
      /\ \A a \in Actor : RepoOf[a] \in Repo
  BY WriterAssumption DEF TypeOK
<1>1. \A r \in Repo : flock'[r] = IF flock[r] \in T THEN NoActor ELSE flock[r]
  BY DEF Unlocked
<1>2. ASSUME NEW a \in Actor, pc'[a] \in {"locked", "cleared"}
      PROVE  flock'[RepoOf[a]] = a
  BY <1>0, <1>1, <1>2 DEF HolderIsNamed, HoldersPlace
<1>3. ASSUME NEW r \in Repo, NEW b \in Actor, flock'[r] = b
      PROVE  /\ RepoOf[b] = r
             /\ pc'[b] \in HoldersPlace
             /\ pc'[b] \in {"writing", "parked"} => label'[r] = ProcOf[b]
  <2>1. flock[r] = b /\ b \notin T
    BY <1>0, <1>1, <1>3
  <2>2. pc'[b] = pc[b]
    BY <2>1 DEF HolderIsNamed
  <2> QED BY <2>1, <2>2 DEF HolderIsNamed
<1> QED BY <1>2, <1>3 DEF HolderIsNamed

LEMMA NamedStep ==
    ASSUME TypeOK, HolderIsNamed, [Next]_vars
    PROVE  HolderIsNamed'
<1>0. /\ pc \in [Actor -> PC] /\ flock \in [Repo -> Actor \cup {NoActor}]
      /\ label \in [Repo -> Proc \cup {NoProc}]
      /\ NoActor \notin Actor /\ \A a \in Actor : RepoOf[a] \in Repo /\ Spawner[a] \in Actor \cup {NoActor}
  BY WriterAssumption DEF TypeOK
<1> USE DEF fileVars, daemonVars
<1>1. ASSUME NEW a \in Actor, Connect(a) \/ Probe(a) \/ Acquire(a) \/ Granted(a) \/ Fallback(a)
                             \/ WouldBlock(a)
      PROVE  HolderIsNamed'
  BY <1>1, NamedMove DEF Connect, Probe, Acquire, Granted, Fallback, WouldBlock, Enter, HoldersPlace
<1>2. ASSUME NEW a \in Actor, ReadLabel(a)
      PROVE  HolderIsNamed'
  BY <1>2, NamedMove DEF ReadLabel, Deny, Enter, HoldersPlace
<1>3. ASSUME NEW a \in Actor, Spawn(a)
      PROVE  HolderIsNamed'
  BY <1>0, <1>3, NamedStays DEF Spawn, HoldersPlace
<1>4. ASSUME NEW a \in Actor, Resume(a)
      PROVE  HolderIsNamed'
  BY <1>0, <1>4, NamedStays DEF Resume, Move
<1>5. ASSUME NEW a \in Actor, Finish(a)
      PROVE  HolderIsNamed'
  BY <1>0, <1>5, NamedLeave DEF Finish, Move
<1>6. ASSUME NEW a \in Actor, Kill(a)
      PROVE  HolderIsNamed'
  <2> DEFINE T == Threads(ProcOf[a])
  <2>1. T \in SUBSET Actor /\ flock' = Unlocked(T) /\ label' = label
        /\ \A x \in Actor : pc'[x] = IF x \in T THEN "killed" ELSE pc[x]
    BY <1>6 DEF Kill, Threads
  <2> HIDE DEF T
  <2> QED BY <2>1, NamedLeave
<1>7. ASSUME NEW a \in Actor, Forget(a) \/ LoseConnection(a)
      PROVE  HolderIsNamed'
  BY <1>0, <1>7, NamedStays DEF Forget, LoseConnection, Connected, HoldersPlace
<1>8. ASSUME NEW a \in Actor, TakeLane(a)
      PROVE  HolderIsNamed'
  BY <1>0, <1>8 DEF TakeLane, Move, HolderIsNamed, HoldersPlace
<1>9. ASSUME NEW a \in Actor, Truncate(a) \/ Publish(a)
      PROVE  HolderIsNamed'
  <2>1. flock[RepoOf[a]] = a /\ flock' = flock
    BY <1>9 DEF Truncate, Publish, Enter, Move, HolderIsNamed
  <2>2. \A b \in Actor : flock[RepoOf[a]] = b => b = a
    BY <2>1
  <2> QED BY <1>0, <1>9, <2>1, <2>2
          DEF Truncate, Publish, Enter, Move, HoldersPid, HolderIsNamed, HoldersPlace
<1>10. CASE DaemonDown
  <2> DEFINE T == Threads(Server)
  <2>1. T \in SUBSET Actor /\ flock' = Unlocked(T) /\ label' = label
    BY <1>10 DEF DaemonDown, Threads
  <2>2. \A x \in Actor : \/ x \in T /\ pc'[x] = "killed"
                         \/ x \notin T /\ pc'[x] = pc[x]
                         \/ pc[x] \in Connected /\ pc'[x] \in {"writing", "cut"}
    BY <1>10 DEF DaemonDown, Connected
  <2> HIDE DEF T
  <2> QED BY <2>1, <2>2, NamedLeave DEF Connected, HoldersPlace
<1>11. CASE DaemonUp
  BY <1>11, NamedStays DEF DaemonUp
<1>12. CASE UNCHANGED vars
  BY <1>12, NamedStays DEF vars
<1> QED BY <1>1, <1>2, <1>3, <1>4, <1>5, <1>6, <1>7, <1>8, <1>9, <1>10, <1>11, <1>12
        DEF Next, Lock, Work

LEMMA NamedAtStart ==
    ASSUME Init
    PROVE  HolderIsNamed
<1>1. \A a \in Actor : pc[a] \in {"idle", "off"}
  BY DEF Init
<1>2. \A r \in Repo : flock[r] \notin Actor
  BY WriterAssumption DEF Init
<1> QED BY <1>1, <1>2 DEF HolderIsNamed

LEMMA RefusedByReading ==
    ASSUME TypeOK, [Next]_vars, NEW a \in Actor, pc[a] = "blocked", pc'[a] = "denied"
    PROVE  ~IsAncestor(a, label[RepoOf[a]])
<1>0. pc \in [Actor -> PC]
  BY DEF TypeOK
<1>1. ASSUME NEW x \in Actor, NEW f, NEW t, Move(x, f, t), t # "denied"
      PROVE  FALSE
  BY <1>0, <1>1 DEF Move
<1>2. ASSUME NEW x \in Actor, Lock(x), ~ReadLabel(x)
      PROVE  FALSE
  BY <1>1, <1>2 DEF Lock, Connect, Probe, Acquire, Granted, Fallback, TakeLane, WouldBlock, Truncate,
                    Publish, Enter
<1>3. ASSUME NEW x \in Actor, Work(x) \/ Forget(x) \/ Spawn(x) \/ Kill(x) \/ LoseConnection(x)
      PROVE  FALSE
  BY <1>0, <1>1, <1>3 DEF Work, Resume, Finish, Forget, Spawn, Kill, LoseConnection
<1>4. ~DaemonDown /\ ~DaemonUp /\ pc' # pc
  BY <1>0 DEF DaemonDown, DaemonUp
<1>5. PICK x \in Actor : ReadLabel(x)
  BY <1>2, <1>3, <1>4 DEF Next, vars
<1>6. x = a
  BY <1>0, <1>5 DEF ReadLabel, Enter, Move, Deny
<1> QED BY <1>1, <1>5, <1>6 DEF ReadLabel, Enter

(* Whatever becomes of the daemon in between, nobody is refused the lane    *)
(* file that an ancestor holds while it waits for it.                       *)
THEOREM AncestorsLetIn == Spec => NeverRefusedByAncestor
<1>1. Init => HolderIsNamed
  BY NamedAtStart
<1>2. TypeOK /\ HolderIsNamed /\ [Next]_vars => HolderIsNamed'
  BY NamedStep
<1>3. TypeOK /\ HolderIsNamed /\ [Next]_vars =>
        \A a, b \in Actor :
            /\ pc[a] = "blocked" /\ pc'[a] = "denied"
            /\ flock[RepoOf[a]] = b /\ pc[b] = "parked"
            => ~IsAncestor(a, ProcOf[b])
  <2> SUFFICES ASSUME TypeOK, HolderIsNamed, [Next]_vars, NEW a \in Actor, NEW b \in Actor,
                      pc[a] = "blocked", pc'[a] = "denied",
                      flock[RepoOf[a]] = b, pc[b] = "parked"
               PROVE  ~IsAncestor(a, ProcOf[b])
    OBVIOUS
  <2>1. RepoOf[a] \in Repo
    BY WriterAssumption
  <2>2. label[RepoOf[a]] = ProcOf[b]
    BY <2>1 DEF HolderIsNamed
  <2> QED BY <2>2, RefusedByReading
<1> QED BY <1>1, <1>2, <1>3, TypeCorrect, PTL DEF Spec, NeverRefusedByAncestor

-----------------------------------------------------------------------------
(* The part of the exclusion that outlives every daemon. *)

FileGuardIsHeld ==
    \A a \in Actor : guard[a] = "file" => Inside(a) /\ flock[RepoOf[a]] = a

(* A step after which nobody new has a guard of the lane file, and whoever  *)
(* still has one is inside as before and has kept the flock.                *)
LEMMA HeldStays ==
    ASSUME FileGuardIsHeld,
           \A x \in Actor : guard'[x] = "file" =>
              /\ guard[x] = "file"
              /\ Inside(x)'
              /\ flock[RepoOf[x]] = x => flock'[RepoOf[x]] = x
    PROVE  FileGuardIsHeld'
  BY DEF FileGuardIsHeld

(* The kernel takes the flock from these actors, which have no guard now.   *)
LEMMA HeldLeave ==
    ASSUME TypeOK, FileGuardIsHeld, NEW T, flock' = Unlocked(T),
           \A x \in Actor : guard'[x] = "file" =>
              guard[x] = "file" /\ x \notin T /\ (Inside(x) => Inside(x)')
    PROVE  FileGuardIsHeld'
<1>1. \A x \in Actor : RepoOf[x] \in Repo
  BY WriterAssumption
<1>2. \A x \in Actor : x \notin T /\ flock[RepoOf[x]] = x => flock'[RepoOf[x]] = x
  BY <1>1 DEF Unlocked
<1> QED BY <1>2, HeldStays DEF FileGuardIsHeld

LEMMA HeldMove ==
    ASSUME TypeOK, FileGuardIsHeld, NEW a \in Actor, NEW f, NEW t, Move(a, f, t),
           f \notin {"writing", "parked"} \/ t \in {"writing", "parked"},
           \A x \in Actor : guard'[x] = "file" => guard[x] = "file",
           flock' = flock
    PROVE  FileGuardIsHeld'
<1>1. \A x \in Actor : pc'[x] = IF x = a THEN t ELSE pc[x]
  BY DEF TypeOK, Move
<1>2. pc[a] = f
  BY DEF Move
<1> QED BY <1>1, <1>2, HeldStays DEF FileGuardIsHeld, Inside

LEMMA HeldStep ==
    ASSUME TypeOK, HolderIsNamed, FileGuardIsHeld, [Next]_vars
    PROVE  FileGuardIsHeld'
<1>0. /\ pc \in [Actor -> PC] /\ guard \in [Actor -> {"none", "daemon", "file", "noop"}]
      /\ flock \in [Repo -> Actor \cup {NoActor}]
      /\ NoActor \notin Actor /\ \A a \in Actor : RepoOf[a] \in Repo /\ Spawner[a] \in Actor \cup {NoActor}
  BY WriterAssumption DEF TypeOK
<1> USE DEF fileVars, daemonVars
<1>e. ASSUME NEW a \in Actor, NEW f, NEW g \in {"daemon", "noop"}, Enter(a, f, g),
             f \notin {"writing", "parked"}, flock' = flock
      PROVE  FileGuardIsHeld'
  BY <1>0, <1>e, HeldMove DEF Enter
<1>1. ASSUME NEW a \in Actor, Connect(a) \/ Acquire(a) \/ Fallback(a) \/ WouldBlock(a) \/ Truncate(a)
                             \/ Resume(a)
      PROVE  FileGuardIsHeld'
  BY <1>1, HeldMove DEF Connect, Acquire, Fallback, WouldBlock, Truncate, Resume
<1>2. ASSUME NEW a \in Actor, Probe(a) \/ Granted(a)
      PROVE  FileGuardIsHeld'
  BY <1>2, <1>e, HeldMove DEF Probe, Granted
<1>3. ASSUME NEW a \in Actor, ReadLabel(a)
      PROVE  FileGuardIsHeld'
  BY <1>3, <1>e, HeldMove DEF ReadLabel, Deny
<1>4. ASSUME NEW a \in Actor, Spawn(a)
      PROVE  FileGuardIsHeld'
  <2>1. UNCHANGED <<guard, flock>>
    BY <1>4 DEF Spawn
  <2>2. \A x \in Actor : Inside(x) => Inside(x)'
    BY <1>0, <1>4 DEF Spawn, Inside
  <2> QED BY <2>1, <2>2, HeldStays DEF FileGuardIsHeld
<1>5. ASSUME NEW a \in Actor, Finish(a)
      PROVE  FileGuardIsHeld'
  <2>1. \A x \in Actor : guard'[x] = "file" => guard[x] = "file" /\ x # a /\ pc'[x] = pc[x]
    BY <1>0, <1>5 DEF Finish, Move
  <2> QED BY <1>5, <2>1, HeldLeave DEF Finish, Inside
<1>6. ASSUME NEW a \in Actor, Kill(a)
      PROVE  FileGuardIsHeld'
  <2> DEFINE T == Threads(ProcOf[a])
  <2>1. flock' = Unlocked(T)
        /\ \A x \in Actor : guard'[x] = "file" => guard[x] = "file" /\ x \notin T /\ pc'[x] = pc[x]
    BY <1>6 DEF Kill
  <2> HIDE DEF T
  <2> QED BY <2>1, HeldLeave DEF Inside
<1>7. ASSUME NEW a \in Actor, Forget(a)
      PROVE  FileGuardIsHeld'
  BY <1>7, HeldStays DEF Forget, FileGuardIsHeld, Inside
<1>7a. ASSUME NEW a \in Actor, LoseConnection(a)
      PROVE  FileGuardIsHeld'
  <2>1. UNCHANGED <<guard, flock>> /\ \A x \in Actor : Inside(x) => Inside(x)'
    BY <1>0, <1>7a DEF LoseConnection, Connected, Inside
  <2> QED BY <2>1, HeldStays DEF FileGuardIsHeld
<1>8. ASSUME NEW a \in Actor, TakeLane(a)
      PROVE  FileGuardIsHeld'
  <2>1. \A x \in Actor : RepoOf[x] = RepoOf[a] => guard[x] # "file"
    BY <1>0, <1>8 DEF TakeLane, FileGuardIsHeld
  <2> QED BY <1>0, <1>8, <2>1 DEF TakeLane, Move, FileGuardIsHeld, Inside
<1>9. ASSUME NEW a \in Actor, Publish(a)
      PROVE  FileGuardIsHeld'
  <2>1. flock[RepoOf[a]] = a
    BY <1>9 DEF Publish, Enter, Move, HolderIsNamed
  <2> QED BY <1>0, <1>9, <2>1 DEF Publish, Enter, Move, FileGuardIsHeld, Inside
<1>10. CASE DaemonDown
  <2> DEFINE T == Threads(Server)
  <2>1. flock' = Unlocked(T)
    BY <1>10 DEF DaemonDown
  <2>2. \A x \in Actor : guard'[x] = "file" => guard[x] = "file" /\ x \notin T
    BY <1>10 DEF DaemonDown
  <2>3. \A x \in Actor : x \notin T => (Inside(x) => Inside(x)')
    BY <1>10 DEF DaemonDown, Connected, Inside
  <2> HIDE DEF T
  <2> QED BY <2>1, <2>2, <2>3, HeldLeave
<1>11. CASE DaemonUp
  BY <1>11, HeldStays DEF DaemonUp, FileGuardIsHeld, Inside
<1>12. CASE UNCHANGED vars
  BY <1>12, HeldStays DEF vars, FileGuardIsHeld, Inside
<1> QED BY <1>1, <1>2, <1>3, <1>4, <1>5, <1>6, <1>7, <1>7a, <1>8, <1>9, <1>10, <1>11, <1>12
        DEF Next, Lock, Work

(* Two writers of one repository never both have its lane file, whatever    *)
(* the daemon did, whoever was killed and whatever started them: a broken   *)
(* exclusion always has a lane of some daemon or an ancestor's guard in it. *)
OneInLaneFile ==
    \A a, b \in Actor :
        guard[a] = "file" /\ guard[b] = "file" /\ RepoOf[a] = RepoOf[b] => a = b

(* The lane file excludes, without any condition on the daemon, the         *)
(* processes or the hooks.                                                  *)
THEOREM FileExcludes == Spec => []OneInLaneFile
<1>1. Init => HolderIsNamed /\ FileGuardIsHeld
  <2>1. Init => HolderIsNamed
    BY NamedAtStart
  <2> QED BY <2>1 DEF Init, FileGuardIsHeld
<1>2. TypeOK /\ HolderIsNamed /\ FileGuardIsHeld /\ [Next]_vars => HolderIsNamed' /\ FileGuardIsHeld'
  BY NamedStep, HeldStep
<1>3. FileGuardIsHeld => OneInLaneFile
  BY DEF FileGuardIsHeld, OneInLaneFile
<1> QED BY <1>1, <1>2, <1>3, TypeCorrect, PTL DEF Spec

=============================================================================

------------------------- MODULE JobDeliveryProofs -------------------------
(***************************************************************************)
(* Proofs about JobDelivery, for every set of commands, every order of the *)
(* shells that run them and any number of crashes.                         *)
(*                                                                         *)
(* A command may be tried by three workers.  WayInv says how far each may  *)
(* be when its typed process is at a given point, LandInv that a worker    *)
(* lands at most once, KeptInv what the ledger and the pool have of a job  *)
(* that was taken, and AfterInv what a command of a shell may count on     *)
(* when its own turn comes.                                                *)
(***************************************************************************)
EXTENDS JobDelivery, SequenceTheorems, FiniteSetTheorems, TLAPS

-----------------------------------------------------------------------------
(* Lines: what Append, Tail and Retain do to them. *)

Distinct(q) == \A i, k \in DOMAIN q : q[i] = q[k] => i = k

Elements(q) == {q[k] : k \in DOMAIN q}

LEMMA AppendElements ==
    ASSUME NEW S, NEW s \in Seq(S), NEW e \in S
    PROVE  /\ Append(s, e) \in Seq(S)
           /\ \A k \in DOMAIN Append(s, e) :
                 \/ k \in DOMAIN s /\ Append(s, e)[k] = s[k]
                 \/ k = Len(s) + 1 /\ Append(s, e)[k] = e
           /\ \A k \in DOMAIN s : k \in DOMAIN Append(s, e) /\ Append(s, e)[k] = s[k]
           /\ Len(s) + 1 \in DOMAIN Append(s, e) /\ Append(s, e)[Len(s) + 1] = e
  OBVIOUS

LEMMA TailElements ==
    ASSUME NEW S, NEW s \in Seq(S), s # <<>>
    PROVE  /\ Tail(s) \in Seq(S)
           /\ 1 \in DOMAIN s /\ Head(s) = s[1] /\ Head(s) \in S
           /\ \A k \in DOMAIN Tail(s) : k + 1 \in DOMAIN s /\ Tail(s)[k] = s[k + 1]
           /\ \A k \in DOMAIN s : k # 1 => k - 1 \in DOMAIN Tail(s) /\ Tail(s)[k - 1] = s[k]
  OBVIOUS

LEMMA RetainElements ==
    ASSUME NEW S, NEW q \in Seq(S), NEW c
    PROVE  /\ Retain(q, c) \in Seq(S)
           /\ \A k \in DOMAIN Retain(q, c) : \E m \in DOMAIN q : Retain(q, c)[k] = q[m]
  <1>1. CASE \E k \in DOMAIN q : q[k] = c
    <2> DEFINE at == CHOOSE k \in DOMAIN q : q[k] = c
    <2>1. at \in DOMAIN q
      BY <1>1
    <2>2. Retain(q, c) = [k \in 1 .. (Len(q) - 1) |-> IF k < at THEN q[k] ELSE q[k + 1]]
      BY <1>1 DEF Retain
    <2>3. Len(q) - 1 \in Nat
      BY <2>1
    <2> HIDE DEF at
    <2>4. \A k \in 1 .. (Len(q) - 1) : k \in DOMAIN q /\ k + 1 \in DOMAIN q
      BY <2>3
    <2> QED
      BY <2>1, <2>2, <2>3, <2>4, SMTT(40)
  <1>2. CASE ~ \E k \in DOMAIN q : q[k] = c
    BY <1>2 DEF Retain
  <1> QED
    BY <1>1, <1>2

(* A newcomer at the end of a line without repetitions. *)
LEMMA AppendDistinct ==
    ASSUME NEW S, NEW q \in Seq(S), NEW e \in S
    PROVE  /\ Elements(Append(q, e)) = Elements(q) \cup {e}
           /\ Distinct(q) /\ e \notin Elements(q) => Distinct(Append(q, e))
<1>1. \A k \in DOMAIN Append(q, e) :
         \/ k \in DOMAIN q /\ Append(q, e)[k] = q[k]
         \/ k = Len(q) + 1 /\ Append(q, e)[k] = e
  BY AppendElements
<1>2. \A k \in DOMAIN q : k \in DOMAIN Append(q, e) /\ Append(q, e)[k] = q[k]
  BY AppendElements
<1>3. Len(q) + 1 \in DOMAIN Append(q, e) /\ Append(q, e)[Len(q) + 1] = e
  BY AppendElements
<1> HIDE DEF Elements
<1>4. Elements(Append(q, e)) = Elements(q) \cup {e}
  BY <1>1, <1>2, <1>3, Zenon DEF Elements
<1>5. ASSUME Distinct(q), e \notin Elements(q) PROVE Distinct(Append(q, e))
  BY <1>1, <1>5 DEF Elements, Distinct
<1> QED BY <1>4, <1>5

(* Where the elements of a line without repetitions are when c has left it. *)
LEMMA RetainFrom ==
    ASSUME NEW S, NEW q \in Seq(S), Distinct(q), NEW at \in DOMAIN q
    PROVE  /\ Len(q) - 1 \in Nat
           /\ Retain(q, q[at]) = [k \in 1 .. (Len(q) - 1) |-> IF k < at THEN q[k] ELSE q[k + 1]]
<1> DEFINE c == q[at]
           found == CHOOSE k \in DOMAIN q : q[k] = c
<1>1. found \in DOMAIN q /\ q[found] = c
  OBVIOUS
<1>2. found = at
  BY <1>1 DEF Distinct
<1>3. Retain(q, c) = [k \in 1 .. (Len(q) - 1) |-> IF k < found THEN q[k] ELSE q[k + 1]]
  BY DEF Retain
<1>4. Len(q) - 1 \in Nat
  OBVIOUS
<1> HIDE DEF found, c
<1>5. Retain(q, c) = [k \in 1 .. (Len(q) - 1) |-> IF k < at THEN q[k] ELSE q[k + 1]]
  BY <1>2, <1>3
<1> QED BY <1>4, <1>5 DEF c

(* Only c leaves. *)
LEMMA RetainDistinct ==
    ASSUME NEW S, NEW q \in Seq(S), Distinct(q), NEW c
    PROVE  /\ Distinct(Retain(q, c))
           /\ Elements(Retain(q, c)) = Elements(q) \ {c}
<1>1. CASE c \notin Elements(q)
  BY <1>1 DEF Retain, Elements
<1>2. CASE c \in Elements(q)
  <2>1. PICK at \in DOMAIN q : q[at] = c
    BY <1>2 DEF Elements
  <2> DEFINE rest == [k \in 1 .. (Len(q) - 1) |-> IF k < at THEN q[k] ELSE q[k + 1]]
  <2>2. Retain(q, c) = rest /\ Len(q) - 1 \in Nat
    BY <2>1, RetainFrom
  <2>3. DOMAIN q = 1 .. Len(q) /\ Len(q) \in Nat
    OBVIOUS
  <2>4. \A k \in DOMAIN rest : rest[k] = IF k < at THEN q[k] ELSE q[k + 1]
    OBVIOUS
  <2>5. DOMAIN rest = 1 .. (Len(q) - 1)
    OBVIOUS
  <2> HIDE DEF rest
  <2>6. \A k \in DOMAIN rest : k \in DOMAIN q /\ k + 1 \in DOMAIN q
    BY <2>2, <2>3, <2>5
  <2>7. Distinct(rest)
    BY <2>3, <2>4, <2>5, <2>6 DEF Distinct
  <2>8. ASSUME NEW x \in Elements(rest) PROVE x \in Elements(q) \ {c}
    <3>1. PICK k \in DOMAIN rest : x = rest[k]
      BY <2>8 DEF Elements
    <3>2. PICK m \in DOMAIN q : m # at /\ x = q[m]
      BY <2>3, <2>4, <2>5, <2>6, <3>1
    <3> QED BY <2>1, <3>2 DEF Elements, Distinct
  <2>9. ASSUME NEW x \in Elements(q) \ {c} PROVE x \in Elements(rest)
    <3>1. PICK m \in DOMAIN q : x = q[m] /\ m # at
      BY <2>1, <2>9 DEF Elements
    <3>2. CASE m < at
      <4>1. m \in DOMAIN rest
        BY <2>1, <2>3, <2>5, <3>2
      <4> QED BY <2>4, <3>1, <3>2, <4>1 DEF Elements
    <3>3. CASE m > at
      <4>1. m - 1 \in DOMAIN rest /\ ~(m - 1 < at) /\ (m - 1) + 1 = m
        BY <2>1, <2>3, <2>5, <3>3
      <4> QED BY <2>4, <3>1, <4>1 DEF Elements
    <3> QED BY <2>1, <2>3, <3>1, <3>2, <3>3
  <2> QED BY <2>2, <2>7, <2>8, <2>9
<1> QED BY <1>1, <1>2

-----------------------------------------------------------------------------
(* The invariants. *)

Begun(c) == pc[c] # "begin"
Past     == {"none", "landed", "contended", "denied"}

(* Nobody is in the lane twice. *)
LaneInv == Distinct(line)

(* How far the workers of a command are. *)
Way(c) ==
    /\ ~Begun(c) => st[Typed(c)] = "none"
    /\ pc[c] \in {"begin", "runs", "submit"} => ~Taken(c)
    /\ pc[c] \in {"begin", "runs", "submit", "asked", "inline"} => st[Inline(c)] = "none"
    /\ \/ pc[c] \in {"submit", "asked", "inline", "inlining"}
       \/ Taken(c)
       \/ st[Inline(c)] # "none"
       => st[Typed(c)] \in {"none", "contended"}
    /\ st[Job(c)] # "none" => Taken(c)
    /\ pc[c] \in {"inline", "inlining"} /\ Taken(c) => c \in unanswered
    /\ st[Inline(c)] # "none" /\ Taken(c) => c \in unanswered
    /\ pc[c] = "exit" => st[Typed(c)] \in Past /\ st[Inline(c)] \in Past

WayInv == \A c \in Command : Way(c)

(* The workers that have landed are those of the history, once each. *)
LandInv ==
    /\ Distinct(landed)
    /\ \A w \in Worker : st[w] = "landed" <=> w \in Elements(landed)

(* What exit status 0 stands for. *)
Kept(c) ==
    /\ status[c] = "ok" => st[Typed(c)] = "landed" \/ st[Inline(c)] = "landed"
    /\ status[c] = "queued" => Taken(c) /\ (c \in Child => c \in contended)
    /\ status[c] = "queued" => pc[c] = "exit" /\ st[Inline(c)] = "none"
    /\ c \in Child /\ pc[c] \in {"submit", "asked", "inline", "inlining"} => c \in contended
    /\ st[Typed(c)] = "contended" => c \in contended
    /\ row[Job(c)] = "queued" =>
          /\ st[Job(c)] = "none"
          /\ c \in Elements(backlog) \/ crashes > 0 \/ c \in unrecorded
    /\ row[Job(c)] = "running" =>
          running = c \/ crashes > 0 \/ (c \in unrecorded /\ Over(Job(c)))
    /\ row[Job(c)] = "done" => st[Job(c)] = "landed"
    /\ row[Job(c)] = "failed" => Over(Job(c))

KeptInv == \A c \in Command : Kept(c)

(* What was run before c in its shell has exited, and if it became a job    *)
(* that job waits before c's, and is over, or was dropped by a claim that   *)
(* failed, when a worker of c starts.                                       *)
Dropped(b) == st[Job(b)] = "none" /\ b \notin Elements(backlog)

Settled(b) == Taken(b) => Over(Job(b)) \/ Dropped(b)
Started(c) == \E w \in {Typed(c), Job(c), Inline(c)} : st[w] # "none"

Order ==
    /\ \A c \in Command : Begun(c) => \A b \in Before[c] : pc[b] = "exit"
    /\ \A c \in Elements(backlog) : Taken(c)
    /\ Distinct(backlog)
    /\ \A i, j \in DOMAIN backlog : backlog[j] \in Before[backlog[i]] => j < i

After(c) ==
    crashes = 0 =>
        /\ ~up => ~Taken(c)
        /\ Queueable(c) /\ pc[c] = "inline" => ~up
        /\ Queueable(c) /\ Started(c) => \A b \in Before[c] : Settled(b)

AfterInv == Order /\ \A c \in Command : After(c)

DeliveryInv == TypeOK /\ LaneInv /\ WayInv /\ LandInv /\ KeptInv /\ AfterInv

-----------------------------------------------------------------------------
(* The workers of a command, and what Next does to a worker or a command.  *)

LEMMA Names ==
    /\ \A c \in Command :
         /\ Typed(c) \in Worker /\ Job(c) \in Worker /\ Inline(c) \in Worker
         /\ Typed(c)[1] = c /\ Job(c)[1] = c /\ Inline(c)[1] = c
         /\ Typed(c) # Job(c) /\ Typed(c) # Inline(c) /\ Job(c) # Inline(c)
    /\ \A c, d \in Command :
         c # d => /\ Typed(c) # Typed(d) /\ Job(c) # Job(d) /\ Inline(c) # Inline(d)
                  /\ Typed(c) # Job(d) /\ Typed(c) # Inline(d) /\ Job(c) # Inline(d)
                  /\ Job(c) # Typed(d) /\ Inline(c) # Typed(d) /\ Inline(c) # Job(d)
    /\ \A w \in Worker :
         w[1] \in Command /\ w \in {Typed(w[1]), Job(w[1]), Inline(w[1])}
  BY DEF Worker, Typed, Job, Inline

(* Whoever leaves the lane leaves it in order, and nobody else with him. *)
LEMMA Leaves ==
    ASSUME TypeOK, LaneInv, NEW w \in Worker
    PROVE  /\ LineWithout(w) \in Seq(Worker)
           /\ Distinct(LineWithout(w))
           /\ Elements(LineWithout(w)) = Elements(line) \ {w}
           /\ FileWithout(w) \in Worker \cup {NoOne}
           /\ FileWithout(w) # w
           /\ FileWithout(w) # NoOne => FileWithout(w) = file
  BY RetainDistinct, RetainElements, NobodyAssumption
  DEF TypeOK, LaneInv, LineWithout, FileWithout

LEMMA HeadIsIn ==
    ASSUME NEW S, NEW q \in Seq(S), q # <<>>
    PROVE  Head(q) \in Elements(q) /\ Head(q) \in S
  BY TailElements DEF Elements

LEMMA InLineElements == \A w : InLine(w) <=> w \in Elements(line)
  BY DEF InLine, Elements

-----------------------------------------------------------------------------
(* The types, and who may be in a lane. *)

(* The types of the plain variables; the last two conjuncts of TypeOK are   *)
(* Going, and need that nobody is in the lane twice.                        *)
Plain ==
    /\ pc \in [Command -> {"begin", "runs", "submit", "asked", "inline", "inlining", "exit"}]
    /\ status \in [Command -> {"none", "ok", "queued", "error"}]
    /\ st \in [Worker -> {"none", "wants", "line", "file", "in", "landed", "contended", "denied"}]
    /\ line \in Seq(Worker)
    /\ file \in Worker \cup {NoOne}
    /\ up \in BOOLEAN
    /\ crashes \in 0..Crashes
    /\ backlog \in Seq(Command)
    /\ running \in Command \cup {NoOne}
    /\ row \in [Worker -> Row]
    /\ landed \in Seq(Worker)
    /\ unanswered \subseteq Command
    /\ contended \subseteq Command
    /\ unrecorded \subseteq Command

Going ==
    /\ \A w \in Elements(line) : st[w] \in {"line", "in", "contended"}
    /\ file # NoOne => st[file] \in {"in", "contended"}

LEMMA TypeSplit == TypeOK <=> Plain /\ Going
  <1>1. Plain => (\A w \in Worker : InLine(w) => w \in Elements(line))
    BY InLineElements
  <1>2. Plain => (\A w \in Elements(line) : w \in Worker /\ InLine(w))
    BY InLineElements DEF Plain, Elements
  <1> QED BY <1>1, <1>2 DEF TypeOK, Plain, Going

LEMMA PlainStep ==
    ASSUME TypeOK, LaneInv, Next
    PROVE  Plain'
<1>0. Plain
  BY TypeSplit
<1>l. \A w \in Worker : LineWithout(w) \in Seq(Worker) /\ FileWithout(w) \in Worker \cup {NoOne}
  BY Leaves
<1>n. \A c \in Command : Typed(c) \in Worker /\ Job(c) \in Worker /\ Inline(c) \in Worker
  BY Names
<1>w. \A w \in Worker : w[1] \in Command
  BY Names
<1> USE DEF Plain, Goto, Step, cmdVars, laneVars, daemonVars, histVars
<1>1. ASSUME NEW c \in Command, Dispatch(c)
      PROVE  Plain'
  <2>1. CASE GateGranted(c)
    BY <1>0, <1>n, <2>1 DEF GateGranted
  <2>2. CASE GateBusy(c)
    BY <1>0, <2>2 DEF GateBusy, WhenBusy
  <2>3. CASE GateNoDaemon(c)
    BY <1>0, <2>3 DEF GateNoDaemon
  <2>4. CASE Ends(c)
    BY <1>0, <1>n, <1>l, <2>4, ZenonT(60) DEF Ends, Exit
  <2>5. CASE Requeue(c)
    BY <1>0, <2>5 DEF Requeue
  <2>6. CASE Submit(c)
    BY <1>0, <2>6 DEF Submit
  <2>7. CASE NoAnswer(c)
    BY <1>0, <2>7 DEF NoAnswer
  <2>8. CASE RunInline(c)
    BY <1>0, <1>n, <2>8 DEF RunInline, Row
  <2>9. CASE InlineEnds(c)
    BY <1>0, <1>n, <1>l, <2>9 DEF InlineEnds, InlineRows, Exit, Verdict, Row
  <2> QED BY <1>1, <2>1, <2>2, <2>3, <2>4, <2>5, <2>6, <2>7, <2>8, <2>9 DEF Dispatch
<1>2. ASSUME NEW c \in Command, Daemon(c)
      PROVE  Plain'
  <2>1. CASE Take(c)
    BY <1>0, <1>n, <2>1 DEF Take, Row
  <2>2. CASE Answer(c)
    BY <1>0, <1>n, <1>l, <2>2 DEF Answer, Exit
  <2>3. CASE StartJob(c)
    BY <1>0, <1>n, <2>3, TailElements DEF StartJob, Row
  <2>4. CASE EndJob(c)
    BY <1>0, <1>n, <2>4 DEF EndJob, Verdict, Row
  <2>5. CASE ClaimFails(c)
    BY <1>0, <2>5, TailElements DEF ClaimFails
  <2>6. CASE FinalizeFails(c)
    BY <1>0, <2>6 DEF FinalizeFails
  <2> QED BY <1>2, <2>1, <2>2, <2>3, <2>4, <2>5, <2>6 DEF Daemon
<1>3. ASSUME NEW w \in Worker, Locking(w)
      PROVE  Plain'
  <2>1. CASE Ask(w)
    BY <1>0, <2>1 DEF Ask
  <2>2. CASE Granted(w)
    BY <1>0, <2>2 DEF Granted
  <2>3. CASE InsideAncestor(w)
    BY <1>0, <2>3 DEF InsideAncestor
  <2>4. CASE NoLane(w)
    BY <1>0, <2>4 DEF NoLane
  <2>5. CASE FileGranted(w)
    BY <1>0, <2>5 DEF FileGranted
  <2>6. CASE FileDenied(w)
    BY <1>0, <2>6 DEF FileDenied
  <2>7. CASE Land(w)
    BY <1>0, <1>l, <2>7 DEF Land
  <2>8. CASE Contend(w)
    BY <1>0, <1>l, <1>w, <2>8 DEF Contend
  <2> QED BY <1>3, <2>1, <2>2, <2>3, <2>4, <2>5, <2>6, <2>7, <2>8 DEF Locking
<1>4. CASE Crash
  <2>1. crashes' \in 0..Crashes
    BY <1>0, <1>4, DeliveryAssumption DEF Crash
  <2>2. line' \in Seq(Worker) /\ backlog' \in Seq(Command) /\ running' \in Command \cup {NoOne}
    BY <1>4 DEF Crash
  <2> QED BY <1>0, <1>4, <2>1, <2>2 DEF Crash
<1>5. CASE Restart
  BY <1>0, <1>5 DEF Restart
<1> QED BY <1>1, <1>2, <1>3, <1>4, <1>5 DEF Next

LEMMA GoingStep ==
    ASSUME TypeOK, LaneInv, WayInv, Next
    PROVE  Going' /\ LaneInv'
<1>0. Plain /\ Going
  BY TypeSplit
<1>l. \A w \in Worker :
        /\ Distinct(LineWithout(w))
        /\ Elements(LineWithout(w)) = Elements(line) \ {w}
        /\ FileWithout(w) # w
        /\ FileWithout(w) # NoOne => FileWithout(w) = file
  BY Leaves
<1>a. ASSUME NEW w \in Worker
      PROVE  /\ Elements(Append(line, w)) = Elements(line) \cup {w}
             /\ w \notin Elements(line) => Distinct(Append(line, w))
  BY <1>0, AppendDistinct DEF Plain, LaneInv
<1>n. \A c \in Command : Typed(c) \in Worker /\ Job(c) \in Worker /\ Inline(c) \in Worker
  BY Names
<1>t. /\ st \in [Worker -> {"none", "wants", "line", "file", "in", "landed", "contended", "denied"}]
      /\ Elements(line) \subseteq Worker /\ file \in Worker \cup {NoOne} /\ NoOne \notin Worker
  BY <1>0, NobodyAssumption DEF Plain, Elements
<1>g. /\ \A w \in Elements(line) : st[w] \in {"line", "in", "contended"}
      /\ file # NoOne => st[file] \in {"in", "contended"}
      /\ Distinct(line)
  BY <1>0 DEF Going, LaneInv
<1>e. Elements(<<>>) = {} /\ Distinct(<<>>)
  BY DEF Elements, Distinct
<1>o. \A w \in Worker : Elements(<<w>>) = {w} /\ Distinct(<<w>>)
  BY DEF Elements, Distinct
<1>s. ASSUME st' = st, line' = line, file' = file
      PROVE  Going' /\ LaneInv'
  BY <1>s, <1>g DEF Going, LaneInv
<1>x. ASSUME NEW w \in Worker, st' = st, line' = LineWithout(w), file' = FileWithout(w)
      PROVE  Going' /\ LaneInv'
  BY <1>x, <1>g, <1>l, <1>t DEF Going, LaneInv
<1> USE DEF Goto, Step, cmdVars, laneVars, daemonVars, histVars
<1>1. ASSUME NEW c \in Command, Dispatch(c)
      PROVE  Going' /\ LaneInv'
  <2>1. CASE GateGranted(c)
    <3>1. file # Typed(c) /\ file' = file /\ line' = <<Typed(c)>> /\ st' = [st EXCEPT ![Typed(c)] = "in"]
      BY <1>g, <1>t, <1>n, <2>1 DEF GateGranted
    <3> QED BY <3>1, <1>g, <1>t, <1>n, <1>o DEF Going, LaneInv
  <2>2. CASE GateBusy(c)
    <3>1. st[Typed(c)] = "none"
      BY <2>2 DEF GateBusy, WayInv, Way, Begun
    <3>2. file # Typed(c) /\ Typed(c) \notin Elements(line)
      BY <3>1, <1>g, <1>t, <1>n
    <3> QED BY <2>2, <3>2, <1>g, <1>t, <1>n DEF GateBusy, Going, LaneInv
  <2>3. CASE GateNoDaemon(c)
    <3>1. file # Typed(c) /\ Typed(c) \notin Elements(line)
      BY <2>3, <1>g, <1>t, <1>n DEF GateNoDaemon
    <3> QED BY <2>3, <3>1, <1>g, <1>t, <1>n DEF GateNoDaemon, Going, LaneInv
  <2>4. CASE Ends(c)
    BY <1>x, <1>n, <2>4 DEF Ends, Exit
  <2>5. CASE Requeue(c)
    BY <1>s, <2>5 DEF Requeue
  <2>6. CASE Submit(c)
    BY <1>s, <2>6 DEF Submit
  <2>7. CASE NoAnswer(c)
    BY <1>s, <2>7 DEF NoAnswer
  <2>8. CASE RunInline(c)
    <3>1. file # Inline(c) /\ Inline(c) \notin Elements(line)
      BY <2>8, <1>g, <1>t, <1>n DEF RunInline
    <3> QED BY <2>8, <3>1, <1>g, <1>t, <1>n DEF RunInline, Going, LaneInv
  <2>9. CASE InlineEnds(c)
    BY <1>x, <1>n, <2>9 DEF InlineEnds, Exit
  <2> QED BY <1>1, <2>1, <2>2, <2>3, <2>4, <2>5, <2>6, <2>7, <2>8, <2>9 DEF Dispatch
<1>2. ASSUME NEW c \in Command, Daemon(c)
      PROVE  Going' /\ LaneInv'
  <2>1. CASE Take(c)
    BY <1>s, <2>1 DEF Take
  <2>2. CASE Answer(c)
    BY <1>x, <1>n, <2>2 DEF Answer, Exit
  <2>3. CASE StartJob(c)
    <3>1. file # Job(c) /\ Job(c) \notin Elements(line)
      BY <2>3, <1>g, <1>t, <1>n DEF StartJob
    <3> QED BY <2>3, <3>1, <1>g, <1>t, <1>n DEF StartJob, Going, LaneInv
  <2>4. CASE EndJob(c) \/ ClaimFails(c) \/ FinalizeFails(c)
    BY <1>s, <2>4 DEF EndJob, ClaimFails, FinalizeFails
  <2> QED BY <1>2, <2>1, <2>2, <2>3, <2>4 DEF Daemon
<1>3. ASSUME NEW w \in Worker, Locking(w)
      PROVE  Going' /\ LaneInv'
  <2>1. CASE Ask(w)
    <3>1. file # w /\ w \notin Elements(line)
      BY <2>1, <1>g, <1>t DEF Ask
    <3> QED BY <2>1, <3>1, <1>a, <1>g, <1>t DEF Ask, Going, LaneInv
  <2>2. CASE Granted(w)
    BY <2>2, <1>g, <1>t DEF Granted, Going, LaneInv
  <2>3. CASE InsideAncestor(w)
    BY <2>3, <1>g, <1>t DEF InsideAncestor, Going, LaneInv
  <2>4. CASE NoLane(w)
    <3>1. file # w /\ w \notin Elements(line)
      BY <2>4, <1>g, <1>t, InLineElements DEF NoLane
    <3> QED BY <2>4, <3>1, <1>g, <1>t DEF NoLane, Going, LaneInv
  <2>5. CASE FileGranted(w)
    BY <2>5, <1>g, <1>t DEF FileGranted, Going, LaneInv
  <2>6. CASE FileDenied(w)
    <3>1. file # w /\ w \notin Elements(line)
      BY <2>6, <1>g, <1>t DEF FileDenied
    <3> QED BY <2>6, <3>1, <1>g, <1>t DEF FileDenied, Going, LaneInv
  <2>7. CASE Land(w)
    BY <2>7, <1>l, <1>g, <1>t DEF Land, Going, LaneInv
  <2>8. CASE Contend(w)
    BY <2>8, <1>l, <1>g, <1>t DEF Contend, Going, LaneInv
  <2> QED BY <1>3, <2>1, <2>2, <2>3, <2>4, <2>5, <2>6, <2>7, <2>8 DEF Locking
<1>4. CASE Crash
  BY <1>4, <1>e, <1>g, <1>t DEF Crash, Going, LaneInv
<1>5. CASE Restart
  BY <1>s, <1>5 DEF Restart
<1> QED BY <1>1, <1>2, <1>3, <1>4, <1>5 DEF Next

LEMMA TypeStep ==
    ASSUME TypeOK, LaneInv, WayInv, Next
    PROVE  TypeOK' /\ LaneInv'
<1>1. Plain' /\ Going' => TypeOK'
  <2>1. ASSUME Plain', Going'
        PROVE  \A w \in Worker : InLine(w)' => st[w]' \in {"line", "in", "contended"}
    BY <2>1 DEF InLine, Elements, Going
  <2> QED BY <2>1 DEF Plain, Going, TypeOK
<1> QED BY <1>1, PlainStep, GoingStep

-----------------------------------------------------------------------------
(* What a step does to a worker, and to the commands that do not take it.  *)

Active == {"wants", "line", "file", "in"}

(* Only a worker that tries is moved by RepoLock::acquire, its write or an  *)
(* error; it never goes back to its start.                                  *)
LEMMA LockingMoves ==
    ASSUME NEW w \in Worker, Locking(w)
    PROVE  /\ st[w] \in Active
           /\ \E to \in {"line", "file", "in", "landed", "contended", "denied"} :
                 /\ st' = [st EXCEPT ![w] = to]
                 /\ to = "contended" => w[1] \in contended'
                 /\ to = "landed" => st[w] = "in" /\ landed' = Append(landed, w)
                 /\ to # "landed" => landed' = landed
           /\ contended \subseteq contended'
           /\ UNCHANGED <<pc, status, row, up, crashes, backlog, running, unanswered, unrecorded>>
<1> USE DEF Active, Step, cmdVars, laneVars, daemonVars, histVars
<1>1. CASE Ask(w)
  BY <1>1 DEF Ask
<1>2. CASE Granted(w)
  BY <1>2 DEF Granted
<1>3. CASE InsideAncestor(w)
  BY <1>3 DEF InsideAncestor
<1>4. CASE NoLane(w)
  BY <1>4 DEF NoLane
<1>5. CASE FileGranted(w)
  BY <1>5 DEF FileGranted
<1>6. CASE FileDenied(w)
  BY <1>6 DEF FileDenied
<1>7. CASE Land(w)
  BY <1>7 DEF Land
<1>8. CASE Contend(w)
  BY <1>8 DEF Contend
<1> QED BY <1>1, <1>2, <1>3, <1>4, <1>5, <1>6, <1>7, <1>8 DEF Locking

(* Nothing else starts or ends a worker but the gate, the pool and an       *)
(* inline run; what another command does leaves a command where it is.      *)
Same(d) ==
    /\ pc'[d] = pc[d] /\ status'[d] = status[d]
    /\ st'[Typed(d)] = st[Typed(d)] /\ st'[Job(d)] = st[Job(d)]
    /\ st'[Inline(d)] = st[Inline(d)]
    /\ row'[Job(d)] = row[Job(d)]

LEMMA OthersSame ==
    ASSUME TypeOK, NEW c \in Command, NEW d \in Command, c # d,
           Dispatch(c) \/ Daemon(c)
    PROVE  Same(d) /\ contended' = contended
<1> USE DEF Same, Goto, Step, cmdVars, laneVars, daemonVars, histVars
<1>0. /\ Typed(d) # Typed(c) /\ Job(d) # Job(c) /\ Inline(d) # Inline(c)
      /\ Typed(d) # Job(c) /\ Typed(d) # Inline(c) /\ Job(d) # Inline(c)
      /\ Job(d) # Typed(c) /\ Inline(d) # Typed(c) /\ Inline(d) # Job(c)
      /\ Typed(d) \in Worker /\ Job(d) \in Worker /\ Inline(d) \in Worker
  BY Names
<1>1. pc \in [Command -> {"begin", "runs", "submit", "asked", "inline", "inlining", "exit"}]
      /\ status \in [Command -> {"none", "ok", "queued", "error"}]
      /\ st \in [Worker -> {"none", "wants", "line", "file", "in", "landed", "contended", "denied"}]
      /\ row \in [Worker -> Row]
  BY DEF TypeOK
<1>2. CASE GateGranted(c)
  BY <1>0, <1>1, <1>2 DEF GateGranted
<1>3. CASE GateBusy(c)
  BY <1>0, <1>1, <1>3 DEF GateBusy
<1>4. CASE GateNoDaemon(c)
  BY <1>0, <1>1, <1>4 DEF GateNoDaemon
<1>5. CASE Ends(c)
  BY <1>0, <1>1, <1>5 DEF Ends, Exit
<1>6. CASE Requeue(c)
  BY <1>0, <1>1, <1>6 DEF Requeue
<1>7. CASE Submit(c)
  BY <1>0, <1>1, <1>7 DEF Submit
<1>8. CASE NoAnswer(c)
  BY <1>0, <1>1, <1>8 DEF NoAnswer
<1>9. CASE RunInline(c)
  BY <1>0, <1>1, <1>9 DEF RunInline
<1>10. CASE InlineEnds(c)
  BY <1>0, <1>1, <1>10 DEF InlineEnds, InlineRows, Exit
<1>11. CASE Take(c)
  BY <1>0, <1>1, <1>11 DEF Take
<1>12. CASE Answer(c)
  BY <1>0, <1>1, <1>12 DEF Answer, Exit
<1>13. CASE StartJob(c)
  BY <1>0, <1>1, <1>13 DEF StartJob
<1>14. CASE EndJob(c)
  BY <1>0, <1>1, <1>14 DEF EndJob
<1>15. CASE ClaimFails(c)
  BY <1>0, <1>1, <1>15 DEF ClaimFails
<1>16. CASE FinalizeFails(c)
  BY <1>0, <1>1, <1>16 DEF FinalizeFails
<1> QED BY <1>2, <1>3, <1>4, <1>5, <1>6, <1>7, <1>8, <1>9, <1>10, <1>11, <1>12, <1>13, <1>14,
           <1>15, <1>16
        DEF Dispatch, Daemon

(* A step of another command, or of one of its workers. *)
LEMMA WorkersOfOthersSame ==
    ASSUME TypeOK, NEW w \in Worker, NEW d \in Command, w[1] # d, Locking(w)
    PROVE  Same(d)
<1>1. w # Typed(d) /\ w # Job(d) /\ w # Inline(d)
  BY Names
<1> QED BY <1>1, LockingMoves, Names DEF TypeOK, Same

-----------------------------------------------------------------------------
(* How far the workers of a command are. *)

LEMMA WayOwn ==
    ASSUME TypeOK, NEW c \in Command, Way(c), c \in Elements(backlog) => Taken(c),
           Dispatch(c) \/ Daemon(c)
    PROVE  Way(c)'
<1> USE DEF Way, Begun, Taken, Past, Over, Goto, Step, cmdVars, laneVars, daemonVars, histVars
<1>0. /\ Typed(c) \in Worker /\ Job(c) \in Worker /\ Inline(c) \in Worker
      /\ Typed(c) # Job(c) /\ Typed(c) # Inline(c) /\ Job(c) # Inline(c)
  BY Names
<1>1. /\ pc \in [Command -> {"begin", "runs", "submit", "asked", "inline", "inlining", "exit"}]
      /\ st \in [Worker -> {"none", "wants", "line", "file", "in", "landed", "contended", "denied"}]
      /\ row \in [Worker -> Row]
  BY DEF TypeOK
<1>2. CASE GateGranted(c)
  BY <1>0, <1>1, <1>2 DEF GateGranted
<1>3. CASE GateBusy(c)
  BY <1>0, <1>1, <1>3 DEF GateBusy, WhenBusy
<1>4. CASE GateNoDaemon(c)
  BY <1>0, <1>1, <1>4 DEF GateNoDaemon
<1>5. CASE Ends(c)
  BY <1>0, <1>1, <1>5 DEF Ends, Exit
<1>6. CASE Requeue(c)
  BY <1>0, <1>1, <1>6 DEF Requeue
<1>7. CASE Submit(c)
  BY <1>0, <1>1, <1>7 DEF Submit
<1>8. CASE NoAnswer(c)
  BY <1>0, <1>1, <1>8 DEF NoAnswer
<1>9. CASE RunInline(c)
  BY <1>0, <1>1, <1>9 DEF RunInline
<1>10. CASE InlineEnds(c)
  BY <1>0, <1>1, <1>10 DEF InlineEnds, InlineRows, Exit, Verdict
<1>11. CASE Take(c)
  BY <1>0, <1>1, <1>11 DEF Take
<1>12. CASE Answer(c)
  BY <1>0, <1>1, <1>12 DEF Answer, Exit
<1>13. CASE StartJob(c)
  <2>1. Taken(c)
    BY <1>13, HeadIsIn DEF StartJob, TypeOK
  <2> QED BY <1>0, <1>1, <1>13, <2>1 DEF StartJob
<1>14. CASE EndJob(c)
  BY <1>0, <1>1, <1>14 DEF EndJob, Verdict
<1>15. CASE ClaimFails(c)
  BY <1>0, <1>1, <1>15 DEF ClaimFails
<1>16. CASE FinalizeFails(c)
  BY <1>0, <1>1, <1>16 DEF FinalizeFails
<1> QED BY <1>2, <1>3, <1>4, <1>5, <1>6, <1>7, <1>8, <1>9, <1>10, <1>11, <1>12, <1>13, <1>14,
           <1>15, <1>16
        DEF Dispatch, Daemon

LEMMA WayStep ==
    ASSUME TypeOK, WayInv, AfterInv, Next
    PROVE  WayInv'
<1> SUFFICES ASSUME NEW d \in Command
             PROVE  Way(d)'
  BY DEF WayInv
<1>0. Way(d) /\ (d \in Elements(backlog) => Taken(d))
  BY DEF WayInv, AfterInv, Order
<1>s. ASSUME Same(d), unanswered \subseteq unanswered'
      PROVE  Way(d)'
  BY <1>0, <1>s DEF Same, Way, Begun, Taken
<1>u. ASSUME NEW c \in Command, Dispatch(c) \/ Daemon(c)
      PROVE  unanswered \subseteq unanswered'
  BY <1>u DEF Dispatch, Daemon, GateGranted, GateBusy, GateNoDaemon, Ends, Requeue, Submit, NoAnswer,
              RunInline, InlineEnds, Take, Answer, StartJob, EndJob, ClaimFails, FinalizeFails, histVars
<1>1. ASSUME NEW c \in Command, Dispatch(c) \/ Daemon(c)
      PROVE  Way(d)'
  BY <1>0, <1>1, <1>s, <1>u, WayOwn, OthersSame
<1>2. ASSUME NEW w \in Worker, Locking(w)
      PROVE  Way(d)'
  <2>1. CASE w[1] # d
    BY <1>2, <1>s, <2>1, WorkersOfOthersSame, LockingMoves
  <2>2. CASE w[1] = d
    <3>1. PICK to : /\ st[w] \in Active /\ to # "none"
                    /\ st' = [st EXCEPT ![w] = to]
                    /\ UNCHANGED <<pc, row, unanswered>>
      BY <1>2, LockingMoves
    <3>2. /\ w \in {Typed(d), Job(d), Inline(d)}
          /\ Typed(d) \in Worker /\ Job(d) \in Worker /\ Inline(d) \in Worker
          /\ Typed(d) # Job(d) /\ Typed(d) # Inline(d) /\ Job(d) # Inline(d)
      BY <2>2, Names
    <3>3. /\ pc \in [Command -> {"begin", "runs", "submit", "asked", "inline", "inlining", "exit"}]
          /\ st \in [Worker -> {"none", "wants", "line", "file", "in", "landed", "contended", "denied"}]
      BY DEF TypeOK
    <3> QED BY <1>0, <3>1, <3>2, <3>3 DEF Way, Begun, Taken, Past, Active
  <2> QED BY <2>1, <2>2
<1>3. CASE Crash
  BY <1>s, <1>3 DEF Crash, Same, cmdVars, histVars
<1>4. CASE Restart
  BY <1>s, <1>4 DEF Restart, Same, cmdVars, histVars
<1> QED BY <1>1, <1>2, <1>3, <1>4 DEF Next

-----------------------------------------------------------------------------
(* A worker lands at most once. *)

LEMMA NothingLands ==
    ASSUME TypeOK, NEW c \in Command, Way(c), Dispatch(c) \/ Daemon(c)
    PROVE  /\ landed' = landed
           /\ \A w \in Worker : st'[w] = "landed" <=> st[w] = "landed"
<1> USE DEF Goto, Step, cmdVars, laneVars, daemonVars, histVars
<1>0. Typed(c) \in Worker /\ Job(c) \in Worker /\ Inline(c) \in Worker
  BY Names
<1>1. /\ st \in [Worker -> {"none", "wants", "line", "file", "in", "landed", "contended", "denied"}]
      /\ ~Begun(c) => st[Typed(c)] = "none"
  BY DEF TypeOK, Way
<1>2. CASE GateGranted(c)
  BY <1>0, <1>1, <1>2 DEF GateGranted
<1>3. CASE GateBusy(c)
  BY <1>0, <1>1, <1>3 DEF GateBusy, WhenBusy, Begun
<1>4. CASE GateNoDaemon(c)
  BY <1>0, <1>1, <1>4 DEF GateNoDaemon
<1>5. CASE Ends(c)
  BY <1>0, <1>1, <1>5 DEF Ends, Exit
<1>6. CASE Requeue(c)
  BY <1>0, <1>1, <1>6 DEF Requeue
<1>7. CASE Submit(c)
  BY <1>0, <1>1, <1>7 DEF Submit
<1>8. CASE NoAnswer(c)
  BY <1>0, <1>1, <1>8 DEF NoAnswer
<1>9. CASE RunInline(c)
  BY <1>0, <1>1, <1>9 DEF RunInline
<1>10. CASE InlineEnds(c)
  BY <1>0, <1>1, <1>10 DEF InlineEnds, InlineRows, Exit
<1>11. CASE Take(c)
  BY <1>0, <1>1, <1>11 DEF Take
<1>12. CASE Answer(c)
  BY <1>0, <1>1, <1>12 DEF Answer, Exit
<1>13. CASE StartJob(c)
  BY <1>0, <1>1, <1>13 DEF StartJob
<1>14. CASE EndJob(c)
  BY <1>0, <1>1, <1>14 DEF EndJob
<1>15. CASE ClaimFails(c)
  BY <1>0, <1>1, <1>15 DEF ClaimFails
<1>16. CASE FinalizeFails(c)
  BY <1>0, <1>1, <1>16 DEF FinalizeFails
<1> QED BY <1>2, <1>3, <1>4, <1>5, <1>6, <1>7, <1>8, <1>9, <1>10, <1>11, <1>12, <1>13, <1>14,
           <1>15, <1>16
        DEF Dispatch, Daemon

LEMMA LandStep ==
    ASSUME TypeOK, WayInv, LandInv, Next
    PROVE  LandInv'
<1>s. ASSUME landed' = landed, \A w \in Worker : st'[w] = "landed" <=> st[w] = "landed"
      PROVE  LandInv'
  BY <1>s DEF LandInv
<1>1. ASSUME NEW c \in Command, Dispatch(c) \/ Daemon(c)
      PROVE  LandInv'
  BY <1>1, <1>s, NothingLands DEF WayInv
<1>2. ASSUME NEW w \in Worker, Locking(w)
      PROVE  LandInv'
  <2>0. /\ st \in [Worker -> {"none", "wants", "line", "file", "in", "landed", "contended", "denied"}]
        /\ landed \in Seq(Worker)
    BY DEF TypeOK
  <2>1. PICK to : /\ st[w] \in Active
                  /\ st' = [st EXCEPT ![w] = to]
                  /\ to = "landed" => st[w] = "in" /\ landed' = Append(landed, w)
                  /\ to # "landed" => landed' = landed
    BY <1>2, LockingMoves
  <2>2. CASE to # "landed"
    BY <2>0, <2>1, <2>2, <1>s DEF Active
  <2>3. CASE to = "landed"
    <3>1. /\ Elements(Append(landed, w)) = Elements(landed) \cup {w}
          /\ w \notin Elements(landed) => Distinct(Append(landed, w))
      BY <2>0, AppendDistinct DEF LandInv
    <3>2. w \notin Elements(landed)
      BY <2>1, <2>3 DEF LandInv
    <3> QED BY <2>0, <2>1, <2>3, <3>1, <3>2 DEF LandInv
  <2> QED BY <2>2, <2>3
<1>3. CASE Crash
  BY <1>s, <1>3 DEF Crash, histVars
<1>4. CASE Restart
  BY <1>s, <1>4 DEF Restart, histVars
<1> QED BY <1>1, <1>2, <1>3, <1>4 DEF Next

-----------------------------------------------------------------------------
(* What exit status 0 stands for. *)

LEMMA KeptOwn ==
    ASSUME TypeOK, NEW c \in Command, Way(c), Kept(c), Dispatch(c) \/ Daemon(c)
    PROVE  Kept(c)'
<1> USE DEF Kept, Taken, Over, Goto, Step, cmdVars, laneVars, daemonVars, histVars
<1>0. /\ Typed(c) \in Worker /\ Job(c) \in Worker /\ Inline(c) \in Worker
      /\ Typed(c) # Job(c) /\ Typed(c) # Inline(c) /\ Job(c) # Inline(c)
  BY Names
<1>1. /\ pc \in [Command -> {"begin", "runs", "submit", "asked", "inline", "inlining", "exit"}]
      /\ status \in [Command -> {"none", "ok", "queued", "error"}]
      /\ st \in [Worker -> {"none", "wants", "line", "file", "in", "landed", "contended", "denied"}]
      /\ row \in [Worker -> Row]
      /\ backlog \in Seq(Command) /\ crashes \in Nat
      /\ (~Begun(c) => st[Typed(c)] = "none") /\ (st[Job(c)] # "none" => Taken(c))
      /\ pc[c] \in {"begin", "runs", "submit", "asked", "inline"} => st[Inline(c)] = "none"
  BY DEF TypeOK, Way
<1>b. Elements(Append(backlog, c)) = Elements(backlog) \cup {c}
  BY <1>1, AppendDistinct
<1>2. CASE GateGranted(c)
  BY <1>0, <1>1, <1>2 DEF GateGranted, Begun
<1>3. CASE GateBusy(c)
  BY <1>0, <1>1, <1>3 DEF GateBusy, WhenBusy, Begun
<1>4. CASE GateNoDaemon(c)
  BY <1>0, <1>1, <1>4 DEF GateNoDaemon
<1>5. CASE Ends(c)
  BY <1>0, <1>1, <1>5 DEF Ends, Exit
<1>6. CASE Requeue(c)
  BY <1>0, <1>1, <1>6 DEF Requeue
<1>7. CASE Submit(c)
  BY <1>0, <1>1, <1>7 DEF Submit
<1>8. CASE NoAnswer(c)
  BY <1>0, <1>1, <1>8 DEF NoAnswer
<1>9. CASE RunInline(c)
  BY <1>0, <1>1, <1>9 DEF RunInline
<1>10. CASE InlineEnds(c)
  BY <1>0, <1>1, <1>10 DEF InlineEnds, InlineRows, Exit, Verdict
<1>11. CASE Take(c)
  BY <1>0, <1>1, <1>b, <1>11 DEF Take
<1>12. CASE Answer(c)
  BY <1>0, <1>1, <1>12 DEF Answer, Exit
<1>13. CASE StartJob(c)
  BY <1>0, <1>1, <1>13 DEF StartJob
<1>14. CASE EndJob(c)
  BY <1>0, <1>1, <1>14 DEF EndJob, Verdict
<1>15. CASE ClaimFails(c)
  BY <1>0, <1>1, <1>15 DEF ClaimFails
<1>16. CASE FinalizeFails(c)
  BY <1>0, <1>1, <1>16 DEF FinalizeFails
<1> QED BY <1>2, <1>3, <1>4, <1>5, <1>6, <1>7, <1>8, <1>9, <1>10, <1>11, <1>12, <1>13, <1>14,
           <1>15, <1>16
        DEF Dispatch, Daemon

LEMMA OthersStay ==
    ASSUME TypeOK, NEW c \in Command, NEW d \in Command, c # d,
           Dispatch(c) \/ Daemon(c)
    PROVE  /\ crashes' = crashes /\ up' = up
           /\ d \in Elements(backlog) => d \in Elements(backlog')
           /\ running = d => running' = d
<1>0. backlog \in Seq(Command) /\ NoOne \notin Command
  BY NobodyAssumption DEF TypeOK
<1>1. CASE Take(c)
  BY <1>0, <1>1, AppendDistinct DEF Take
<1>2. CASE StartJob(c) \/ ClaimFails(c)
  <2>0. backlog # <<>> /\ Head(backlog) = c
    BY <1>2 DEF StartJob, ClaimFails
  <2>1. d \in Elements(backlog) => d \in Elements(Tail(backlog))
    <3>1. ASSUME NEW k \in DOMAIN backlog, backlog[k] = d
          PROVE  d \in Elements(Tail(backlog))
      <4>1. k # 1
        BY <1>0, <2>0, <3>1, TailElements
      <4> QED BY <1>0, <2>0, <3>1, <4>1, TailElements DEF Elements
    <3> QED BY <3>1 DEF Elements
  <2> QED BY <1>0, <1>2, <2>1 DEF StartJob, ClaimFails
<1>3. CASE EndJob(c) \/ FinalizeFails(c)
  BY <1>0, <1>3 DEF EndJob, FinalizeFails
<1>4. CASE Dispatch(c) \/ Answer(c)
  BY <1>4 DEF Dispatch, Answer, GateGranted, GateBusy, GateNoDaemon, Ends, Requeue, Submit, NoAnswer,
              RunInline, InlineEnds, daemonVars
<1> QED BY <1>1, <1>2, <1>3, <1>4 DEF Daemon

(* What the ledger did not take is not taken later. *)
LEMMA Recorded ==
    ASSUME NEW c \in Command, Dispatch(c) \/ Daemon(c)
    PROVE  unrecorded \subseteq unrecorded'
  BY DEF Dispatch, Daemon, GateGranted, GateBusy, GateNoDaemon, Ends, Requeue, Submit, NoAnswer,
         RunInline, InlineEnds, Take, Answer, StartJob, EndJob, ClaimFails, FinalizeFails, histVars

LEMMA KeptStep ==
    ASSUME TypeOK, WayInv, KeptInv, Next
    PROVE  KeptInv'
<1> SUFFICES ASSUME NEW d \in Command
             PROVE  Kept(d)'
  BY DEF KeptInv
<1>0. Way(d) /\ Kept(d) /\ crashes \in Nat
  BY DEF WayInv, KeptInv, TypeOK
<1>s. ASSUME Same(d), contended \subseteq contended', unrecorded \subseteq unrecorded',
             crashes' > 0 \/
                (/\ crashes' = crashes
                 /\ d \in Elements(backlog) => d \in Elements(backlog')
                 /\ running = d => running' = d)
      PROVE  Kept(d)'
  BY <1>0, <1>s DEF Same, Kept, Taken, Over
<1>1. ASSUME NEW c \in Command, Dispatch(c) \/ Daemon(c)
      PROVE  Kept(d)'
  <2>1. CASE c = d
    BY <1>0, <1>1, <2>1, KeptOwn
  <2>2. CASE c # d
    BY <1>1, <1>s, <2>2, OthersSame, OthersStay, Recorded
  <2> QED BY <2>1, <2>2
<1>2. ASSUME NEW w \in Worker, Locking(w)
      PROVE  Kept(d)'
  <2>0. /\ contended \subseteq contended'
        /\ UNCHANGED <<pc, status, row, crashes, backlog, running, unrecorded>>
    BY <1>2, LockingMoves
  <2>1. CASE w[1] # d
    BY <1>2, <1>s, <2>0, <2>1, WorkersOfOthersSame
  <2>2. CASE w[1] = d
    <3>1. PICK to : /\ st[w] \in Active
                    /\ st' = [st EXCEPT ![w] = to]
                    /\ to = "contended" => d \in contended'
      BY <1>2, <2>2, LockingMoves
    <3>2. /\ w \in {Typed(d), Job(d), Inline(d)}
          /\ Typed(d) \in Worker /\ Job(d) \in Worker /\ Inline(d) \in Worker
          /\ Typed(d) # Job(d) /\ Typed(d) # Inline(d) /\ Job(d) # Inline(d)
      BY <2>2, Names
    <3>3. st \in [Worker -> {"none", "wants", "line", "file", "in", "landed", "contended", "denied"}]
      BY DEF TypeOK
    <3> QED BY <1>0, <2>0, <3>1, <3>2, <3>3 DEF Kept, Taken, Over, Active
  <2> QED BY <2>1, <2>2
<1>3. CASE Crash
  BY <1>0, <1>s, <1>3 DEF Crash, Same, cmdVars, histVars
<1>4. CASE Restart
  BY <1>s, <1>4 DEF Restart, Same, cmdVars, histVars
<1> QED BY <1>1, <1>2, <1>3, <1>4 DEF Next

-----------------------------------------------------------------------------
(* What a command of a shell may count on when its turn comes. *)

(* Who has exited makes no job any more, and a job that is over stays so. *)
LEMMA OwnStays ==
    ASSUME TypeOK, NEW c \in Command, Way(c), c \in Elements(backlog) => Taken(c),
           Dispatch(c) \/ Daemon(c)
    PROVE  /\ pc[c] = "exit" => pc'[c] = "exit" /\ (Taken(c)' <=> Taken(c))
           /\ Over(Job(c)) => Over(Job(c))'
<1> USE DEF Taken, Over, Goto, Step, cmdVars, laneVars, daemonVars, histVars
<1>0. /\ Typed(c) \in Worker /\ Job(c) \in Worker /\ Inline(c) \in Worker
      /\ Typed(c) # Job(c) /\ Typed(c) # Inline(c) /\ Job(c) # Inline(c)
  BY Names
<1>1. /\ pc \in [Command -> {"begin", "runs", "submit", "asked", "inline", "inlining", "exit"}]
      /\ st \in [Worker -> {"none", "wants", "line", "file", "in", "landed", "contended", "denied"}]
      /\ row \in [Worker -> Row]
      /\ st[Job(c)] # "none" => Taken(c)
  BY DEF TypeOK, Way
<1>2. CASE GateGranted(c)
  BY <1>0, <1>1, <1>2 DEF GateGranted
<1>3. CASE GateBusy(c)
  BY <1>0, <1>1, <1>3 DEF GateBusy, WhenBusy
<1>4. CASE GateNoDaemon(c)
  BY <1>0, <1>1, <1>4 DEF GateNoDaemon
<1>5. CASE Ends(c)
  BY <1>0, <1>1, <1>5 DEF Ends, Exit
<1>6. CASE Requeue(c)
  BY <1>0, <1>1, <1>6 DEF Requeue
<1>7. CASE Submit(c)
  BY <1>0, <1>1, <1>7 DEF Submit
<1>8. CASE NoAnswer(c)
  BY <1>0, <1>1, <1>8 DEF NoAnswer
<1>9. CASE RunInline(c)
  BY <1>0, <1>1, <1>9 DEF RunInline
<1>10. CASE InlineEnds(c)
  BY <1>0, <1>1, <1>10 DEF InlineEnds, InlineRows, Exit, Verdict
<1>11. CASE Take(c)
  BY <1>0, <1>1, <1>11 DEF Take
<1>12. CASE Answer(c)
  BY <1>0, <1>1, <1>12 DEF Answer, Exit
<1>13. CASE StartJob(c)
  <2>1. Taken(c)
    BY <1>13, HeadIsIn DEF StartJob, TypeOK
  <2> QED BY <1>0, <1>1, <1>13, <2>1 DEF StartJob
<1>14. CASE EndJob(c)
  BY <1>0, <1>1, <1>14 DEF EndJob, Verdict
<1>15. CASE ClaimFails(c)
  BY <1>0, <1>1, <1>15 DEF ClaimFails
<1>16. CASE FinalizeFails(c)
  BY <1>0, <1>1, <1>16 DEF FinalizeFails
<1> QED BY <1>2, <1>3, <1>4, <1>5, <1>6, <1>7, <1>8, <1>9, <1>10, <1>11, <1>12, <1>13, <1>14,
           <1>15, <1>16
        DEF Dispatch, Daemon

(* Only a submission that a daemon takes puts a job behind the others.      *)
LEMMA Enters ==
    ASSUME TypeOK, NEW b \in Command, Next,
           b \in Elements(backlog'), b \notin Elements(backlog)
    PROVE  Take(b)
<1>0. backlog \in Seq(Command)
  BY DEF TypeOK
<1>1. ASSUME NEW c \in Command, Dispatch(c) \/ Daemon(c)
      PROVE  Take(b)
  <2>1. CASE Take(c)
    <3>1. Elements(backlog') = Elements(backlog) \cup {c}
      BY <1>0, <2>1, AppendDistinct DEF Take
    <3> QED BY <2>1, <3>1
  <2>2. CASE StartJob(c) \/ ClaimFails(c)
    <3>1. backlog # <<>> /\ backlog' = Tail(backlog)
      BY <2>2 DEF StartJob, ClaimFails
    <3>2. b \in Elements(backlog)
      BY <1>0, <3>1, TailElements DEF Elements
    <3> QED BY <3>2
  <2>3. CASE backlog' = backlog
    BY <2>3
  <2>4. Take(c) \/ StartJob(c) \/ ClaimFails(c) \/ backlog' = backlog
    BY <1>1 DEF Dispatch, Daemon, GateGranted, GateBusy, GateNoDaemon, Ends, Requeue, Submit, NoAnswer,
                RunInline, InlineEnds, Answer, EndJob, FinalizeFails, daemonVars
  <2> QED BY <2>1, <2>2, <2>3, <2>4
<1>2. ASSUME NEW w \in Worker, Locking(w)
      PROVE  Take(b)
  BY <1>2, LockingMoves
<1>3. ~Crash /\ ~Restart
  BY DEF Crash, Restart, Elements
<1> QED BY <1>1, <1>2, <1>3 DEF Next

(* A job that was dropped is not started later. *)
LEMMA DroppedStays ==
    ASSUME TypeOK, NEW b \in Command, pc[b] = "exit", Dropped(b), Next
    PROVE  Dropped(b)'
<1>0. /\ st \in [Worker -> {"none", "wants", "line", "file", "in", "landed", "contended", "denied"}]
      /\ pc \in [Command -> {"begin", "runs", "submit", "asked", "inline", "inlining", "exit"}]
      /\ backlog \in Seq(Command) /\ Job(b) \in Worker
  BY Names DEF TypeOK
<1>1. b \notin Elements(backlog')
  BY Enters DEF Dropped, Take
<1>2. ASSUME NEW c \in Command, Dispatch(c) \/ Daemon(c)
      PROVE  st'[Job(b)] = "none"
  <2>1. CASE c # b
    BY <1>2, <2>1, OthersSame DEF Same, Dropped
  <2>2. CASE c = b
    <3>1. ~StartJob(b)
      BY <1>0, HeadIsIn DEF StartJob, Dropped
    <3>2. Typed(b) \in Worker /\ Job(b) # Typed(b) /\ Inline(b) # Job(b)
      BY Names
    <3> QED BY <1>0, <1>2, <2>2, <3>1, <3>2
            DEF Dropped, Dispatch, Daemon, GateGranted, GateBusy, GateNoDaemon, Ends, Requeue, Submit, NoAnswer,
                RunInline, InlineEnds, Take, Answer, EndJob, ClaimFails, FinalizeFails, Goto, Step
  <2> QED BY <2>1, <2>2
<1>3. ASSUME NEW w \in Worker, Locking(w)
      PROVE  st'[Job(b)] = "none"
  <2>1. PICK to : st[w] \in Active /\ st' = [st EXCEPT ![w] = to]
    BY <1>3, LockingMoves
  <2> QED BY <1>0, <2>1 DEF Dropped, Active
<1>4. Crash \/ Restart => st' = st
  BY DEF Crash, Restart
<1> QED BY <1>1, <1>2, <1>3, <1>4 DEF Next, Dropped

LEMMA SettledStays ==
    ASSUME TypeOK, WayInv, AfterInv, NEW b \in Command, pc[b] = "exit", Next
    PROVE  pc'[b] = "exit" /\ (Settled(b) => Settled(b)')
<1> DEFINE Stays == /\ pc'[b] = "exit"
                    /\ Taken(b)' <=> Taken(b)
                    /\ Over(Job(b)) => Over(Job(b))'
<1>s. ASSUME Same(b)
      PROVE  Stays
  BY <1>s DEF Same, Taken, Over
<1>1. ASSUME NEW c \in Command, Dispatch(c) \/ Daemon(c)
      PROVE  Stays
  <2>1. CASE c = b
    BY <1>1, <2>1, OwnStays DEF WayInv, AfterInv, Order
  <2>2. CASE c # b
    BY <1>1, <1>s, <2>2, OthersSame
  <2> QED BY <2>1, <2>2
<1>2. ASSUME NEW w \in Worker, Locking(w)
      PROVE  Stays
  <2>1. PICK to : /\ st[w] \in Active
                  /\ st' = [st EXCEPT ![w] = to]
                  /\ UNCHANGED <<pc, row>>
    BY <1>2, LockingMoves
  <2>2. st \in [Worker -> {"none", "wants", "line", "file", "in", "landed", "contended", "denied"}]
        /\ Job(b) \in Worker
    BY Names DEF TypeOK
  <2>3. Over(Job(b)) => w # Job(b)
    BY <2>1 DEF Over, Active
  <2> QED BY <2>1, <2>2, <2>3 DEF Taken, Over
<1>3. Crash \/ Restart => Same(b)
  BY DEF Crash, Restart, Same, cmdVars
<1> HIDE DEF Stays
<1>5. Stays
  BY <1>s, <1>1, <1>2, <1>3 DEF Next
<1>6. Dropped(b) => Dropped(b)'
  BY DroppedStays
<1>7. pc'[b] = "exit" /\ (Taken(b)' <=> Taken(b)) /\ (Over(Job(b)) => Over(Job(b))')
  BY <1>5 DEF Stays
<1> QED BY <1>6, <1>7 DEF Settled

(* While the daemon lives, a job that was taken and is not in its pool is   *)
(* over, or was dropped.                                                    *)
LEMMA PoolHasIt ==
    ASSUME TypeOK, KeptInv, NEW b \in Command, crashes = 0, Taken(b),
           b \notin Elements(backlog), running # b
    PROVE  Settled(b)
<1>1. row[Job(b)] \in Row
  BY Names DEF TypeOK
<1>2. Kept(b)
  BY DEF KeptInv
<1> QED BY <1>1, <1>2 DEF Kept, Taken, Row, Over, Settled, Dropped

LEMMA TakenStays ==
    ASSUME TypeOK, WayInv, Next, NEW d \in Command, Taken(d)
    PROVE  Taken(d)'
<1>s. row'[Job(d)] = row[Job(d)] => Taken(d)'
  BY DEF Taken
<1>1. ASSUME NEW c \in Command, Dispatch(c) \/ Daemon(c), row'[Job(d)] # row[Job(d)]
      PROVE  Taken(d)'
  <2>1. c = d
    BY <1>1, OthersSame DEF Same
  <2>2. Job(d) \in Worker /\ Inline(d) \in Worker /\ Job(d) # Inline(d) /\ row \in [Worker -> Row]
    BY Names DEF TypeOK
  <2> QED BY <1>1, <2>1, <2>2 DEF Taken, Dispatch, Daemon, GateGranted, GateBusy, GateNoDaemon, Ends, Requeue,
             Submit, NoAnswer, RunInline, InlineEnds, Take, Answer, StartJob, EndJob, ClaimFails, FinalizeFails, Verdict
<1> QED BY <1>s, <1>1, LockingMoves DEF Next, Crash, Restart

LEMMA OrderStep ==
    ASSUME TypeOK, WayInv, AfterInv, Next
    PROVE  Order'
<1>0. /\ Before \in [Command -> SUBSET Command]
      /\ backlog \in Seq(Command)
      /\ pc \in [Command -> {"begin", "runs", "submit", "asked", "inline", "inlining", "exit"}]
  BY DeliveryAssumption DEF TypeOK
<1>o. Order
  BY DEF AfterInv
<1>1. ASSUME NEW d \in Command, Begun(d)', NEW b \in Before[d]
      PROVE  pc'[b] = "exit"
  <2>1. b \in Command
    BY <1>0
  <2>2. pc[b] = "exit"
    <3>1. CASE Begun(d)
      BY <1>o, <3>1 DEF Order
    <3>2. CASE ~Begun(d)
      <4>1. pc'[d] # pc[d]
        BY <1>1, <3>2 DEF Begun
      <4>2. PICK c \in Command : Dispatch(c) \/ Daemon(c)
        BY <4>1, LockingMoves DEF Next, Crash, Restart, cmdVars
      <4>3. c = d
        BY <4>1, <4>2, OthersSame DEF Same
      <4>4. GateGranted(d) \/ GateBusy(d) \/ GateNoDaemon(d)
        BY <1>0, <3>2, <4>1, <4>2, <4>3
        DEF Begun, Dispatch, Daemon, Ends, Requeue, Submit, NoAnswer, RunInline, InlineEnds,
            Take, Answer, StartJob, EndJob, ClaimFails, FinalizeFails, Exit, Goto, cmdVars
      <4> QED BY <4>4 DEF GateGranted, GateBusy, GateNoDaemon, Ready
    <3> QED BY <3>1, <3>2
  <2> QED BY <2>1, <2>2, SettledStays
<1>t. ASSUME NEW d \in Command, Taken(d)
      PROVE  Taken(d)'
  BY <1>t, TakenStays
<1>2. CASE \E c \in Command : Take(c)
  <2>1. PICK c \in Command : Take(c)
    BY <1>2
  <2>2. /\ backlog' = Append(backlog, c) /\ pc[c] = "asked"
        /\ Elements(Append(backlog, c)) = Elements(backlog) \cup {c}
    BY <1>0, <2>1, AppendDistinct DEF Take
  <2>3. Taken(c)'
    BY <2>1, Names DEF Take, Taken, TypeOK, Row
  <2>4. \A i, j \in DOMAIN backlog' : backlog'[j] \in Before[backlog'[i]] => j < i
    <3> SUFFICES ASSUME NEW i \in DOMAIN backlog', NEW j \in DOMAIN backlog',
                        backlog'[j] \in Before[backlog'[i]]
                 PROVE  j < i
      OBVIOUS
    <3>1. \A k \in DOMAIN backlog' : \/ k \in DOMAIN backlog /\ backlog'[k] = backlog[k]
                                     \/ k = Len(backlog) + 1 /\ backlog'[k] = c
      BY <1>0, <2>2, AppendElements
    <3>2. Begun(backlog'[i]) /\ backlog'[i] \in Command
      BY <1>0, <1>o, <2>2, <3>1 DEF Order, Elements, Begun, WayInv, Way
    <3>3. j \in DOMAIN backlog /\ backlog'[j] = backlog[j]
      BY <1>o, <2>2, <3>1, <3>2 DEF Order
    <3> QED BY <1>0, <1>o, <3>1, <3>3 DEF Order
  <2>5. Distinct(backlog')
    BY <1>0, <1>o, <2>1, <2>2, AppendDistinct DEF Order, Take
  <2>6. \A d \in Elements(backlog') : Taken(d)'
    <3>1. \A d \in Elements(backlog) : d \in Command /\ Taken(d)
      BY <1>0, <1>o DEF Order, Elements
    <3> QED BY <1>t, <2>2, <2>3, <3>1
  <2> QED BY <1>1, <2>4, <2>5, <2>6 DEF Order
<1>3. CASE \E c \in Command : StartJob(c) \/ ClaimFails(c)
  <2>1. backlog # <<>> /\ backlog' = Tail(backlog)
    BY <1>3 DEF StartJob, ClaimFails
  <2>2. \A k \in DOMAIN backlog' : k + 1 \in DOMAIN backlog /\ backlog'[k] = backlog[k + 1] /\ k \in Nat
    BY <1>0, <2>1, TailElements
  <2>3. Distinct(backlog')
    BY <1>o, <2>2 DEF Order, Distinct
  <2>4. \A d \in Elements(backlog') : Taken(d)'
    BY <1>t, <1>o, <1>0, <2>2 DEF Order, Elements
  <2>5. \A i, j \in DOMAIN backlog' : backlog'[j] \in Before[backlog'[i]] => j < i
    BY <1>o, <2>2 DEF Order
  <2> QED BY <1>1, <2>3, <2>4, <2>5 DEF Order
<1>4. CASE backlog' = backlog \/ backlog' = <<>>
  <2>1. Distinct(backlog')
    BY <1>o, <1>4 DEF Order, Distinct
  <2>2. \A d \in Elements(backlog') : Taken(d)'
    BY <1>t, <1>o, <1>0, <1>4 DEF Order, Elements
  <2>3. \A i, j \in DOMAIN backlog' : backlog'[j] \in Before[backlog'[i]] => j < i
    BY <1>o, <1>4 DEF Order
  <2> QED BY <1>1, <2>1, <2>2, <2>3 DEF Order
<1>5. \/ \E c \in Command : Take(c) \/ StartJob(c) \/ ClaimFails(c)
      \/ backlog' = backlog \/ backlog' = <<>>
  BY LockingMoves DEF Next, Dispatch, Daemon, GateGranted, GateBusy, GateNoDaemon, Ends, Requeue, Submit,
     NoAnswer, RunInline, InlineEnds, Answer, EndJob, FinalizeFails, Crash, Restart, daemonVars
<1> QED BY <1>2, <1>3, <1>4, <1>5

(* What starts a worker of a command: the gate, an inline run, the pool. *)
LEMMA Starts ==
    ASSUME TypeOK, WayInv, NEW d \in Command, Queueable(d), ~Started(d), Started(d)', Next
    PROVE  GateGranted(d) \/ GateNoDaemon(d) \/ RunInline(d) \/ StartJob(d)
<1>n. ~Same(d)
  BY DEF Same, Started
<1>1. ASSUME NEW c \in Command, Dispatch(c) \/ Daemon(c)
      PROVE  GateGranted(d) \/ GateNoDaemon(d) \/ RunInline(d) \/ StartJob(d)
  <2>1. c = d
    BY <1>n, <1>1, OthersSame
  <2>2. st' # st
    BY DEF Started
  <2>3. ~GateBusy(d)
    <3>1. GateBusy(d) => st' = st
      BY DEF GateBusy, WhenBusy, Queueable, TypeOK
    <3> QED BY <2>2, <3>1
  <2> QED BY <1>1, <2>1, <2>2, <2>3
          DEF Dispatch, Daemon, Ends, Requeue, Submit, NoAnswer, InlineEnds, Take, Answer, EndJob,
              ClaimFails, FinalizeFails
<1>2. ASSUME NEW w \in Worker, Locking(w)
      PROVE  FALSE
  <2>1. w[1] = d
    BY <1>n, <1>2, WorkersOfOthersSame
  <2> QED BY <1>2, <2>1, LockingMoves, Names DEF Started, Active
<1>3. ~Crash /\ ~Restart
  BY <1>n DEF Crash, Restart, Same, cmdVars
<1> QED BY <1>1, <1>2, <1>3 DEF Next

LEMMA AfterStep ==
    ASSUME TypeOK, WayInv, KeptInv, AfterInv, Next
    PROVE  AfterInv'
<1> SUFFICES ASSUME NEW d \in Command, crashes' = 0
             PROVE  /\ ~up' => ~Taken(d)'
                    /\ Queueable(d) /\ pc'[d] = "inline" => ~up'
                    /\ Queueable(d) /\ Started(d)' => \A b \in Before[d] : Settled(b)'
  BY OrderStep DEF AfterInv, After, Queueable
<1>0. /\ Before \in [Command -> SUBSET Command]
      /\ backlog \in Seq(Command) /\ running \in Command \cup {NoOne} /\ NoOne \notin Command
      /\ pc \in [Command -> {"begin", "runs", "submit", "asked", "inline", "inlining", "exit"}]
      /\ row \in [Worker -> Row] /\ crashes \in Nat
  BY DeliveryAssumption, NobodyAssumption DEF TypeOK
<1>1. ~Crash
  BY <1>0 DEF Crash
<1>2. crashes = 0 /\ up' = up
  <2>1. ASSUME NEW c \in Command, Dispatch(c) \/ Daemon(c)
        PROVE  crashes' = crashes /\ up' = up
    BY <2>1 DEF Dispatch, Daemon, GateGranted, GateBusy, GateNoDaemon, Ends, Requeue, Submit, NoAnswer,
                RunInline, InlineEnds, Take, Answer, StartJob, EndJob, ClaimFails, FinalizeFails,
                daemonVars
  <2> QED BY <1>0, <1>1, <2>1, LockingMoves DEF Next, Restart
<1>3. ~Restart
  BY <1>2 DEF Restart
<1>i. /\ \A c \in Command : ~up => ~Taken(c)
      /\ Queueable(d) /\ pc[d] = "inline" => ~up
      /\ Queueable(d) /\ Started(d) => \A b \in Before[d] : Settled(b)
      /\ Begun(d) => \A b \in Before[d] : pc[b] = "exit"
      /\ \A i, j \in DOMAIN backlog : backlog[j] \in Before[backlog[i]] => j < i
  BY <1>2 DEF AfterInv, After, Order
<1>4. ~up' => ~Taken(d)'
  <2> SUFFICES ASSUME ~up, Taken(d)'
               PROVE  FALSE
    BY <1>2
  <2>1. row'[Job(d)] # row[Job(d)]
    BY <1>i DEF Taken
  <2>2. PICK c \in Command : Dispatch(c) \/ Daemon(c)
    BY <1>1, <1>3, <2>1, LockingMoves DEF Next
  <2>3. c = d
    BY <2>1, <2>2, OthersSame DEF Same
  <2>4. Inline(d) # Job(d) /\ Job(d) \in Worker /\ Inline(d) \in Worker
    BY Names
  <2>5. ~RunInline(d) /\ ~InlineEnds(d)
    BY <1>0, <2>1, <2>4 DEF RunInline, InlineEnds
  <2>6. Dispatch(d) => row' = row
    BY <2>5 DEF Dispatch, GateGranted, GateBusy, GateNoDaemon, Ends, Requeue, Submit, NoAnswer
  <2> QED BY <2>1, <2>2, <2>3, <2>6 DEF Daemon, Take, Answer, StartJob, EndJob, ClaimFails, FinalizeFails
<1>5. Queueable(d) /\ pc'[d] = "inline" => ~up'
  <2> SUFFICES ASSUME Queueable(d), pc'[d] = "inline", pc[d] # "inline"
               PROVE  ~up
    BY <1>2, <1>i
  <2>1. PICK c \in Command : Dispatch(c) \/ Daemon(c)
    BY <1>1, <1>3, LockingMoves DEF Next
  <2>2. c = d
    BY <2>1, OthersSame DEF Same
  <2>3. Submit(d) \/ NoAnswer(d)
    BY <1>0, <2>1, <2>2
    DEF Dispatch, Daemon, GateGranted, GateBusy, WhenBusy, GateNoDaemon, Ends, Requeue, RunInline,
        InlineEnds, Take, Answer, StartJob, EndJob, ClaimFails, FinalizeFails, Exit, Goto, cmdVars
  <2> QED BY <1>0, <2>3 DEF Submit, NoAnswer, Unreached, Goto, Queueable
<1>6. ASSUME Queueable(d), Started(d)', NEW b \in Before[d]
      PROVE  Settled(b)'
  <2>0. b \in Command
    BY <1>0
  <2>p. ASSUME pc[b] = "exit", Settled(b)
        PROVE  Settled(b)'
    BY <2>0, <2>p, SettledStays
  <2>1. CASE Started(d)
    <3>1. Begun(d)
      <4>1. st[Typed(d)] # "none" \/ st[Job(d)] # "none" \/ st[Inline(d)] # "none"
        BY <2>1 DEF Started
      <4> QED BY <4>1 DEF WayInv, Way, Begun, Taken
    <3> QED BY <1>6, <1>i, <2>1, <2>p, <3>1
  <2>2. CASE GateGranted(d)
    <3>1. pc[b] = "exit" /\ running = NoOne /\ backlog = <<>>
      BY <2>2 DEF GateGranted, Ready, Pending
    <3>2. b \notin Elements(backlog) /\ running # b
      BY <1>0, <2>0, <3>1 DEF Elements
    <3> QED BY <1>2, <2>0, <2>p, <3>1, <3>2, PoolHasIt DEF Settled
  <2>3. CASE GateNoDaemon(d)
    BY <1>i, <1>6, <2>0, <2>3, <2>p DEF GateNoDaemon, Unreached, Queueable, Ready, Settled
  <2>4. CASE RunInline(d)
    <3>1. pc[d] = "inline"
      BY <2>4 DEF RunInline, Goto
    <3> QED BY <1>6, <1>i, <2>0, <2>p, <3>1 DEF Begun, Settled
  <2>5. CASE StartJob(d)
    <3>1. running = NoOne /\ 1 \in DOMAIN backlog /\ backlog[1] = d /\ DOMAIN backlog \subseteq Nat \ {0}
      BY <1>0, <2>5, TailElements DEF StartJob
    <3>2. b \notin Elements(backlog)
      BY <1>i, <3>1 DEF Elements
    <3>3. Begun(d)
      BY <3>1 DEF AfterInv, Order, WayInv, Way, Begun, Elements
    <3>4. running # b
      BY <1>0, <2>0, <3>1
    <3> QED BY <1>2, <1>i, <2>0, <2>p, <3>2, <3>3, <3>4, PoolHasIt DEF Settled
  <2> QED BY <1>6, <2>1, <2>2, <2>3, <2>4, <2>5, Starts
<1> QED BY <1>4, <1>5, <1>6

-----------------------------------------------------------------------------
(* The invariant. *)

LEMMA Start == Init => DeliveryInv
<1> SUFFICES ASSUME Init
             PROVE  DeliveryInv
  OBVIOUS
<1> USE DEF Init
<1>0. \A c \in Command : Typed(c) \in Worker /\ Job(c) \in Worker /\ Inline(c) \in Worker
  BY Names
<1>e. Elements(<<>>) = {} /\ Distinct(<<>>)
  BY DEF Elements, Distinct
<1>1. TypeOK
  BY DeliveryAssumption DEF TypeOK, Row, InLine
<1>2. LaneInv /\ LandInv
  BY <1>e DEF LaneInv, LandInv
<1>3. WayInv /\ KeptInv
  BY <1>0 DEF WayInv, Way, KeptInv, Kept, Begun, Taken, Past, Over
<1>4. AfterInv
  BY <1>0, <1>e DEF AfterInv, Order, After, Begun, Taken, Started
<1> QED BY <1>1, <1>2, <1>3, <1>4 DEF DeliveryInv

LEMMA NextKeeps ==
    ASSUME DeliveryInv, [Next]_vars
    PROVE  DeliveryInv'
<1> USE DEF DeliveryInv
<1>1. CASE Next
  BY <1>1, TypeStep, WayStep, LandStep, KeptStep, AfterStep
<1>2. CASE UNCHANGED vars
  <2> USE <1>2 DEF vars, cmdVars, laneVars, daemonVars, histVars
  <2>1. TypeOK' /\ LaneInv' /\ LandInv'
    BY DEF TypeOK, InLine, LaneInv, LandInv
  <2>2. WayInv' /\ KeptInv'
    BY DEF WayInv, Way, KeptInv, Kept, Begun, Taken, Over
  <2>3. AfterInv'
    BY DEF AfterInv, Order, After, Begun, Taken, Started, Settled, Dropped, Over
  <2> QED BY <2>1, <2>2, <2>3
<1> QED BY <1>1, <1>2

LEMMA Delivery == Spec => []DeliveryInv
  BY Start, NextKeeps, PTL DEF Spec

-----------------------------------------------------------------------------
(* The theorems. *)

(* Whatever runs, crashes or is refused, nobody is in a lane twice and      *)
(* whoever is in one is on its way through RepoLock::acquire.               *)
THEOREM TypeCorrect == Spec => []TypeOK
  BY Delivery, PTL DEF DeliveryInv

LEMMA AtMostOne ==
    ASSUME NEW S, \A a, b \in S : a = b
    PROVE  Cardinality(S) \in Nat /\ Cardinality(S) <= 1
<1>1. CASE S = {}
  BY <1>1, FS_EmptySet
<1>2. CASE S # {}
  <2>1. PICK a \in S : S = {a}
    BY <1>2
  <2> QED BY <2>1, FS_Singleton
<1> QED BY <1>1, <1>2

(* The index of the history at which a worker landed. *)
LEMMA LandedWorker ==
    ASSUME TypeOK, LandInv, NEW c \in Command, NEW i \in Landings(c)
    PROVE  /\ i \in DOMAIN landed /\ landed[i] \in Worker /\ st[landed[i]] = "landed"
           /\ landed[i] \in {Typed(c), Job(c), Inline(c)}
<1>1. i \in DOMAIN landed /\ landed[i][1] = c
  BY DEF Landings
<1>2. landed[i] \in Worker /\ landed[i] \in Elements(landed)
  BY <1>1 DEF TypeOK, Elements
<1> QED BY <1>1, <1>2, Names DEF LandInv

LEMMA WorkerLanding ==
    ASSUME TypeOK, LandInv, NEW c \in Command, NEW w \in {Typed(c), Job(c), Inline(c)},
           st[w] = "landed"
    PROVE  Landings(c) # {}
<1>1. w \in Worker /\ w[1] = c
  BY Names
<1>2. PICK i \in DOMAIN landed : landed[i] = w
  BY <1>1 DEF LandInv, Elements
<1> QED BY <1>1, <1>2 DEF Landings

LEMMA LandsOnceHolds ==
    ASSUME DeliveryInv
    PROVE  LandsOnce
<1> USE DEF DeliveryInv
<1> SUFFICES ASSUME NEW c \in Command, c \notin unanswered
             PROVE  ~(Cardinality(Landings(c)) > 1)
  BY DEF LandsOnce
<1>1. ASSUME NEW i \in Landings(c), NEW j \in Landings(c)
      PROVE  i = j
  <2>1. landed[i] = landed[j]
    BY LandedWorker DEF WayInv, Way
  <2> QED BY <2>1, LandedWorker DEF LandInv, Distinct
<1> QED BY <1>1, AtMostOne

(* The typed process, its job and an inline run never do the same work      *)
(* twice but for one reason: a daemon took the job and went unanswered.     *)
THEOREM Once == Spec => []LandsOnce
  BY Delivery, LandsOnceHolds, PTL

LEMMA KeptHolds ==
    ASSUME DeliveryInv
    PROVE  SuccessIsKept
<1> USE DEF DeliveryInv
<1> SUFFICES ASSUME NEW c \in Command
             PROVE  /\ status[c] = "ok" => Landings(c) # {}
                    /\ status[c] = "queued" => (c \in Child => c \in contended)
                    /\ status[c] = "queued" =>
                         \/ InDaemon(c)
                         \/ row[Job(c)] = "done" /\ Landings(c) # {}
                         \/ row[Job(c)] = "failed"
                         \/ LeftBehind(c)
  BY DEF SuccessIsKept
<1>1. Kept(c)
  BY DEF KeptInv
<1>2. InDaemon(c) <=> running = c \/ c \in Elements(backlog)
  BY DEF InDaemon, Elements
<1>3. row[Job(c)] \in Row
  BY Names DEF TypeOK
<1>4. ASSUME status[c] = "queued", row[Job(c)] = "queued"
      PROVE  Landings(c) = {}
  <2>1. st[Inline(c)] = "none" /\ st[Job(c)] = "none"
    BY <1>1, <1>4 DEF Kept
  <2>2. st[Typed(c)] \in {"none", "contended"}
    BY <1>4 DEF WayInv, Way, Taken
  <2>3. ASSUME NEW i \in Landings(c)
        PROVE  FALSE
    BY <2>1, <2>2, LandedWorker
  <2> QED BY <2>3
<1>5. status[c] = "ok" => Landings(c) # {}
  BY <1>1, WorkerLanding DEF Kept
<1>6. row[Job(c)] = "done" => Landings(c) # {}
  BY <1>1, WorkerLanding DEF Kept
<1>7. ASSUME status[c] = "queued"
      PROVE  InDaemon(c) \/ row[Job(c)] \in {"done", "failed"} \/ LeftBehind(c)
  BY <1>1, <1>2, <1>3, <1>4, <1>7 DEF Kept, Taken, Row, LeftBehind
<1> QED BY <1>1, <1>5, <1>6, <1>7 DEF Kept

(* Exit status 0 stands for work that landed or that the daemon has, or for *)
(* a row that says how it ended.  A row is left unfinished only by a crash  *)
(* or by a ledger that did not take the job's claim or end, and one left    *)
(* `queued` is of a job whose work did not land.                            *)
THEOREM Success == Spec => []SuccessIsKept
  BY Delivery, KeptHolds, PTL

LEMMA NoCrashYet ==
    ASSUME TypeOK, Next, crashes' = 0
    PROVE  crashes = 0
<1>0. crashes \in Nat
  BY DEF TypeOK
<1>1. ASSUME NEW c \in Command, Dispatch(c) \/ Daemon(c)
      PROVE  crashes' = crashes
  BY <1>1 DEF Dispatch, Daemon, GateGranted, GateBusy, GateNoDaemon, Ends, Requeue, Submit, NoAnswer,
              RunInline, InlineEnds, Take, Answer, StartJob, EndJob, ClaimFails, FinalizeFails,
                daemonVars
<1> QED BY <1>0, <1>1, LockingMoves DEF Next, Crash, Restart

LEMMA ShellOrderStep ==
    ASSUME DeliveryInv, ShellOrder, Next
    PROVE  ShellOrder'
<1> USE DEF DeliveryInv
<1> SUFFICES ASSUME crashes = 0
             PROVE  \A i, j \in DOMAIN landed' :
                      Queueable(landed'[i][1]) /\ landed'[j][1] \in Before[landed'[i][1]] => j < i
  BY NoCrashYet DEF ShellOrder, Queueable
<1>1. CASE landed' = landed
  BY <1>1 DEF ShellOrder
<1>2. CASE landed' # landed
  <2>0. /\ Before \in [Command -> SUBSET Command] /\ landed \in Seq(Worker)
        /\ Len(landed) \in Nat /\ DOMAIN landed = 1 .. Len(landed)
    BY DeliveryAssumption DEF TypeOK
  <2>1. PICK w \in Worker : Locking(w)
    BY <1>2, NothingLands DEF Next, Crash, Restart, histVars, WayInv
  <2>2. landed' = Append(landed, w) /\ st[w] = "in"
    BY <1>2, <2>1, LockingMoves
  <2>3. \A k \in DOMAIN landed' : \/ k \in DOMAIN landed /\ landed'[k] = landed[k]
                                  \/ k = Len(landed) + 1 /\ landed'[k] = w
    BY <2>0, <2>2, AppendElements
  <2>4. ASSUME NEW c \in Command, Queueable(c), Started(c), w[1] \in Before[c]
        PROVE  FALSE
    <3> DEFINE b == w[1]
    <3>1. b \in Command /\ w \in {Typed(b), Job(b), Inline(b)}
      BY Names
    <3>2. Begun(c)
      <4>1. st[Typed(c)] # "none" \/ st[Job(c)] # "none" \/ st[Inline(c)] # "none"
        BY <2>4 DEF Started
      <4> QED BY <4>1 DEF WayInv, Way, Begun, Taken
    <3>3. pc[b] = "exit"
      BY <2>4, <3>2 DEF AfterInv, Order
    <3>4. w = Job(b) /\ Taken(b)
      BY <2>2, <3>1, <3>3 DEF WayInv, Way, Past
    <3>5. Settled(b)
      BY <2>4 DEF AfterInv, After
    <3> QED BY <2>2, <3>4, <3>5 DEF Settled, Dropped, Over
  <2>5. ASSUME NEW k \in DOMAIN landed'
        PROVE  landed'[k][1] \in Command /\ Started(landed'[k][1])
    <3>1. landed'[k] \in Worker /\ st[landed'[k]] # "none"
      <4>1. CASE k \in DOMAIN landed /\ landed'[k] = landed[k]
        BY <2>0, <4>1 DEF LandInv, Elements
      <4>2. CASE landed'[k] = w
        BY <2>2, <4>2
      <4> QED BY <2>3, <4>1, <4>2
    <3> QED BY <3>1, Names DEF Started
  <2> SUFFICES ASSUME NEW i \in DOMAIN landed', NEW j \in DOMAIN landed',
                      Queueable(landed'[i][1]), landed'[j][1] \in Before[landed'[i][1]]
               PROVE  j < i
    OBVIOUS
  <2>6. landed'[j] # w
    BY <2>4, <2>5
  <2>7. j \in DOMAIN landed /\ landed'[j] = landed[j]
    BY <2>3, <2>6
  <2> QED BY <2>0, <2>3, <2>7 DEF ShellOrder
<1> QED BY <1>1, <1>2

(* While the daemon lives, a command that is queued when the lane is busy   *)
(* lands after every command its shell ran before it.                       *)
THEOREM InShellOrder == Spec => []ShellOrder
<1>1. Init => ShellOrder
  BY DEF Init, ShellOrder
<1>2. DeliveryInv /\ ShellOrder /\ [Next]_vars => ShellOrder'
  <2>1. CASE Next
    BY <2>1, ShellOrderStep
  <2>2. CASE UNCHANGED vars
    BY <2>2 DEF vars, daemonVars, histVars, ShellOrder
  <2> QED BY <2>1, <2>2
<1> QED BY <1>1, <1>2, Delivery, PTL DEF Spec

=============================================================================

--------------------------- MODULE RacyIndexProofs ---------------------------
(***************************************************************************)
(* Theorems about RacyIndex, for every set of paths, contents and commands,*)
(* and any clock.                                                          *)
(***************************************************************************)
EXTENDS RacyIndex, TLAPS

(* The command in the lane is at work on its index. *)
Busy == lane # NoCommand => lane \in Command /\ pc[lane] \in {"refresh", "smudge", "write"}

(* The index in memory is as old as the one on disk, and that has an age.  *)
Aged == disk.stamp # 0 /\ disk.stamp <= now /\ mem.stamp = disk.stamp

(* An entry is as on disk, or its stat is that of an add, or it is marked.  *)
Origin(p) ==
    \/ mem.entry[p] = disk.entry[p]
    \/ look[lane].id # NoContent /\ look[lane].path = p
    \/ p \in marked

(* A mark is right, unless the user came after it or the change was hidden. *)
Marked(p) == p \in marked /\ p \notin touched => file[p].data = mem.entry[p].id \/ Hidden(p)

(* Nothing has been done to the entries a refresh has not come to. *)
Ahead == pc[lane] = "refresh" => \A p \in todo : mem.entry[p] = disk.entry[p] /\ p \notin marked

(* What may be written: an entry that misses a change has an excuse. *)
Excused(p) == Overtaken(lane, p) \/ Hidden(p)

Misses(p) == ~Differs(mem.entry[p], p) /\ file[p].data # mem.entry[p].id

AtWork ==
    lane # NoCommand =>
        /\ pc[lane] \in {"refresh", "smudge"} => Ahead /\ \A p \in Path : Origin(p) /\ Marked(p)
        /\ pc[lane] = "write" => \A p \in Path : Misses(p) => Excused(p)

(* An add that has hashed knows the content. *)
Hashed == \A c \in Command : pc[c] = "hashed" => look[c].id \in Content

(* A hidden change was overtaken. *)
HiddenIsLost == \A p \in Path : Hidden(p) => p \in lost

(* What an add has read is not of the future, and a change its entry would  *)
(* hide was overtaken.                                                      *)
HiddenFrom(c) ==
    /\ ~Differs(seen[c].entry, look[c].path)
    /\ ~IsRacy(seen[c].stamp, seen[c].entry)
    /\ file[look[c].path].data # seen[c].entry.id

SeenOK(c) ==
    pc[c] \in {"read", "aged"} =>
        /\ seen[c].stamp # 0 /\ seen[c].stamp <= now
        /\ HiddenFrom(c) => look[c].path \in lost

Inv ==
    /\ TypeOK /\ Hashed /\ Busy /\ Aged /\ AtWork
    /\ HiddenIsLost
    /\ \A c \in Command : SeenOK(c)

-----------------------------------------------------------------------------
(* The operators. *)

LEMMA EntryTyped ==
    ASSUME NEW f \in [data : Content, mtime : Nat]
    PROVE  EntryOf(f) \in Entry
BY DEF EntryOf, Entry, Size

LEMMA WithEntryTyped ==
    ASSUME NEW index \in Index, NEW p \in Path, NEW e \in Entry
    PROVE  WithEntry(index, p, e) \in Index
BY DEF WithEntry, Index

LEMMA NothingSeenTyped ==
    NothingSeen \in [path : Path, mtime : Nat, size : {0, 1}, id : Content \cup {NoContent}]
<1>1. (CHOOSE p \in Path : TRUE) \in Path
  BY RacyAssumption
<1> QED BY <1>1 DEF NothingSeen

LEMMA NothingReadTyped == NothingRead \in [entry : Entry, limit : Nat, stamp : Nat]
BY RacyAssumption DEF NothingRead, Entry

-----------------------------------------------------------------------------

(* RacyIndex is type-correct. *)
LEMMA InitTyped == Init => TypeOK
<1> SUFFICES ASSUME Init PROVE TypeOK
  OBVIOUS
<1>1. file \in [Path -> [data : Content, mtime : Nat]]
  BY RacyAssumption DEF Init
<1>2. disk \in Index
  BY <1>1, EntryTyped DEF Init, Index
<1> QED BY <1>1, <1>2, NothingSeenTyped, NothingReadTyped DEF Init, TypeOK, NoCommand

LEMMA OpenTyped ==
    ASSUME TypeOK, NEW c \in Command, NEW index \in Index, NEW todos \in SUBSET Path, Open(c, index, todos)
    PROVE  lane' \in Command /\ mem' \in Index /\ todo' \in SUBSET Path /\ dirty' \in BOOLEAN /\ touched' \in SUBSET Path
BY DEF Open

LEMMA CloseTyped ==
    ASSUME TypeOK, NEW c \in Command, disk' \in Index, Close(c)
    PROVE  /\ lane' = NoCommand /\ mem' \in Index /\ todo' \in SUBSET Path /\ dirty' \in BOOLEAN
           /\ touched' \in SUBSET Path /\ marked' \in SUBSET Path
           /\ indexLock' \in Command \cup {NoCommand}
           /\ look' \in [Command -> [path : Path, mtime : Nat, size : {0, 1}, id : Content \cup {NoContent}]]
BY NothingSeenTyped DEF Close, TypeOK

LEMMA NextTyped ==
    ASSUME TypeOK, Hashed, [Next]_vars
    PROVE  TypeOK'
<1> USE DEF TypeOK
<1>1. CASE Tick
  BY <1>1 DEF Tick, openVars, addVars
<1>2. ASSUME NEW p \in Editable, NEW d \in Content, Edit(p, d) PROVE TypeOK'
  BY <1>2, RacyAssumption DEF Edit, addVars
<1>3. ASSUME NEW c \in Command, RefreshOpen(c) PROVE TypeOK'
  BY <1>3, OpenTyped DEF RefreshOpen, Go, worldVars, addVars
<1>4. ASSUME NEW c \in Command, StatusHold(c) PROVE TypeOK'
  BY <1>4 DEF StatusHold, Go, worldVars, openVars, addVars
<1>5. ASSUME NEW c \in Command, StatusOpen(c) PROVE TypeOK'
  BY <1>5, OpenTyped DEF StatusOpen, Go, worldVars, addVars
<1>6. ASSUME NEW c \in Command, NEW p \in Path, AddRead(c, p) PROVE TypeOK'
  <2>1. disk.entry[p] \in Entry /\ disk.stamp \in Nat
    BY DEF Index
  <2>2. seen' \in [Command -> [entry : Entry, limit : Nat, stamp : Nat]]
    BY <1>6, <2>1, ZenonT(60) DEF AddRead
  <2>3. look' \in [Command -> [path : Path, mtime : Nat, size : {0, 1}, id : Content \cup {NoContent}]]
    BY <1>6, ZenonT(60) DEF AddRead
  <2> QED BY <1>6, <2>2, <2>3 DEF AddRead, Go, worldVars, openVars
<1>7. ASSUME NEW c \in Command, AddAge(c) \/ AddPass(c) \/ AddLook(c) PROVE TypeOK'
  <2>1. CASE AddAge(c)
    <3>1. disk.stamp \in Nat
      BY DEF Index
    <3>2. seen' \in [Command -> [entry : Entry, limit : Nat, stamp : Nat]]
      BY <2>1, <3>1, SMTT(40) DEF AddAge
    <3> QED BY <2>1, <3>2 DEF AddAge, Go, worldVars, openVars
  <2>2. CASE AddPass(c)
    BY <2>2, NothingSeenTyped, NothingReadTyped DEF AddPass, Go, worldVars, openVars
  <2>3. CASE AddLook(c)
    <3>1. look' \in [Command -> [path : Path, mtime : Nat, size : {0, 1}, id : Content \cup {NoContent}]]
      <4>1. file[look[c].path].mtime \in Nat /\ Size(file[look[c].path].data) \in {0, 1}
        BY DEF Size
      <4> QED BY <2>3, <4>1, ZenonT(60) DEF AddLook
    <3>2. seen' \in [Command -> [entry : Entry, limit : Nat, stamp : Nat]]
      BY <2>3, NothingReadTyped DEF AddLook
    <3> QED BY <2>3, <3>1, <3>2 DEF AddLook, Go, worldVars, openVars
  <2> QED BY <1>7, <2>1, <2>2, <2>3
<1>8. ASSUME NEW c \in Command, AddHash(c) PROVE TypeOK'
  BY <1>8 DEF AddHash, Go, worldVars, openVars
<1>9. ASSUME NEW c \in Command, AddOpen(c) PROVE TypeOK'
  <2>1. look[c].path \in Path /\ Staged(c) \in Entry
    BY <1>9 DEF AddOpen, Go, Hashed, Staged, Entry
  <2>2. WithEntry(disk, look[c].path, Staged(c)) \in Index
    BY <2>1, WithEntryTyped
  <2> QED BY <1>9, <2>2, OpenTyped DEF AddOpen, Go, worldVars, addVars
<1>10. ASSUME NEW c \in Command, NEW p \in Editable, NEW d \in Content, Checkout(c, p, d) PROVE TypeOK'
  <2>1. p \in Path
    BY RacyAssumption
  <2>2. file' \in [Path -> [data : Content, mtime : Nat]]
    BY <1>10, <2>1 DEF Checkout
  <2>3. WithEntry(disk, p, EntryOf(file'[p])) \in Index
    BY <2>1, <2>2, EntryTyped, WithEntryTyped
  <2> QED BY <1>10, <2>1, <2>2, <2>3, OpenTyped DEF Checkout, Go, addVars
<1>11. ASSUME NEW c \in Command, NEW p \in Path, Refresh(c, p) PROVE TypeOK'
  <2>1. WithEntry(mem, p, EntryOf(file[p])) \in Index
    BY EntryTyped, WithEntryTyped
  <2> QED BY <1>11, <2>1 DEF Refresh, worldVars, addVars
<1>12. ASSUME NEW c \in Command, RefreshOver(c) PROVE TypeOK'
  BY <1>12, CloseTyped DEF RefreshOver, Go, worldVars, openVars, addVars
<1>13. ASSUME NEW c \in Command, Smudge(c) PROVE TypeOK'
  <2>1. mem' \in Index
    BY <1>13 DEF Smudge, Index, Entry, Zeroed, addVars
  <2> QED BY <1>13, <2>1 DEF Smudge, Go, worldVars, addVars
<1>14. ASSUME NEW c \in Command, Write(c) PROVE TypeOK'
  <2>1. disk' \in Index
    BY <1>14 DEF Write, Index
  <2> QED BY <1>14, <2>1, CloseTyped DEF Write, Go, worldVars
<1>15. ASSUME NEW c \in Command, WriteFails(c) PROVE TypeOK'
  BY <1>15, CloseTyped DEF WriteFails, Go, worldVars
<1>16. CASE UNCHANGED vars
  BY <1>16 DEF vars, worldVars, openVars, addVars
<1> QED BY <1>1, <1>2, <1>3, <1>4, <1>5, <1>6, <1>7, <1>8, <1>9, <1>10, <1>11, <1>12, <1>13, <1>14, <1>15, <1>16,
        RacyAssumption DEF Next, Begin, GoOn

(* Only add's hashing makes a command `hashed`. *)
LEMMA HashedKept ==
    ASSUME TypeOK, Hashed, [Next]_vars
    PROVE  Hashed'
<1> USE DEF TypeOK, Hashed
<1>1. ASSUME NEW c \in Command, AddHash(c) PROVE Hashed'
  BY <1>1 DEF AddHash, Go
<1>2. ASSUME NEW c \in Command, RefreshOpen(c) \/ StatusHold(c) \/ StatusOpen(c) \/ AddOpen(c) PROVE Hashed'
  BY <1>2 DEF RefreshOpen, StatusHold, StatusOpen, AddOpen, Go, addVars
<1>3. ASSUME NEW c \in Command, NEW p \in Path,
             AddRead(c, p) \/ AddAge(c) \/ AddPass(c) \/ AddLook(c) \/ Refresh(c, p)
      PROVE  Hashed'
  BY <1>3 DEF AddRead, AddAge, AddPass, AddLook, Refresh, Go, addVars
<1>4. ASSUME NEW c \in Command, NEW p \in Editable, NEW d \in Content, Checkout(c, p, d) PROVE Hashed'
  BY <1>4 DEF Checkout, Go, addVars
<1>5. ASSUME NEW c \in Command, RefreshOver(c) \/ Smudge(c) \/ Write(c) \/ WriteFails(c) PROVE Hashed'
  BY <1>5 DEF RefreshOver, Smudge, Write, WriteFails, Close, Go, addVars
<1>6. CASE Tick \/ (\E p \in Editable, d \in Content : Edit(p, d)) \/ UNCHANGED vars
  BY <1>6 DEF Tick, Edit, vars, addVars
<1> QED BY <1>1, <1>2, <1>3, <1>4, <1>5, <1>6, RacyAssumption DEF Next, Begin, GoOn

THEOREM TypeCorrect == Spec => []TypeOK
<1>1. Init => TypeOK /\ Hashed
  BY InitTyped DEF Init, Hashed
<1>2. TypeOK /\ Hashed /\ [Next]_vars => (TypeOK /\ Hashed)'
  BY NextTyped, HashedKept
<1> QED BY <1>1, <1>2, PTL DEF Spec

-----------------------------------------------------------------------------
(* The lane and the age of the index. *)

LEMMA BusyKept ==
    ASSUME TypeOK, Busy, [Next]_vars
    PROVE  Busy'
<1> USE DEF TypeOK, Busy, NoCommand
<1>1. ASSUME NEW c \in Command, RefreshOpen(c) \/ StatusOpen(c) \/ AddOpen(c) PROVE Busy'
  BY <1>1 DEF RefreshOpen, StatusOpen, AddOpen, Open, Go
<1>2. ASSUME NEW c \in Command, NEW p \in Editable, NEW d \in Content, Checkout(c, p, d) PROVE Busy'
  BY <1>2 DEF Checkout, Open, Go
<1>3. ASSUME NEW c \in Command, StatusHold(c) \/ AddHash(c) PROVE Busy'
  BY <1>3 DEF StatusHold, AddHash, Go
<1>4. ASSUME NEW c \in Command, NEW p \in Path,
             AddRead(c, p) \/ AddAge(c) \/ AddPass(c) \/ AddLook(c) \/ Refresh(c, p)
      PROVE  Busy'
  BY <1>4 DEF AddRead, AddAge, AddPass, AddLook, Refresh, Go
<1>5. ASSUME NEW c \in Command, RefreshOver(c) \/ Smudge(c) PROVE Busy'
  BY <1>5 DEF RefreshOver, Smudge, Close, Go
<1>6. ASSUME NEW c \in Command, Write(c) \/ WriteFails(c) PROVE Busy'
  BY <1>6 DEF Write, WriteFails, Close
<1>7. CASE Tick \/ (\E p \in Editable, d \in Content : Edit(p, d)) \/ UNCHANGED vars
  BY <1>7 DEF Tick, Edit, vars
<1> QED BY <1>1, <1>2, <1>3, <1>4, <1>5, <1>6, <1>7, RacyAssumption DEF Next, Begin, GoOn

LEMMA AgedKept ==
    ASSUME TypeOK, Aged, now # 0, [Next]_vars
    PROVE  Aged' /\ (now # 0)'
<1> DEFINE Held == Aged' /\ now' # 0
<1> SUFFICES Held
  OBVIOUS
<1> USE DEF TypeOK, Aged, Index, WithEntry
<1>1. CASE Tick
  BY <1>1 DEF Tick, openVars
<1>2. ASSUME NEW c \in Command, RefreshOpen(c) \/ StatusOpen(c) \/ AddOpen(c) PROVE Held
  BY <1>2 DEF RefreshOpen, StatusOpen, AddOpen, Open, worldVars
<1>3. ASSUME NEW c \in Command, NEW p \in Editable, NEW d \in Content, Checkout(c, p, d) PROVE Held
  BY <1>3 DEF Checkout, Open
<1>4. ASSUME NEW c \in Command, StatusHold(c) \/ AddHash(c) PROVE Held
  BY <1>4 DEF StatusHold, AddHash, worldVars, openVars
<1>5. ASSUME NEW c \in Command, NEW p \in Path,
             AddRead(c, p) \/ AddAge(c) \/ AddPass(c) \/ AddLook(c) \/ Refresh(c, p)
      PROVE  Held
  BY <1>5 DEF AddRead, AddAge, AddPass, AddLook, Refresh, worldVars, openVars
<1>6. ASSUME NEW c \in Command, RefreshOver(c) PROVE Held
  BY <1>6 DEF RefreshOver, Close, worldVars, openVars
<1>7. ASSUME NEW c \in Command, Smudge(c) PROVE Held
  BY <1>7 DEF Smudge, worldVars
<1>8. ASSUME NEW c \in Command, Write(c) PROVE Held
  BY <1>8 DEF Write, Close, worldVars
<1>9. ASSUME NEW c \in Command, WriteFails(c) PROVE Held
  BY <1>9 DEF WriteFails, Close, worldVars
<1>10. CASE (\E p \in Editable, d \in Content : Edit(p, d)) \/ UNCHANGED vars
  BY <1>10 DEF Edit, vars, worldVars, openVars
<1> QED BY <1>1, <1>2, <1>3, <1>4, <1>5, <1>6, <1>7, <1>8, <1>9, <1>10, RacyAssumption DEF Next, Begin, GoOn

-----------------------------------------------------------------------------
(* The work on the index in memory. *)

(* A step that leaves the files, both indexes and the lane alone, and is    *)
(* not a step of the lane's holder, keeps what the holder relies on.        *)
LEMMA Aside ==
    ASSUME TypeOK, Busy, AtWork, UNCHANGED <<file, disk, lane, mem, marked, todo, touched>>,
           lane # NoCommand => pc'[lane] = pc[lane] /\ look'[lane] = look[lane]
    PROVE  AtWork'
BY DEF AtWork, Ahead, Origin, Marked, Misses, Excused, Hidden, Overtaken, LookedTooEarly, Unchanged, Differs, StatMatches

(* An edit is seen by whoever is in the lane. *)
LEMMA EditAtWork ==
    ASSUME TypeOK, Busy, AtWork, NEW p \in Path, NEW d \in Content, Edit(p, d)
    PROVE  AtWork'
<1>1. UNCHANGED <<disk, pc, look, lane, mem, marked, todo>>
  BY DEF Edit, addVars
<1> SUFFICES ASSUME lane # NoCommand
             PROVE  AtWork'
  BY <1>1 DEF AtWork
<1>2. touched' = touched \cup {p} /\ file' = [file EXCEPT ![p] = [data |-> d, mtime |-> now]]
  BY DEF Edit, addVars
<1>3. ASSUME NEW q \in Path, q # p
      PROVE  /\ file'[q] = file[q]
             /\ Hidden(q)' <=> Hidden(q)
             /\ Misses(q)' <=> Misses(q)
  BY <1>1, <1>2, <1>3 DEF TypeOK, Hidden, Misses, Unchanged, Differs, StatMatches
<1>4. Ahead => Ahead'
  BY <1>1 DEF Ahead
<1>5. ASSUME NEW q \in Path PROVE (Origin(q) => Origin(q)') /\ (Marked(q) => Marked(q)')
  BY <1>1, <1>2, <1>3 DEF Origin, Marked
<1>6. ASSUME NEW q \in Path, Misses(q) => Excused(q) PROVE Misses(q)' => Excused(q)'
  BY <1>1, <1>2, <1>3, <1>6 DEF Excused, Overtaken, LookedTooEarly
<1> QED BY <1>1, <1>4, <1>5, <1>6 DEF AtWork

(* An index just opened is the one on disk, with at most the entry the     *)
(* command brings.                                                         *)
LEMMA OpenAtWork ==
    ASSUME TypeOK, Hashed, NEW c \in Command,
           RefreshOpen(c) \/ StatusOpen(c) \/ AddOpen(c)
    PROVE  AtWork'
<1>1. lane' = c /\ marked' = {} /\ UNCHANGED <<disk, look>>
  BY DEF RefreshOpen, StatusOpen, AddOpen, Open, addVars
<1>2. pc'[c] \in {"refresh", "smudge"}
  BY DEF RefreshOpen, StatusOpen, AddOpen, Go, TypeOK
<1>3. CASE mem' = disk
  BY <1>1, <1>2, <1>3 DEF AtWork, Ahead, Origin, Marked, RefreshOpen, StatusOpen, AddOpen, Open
<1>4. CASE AddOpen(c)
  <2>1. pc'[c] = "smudge"
    BY <1>4 DEF AddOpen, Go, TypeOK
  <2>2. look[c].id # NoContent
    BY <1>4, RacyAssumption DEF Hashed, AddOpen, Go
  <2>3. mem'.entry = [disk.entry EXCEPT ![look[c].path] = Staged(c)]
    BY <1>4 DEF AddOpen, Open, WithEntry
  <2>4. ASSUME NEW q \in Path, q # look[c].path PROVE mem'.entry[q] = disk.entry[q]
    BY <2>3, <2>4 DEF TypeOK, Index
  <2> QED BY <1>1, <2>1, <2>2, <2>4 DEF AtWork, Ahead, Origin, Marked
<1> QED BY <1>3, <1>4 DEF RefreshOpen, StatusOpen, Open

LEMMA CheckoutAtWork ==
    ASSUME TypeOK, NEW c \in Command, NEW p \in Path, NEW d \in Content, Checkout(c, p, d)
    PROVE  AtWork'
<1>1. lane' = c /\ marked' = {p} /\ pc'[c] = "smudge" /\ disk' = disk
  BY DEF Checkout, Open, Go, TypeOK, addVars
<1>2. file'[p] = [data |-> d, mtime |-> now]
  BY DEF Checkout, TypeOK
<1>3. mem'.entry = [disk.entry EXCEPT ![p] = EntryOf(file'[p])]
  BY DEF Checkout, Open, WithEntry
<1>4. mem'.entry[p].id = file'[p].data
  BY <1>3 DEF TypeOK, Index, EntryOf
<1>5. ASSUME NEW q \in Path, q # p PROVE mem'.entry[q] = disk.entry[q]
  BY <1>3, <1>5 DEF TypeOK, Index
<1> QED BY <1>1, <1>4, <1>5 DEF AtWork, Ahead, Origin, Marked

(* A refresh marks an entry whose content it has seen, or one whose stat   *)
(* hides the change from every reader.                                     *)
LEMMA RefreshAtWork ==
    ASSUME TypeOK, Aged, AtWork, NEW c \in Command, NEW p \in Path, Refresh(c, p)
    PROVE  AtWork'
<1>1. /\ lane = c /\ lane # NoCommand /\ pc[c] = "refresh" /\ p \in todo
      /\ UNCHANGED <<file, disk, pc, look, lane>>
      /\ todo' = todo \ {p} /\ touched' = touched \ {p}
  BY RacyAssumption DEF Refresh, worldVars, addVars, NoCommand
<1>2. Ahead /\ \A q \in Path : Origin(q) /\ Marked(q)
  BY <1>1 DEF AtWork
<1>3. mem.entry[p] = disk.entry[p] /\ p \notin marked
  BY <1>1, <1>2 DEF Ahead
<1>4. marked' = IF Verified(p) \/ Restats(p) THEN marked \cup {p} ELSE marked
  BY DEF Refresh
<1>5. mem' = IF Restats(p) THEN WithEntry(mem, p, EntryOf(file[p])) ELSE mem
  BY DEF Refresh
<1>6. ASSUME NEW q \in Path, q # p PROVE mem'.entry[q] = mem.entry[q]
  BY <1>5, <1>6 DEF TypeOK, Index, WithEntry
<1>7. ASSUME NEW q \in Path PROVE Hidden(q)' <=> Hidden(q)
  BY <1>1 DEF Hidden, Unchanged, Differs, StatMatches
<1>8. Ahead'
  BY <1>1, <1>2, <1>4, <1>6 DEF Ahead, TypeOK
<1>9. ASSUME NEW q \in Path, q # p PROVE Origin(q)' /\ Marked(q)'
  BY <1>1, <1>2, <1>4, <1>6, <1>7, <1>9 DEF Origin, Marked
<1>10. CASE Restats(p)
  <2>1. mem'.entry[p].id = file[p].data
    BY <1>5, <1>10 DEF TypeOK, Index, WithEntry, EntryOf
  <2>2. Origin(p)' /\ Marked(p)'
    BY <1>1, <1>4, <1>10, <2>1 DEF Origin, Marked
  <2> QED BY <1>1, <1>8, <1>9, <2>2 DEF AtWork
<1>11. CASE ~Restats(p)
  <2>1. mem' = mem
    BY <1>5, <1>11
  <2>2. Origin(p)'
    BY <1>1, <1>3, <2>1 DEF Origin
  <2>3. Verified(p) => file[p].data = mem.entry[p].id \/ Hidden(p)
    BY <1>3 DEF Verified, Unchanged, Hidden, Aged
  <2>4. Marked(p)'
    BY <1>1, <1>3, <1>4, <1>7, <1>11, <2>1, <2>3 DEF Marked
  <2> QED BY <1>1, <1>8, <1>9, <2>2, <2>4 DEF AtWork
<1> QED BY <1>10, <1>11

(* After the comparisons an entry that misses a change has its excuse. *)
LEMMA SmudgeAtWork ==
    ASSUME TypeOK, Aged, AtWork, NEW c \in Command, Smudge(c)
    PROVE  AtWork'
<1>1. /\ lane = c /\ lane # NoCommand /\ pc[c] = "smudge" /\ pc'[c] = "write"
      /\ UNCHANGED <<file, disk, look, lane, marked>>
      /\ touched' = touched \cap marked
  BY RacyAssumption DEF Smudge, worldVars, addVars, NoCommand, Go, TypeOK
<1>2. \A p \in Path : Origin(p) /\ Marked(p)
  BY <1>1 DEF AtWork
<1> SUFFICES ASSUME NEW p \in Path, Misses(p)'
             PROVE  Excused(p)'
  BY <1>1 DEF AtWork
<1>3. mem'.entry[p] = IF Moved(p) THEN Zeroed(mem.entry[p]) ELSE mem.entry[p]
  BY DEF Smudge
<1>4. mem'.stamp = mem.stamp
  BY DEF Smudge
<1>5. Hidden(p)' <=> Hidden(p)
  BY <1>1 DEF Hidden, Unchanged, Differs, StatMatches
<1>6. ~Differs(mem'.entry[p], p) /\ file[p].data # mem'.entry[p].id
  BY <1>1 DEF Misses, Differs, StatMatches
<1>7. ~Moved(p)
  BY <1>3, <1>6 DEF Zeroed, Differs, StatMatches, Smudged, Size
<1>8. mem'.entry[p] = mem.entry[p]
  BY <1>3, <1>7
<1>9. CASE p \in marked
  BY <1>1, <1>2, <1>5, <1>6, <1>8, <1>9 DEF Marked, Excused, Overtaken
<1>10. CASE p \notin marked
  <2>1. ~IsRacy(mem.stamp, mem.entry[p])
    BY <1>6, <1>7, <1>8, <1>10 DEF Moved
  <2>2. mem.entry[p].mtime < mem.stamp
    BY <2>1 DEF IsRacy, Aged, TypeOK, Index, Entry
  <2>3. CASE mem.entry[p] = disk.entry[p]
    <3>1. Hidden(p)
      BY <1>6, <1>8, <2>1, <2>3 DEF Hidden, Unchanged, Aged
    <3> QED BY <1>5, <3>1 DEF Excused
  <2>4. CASE look[lane].id # NoContent /\ look[lane].path = p
    BY <1>1, <1>4, <1>8, <2>2, <2>4 DEF Excused, Overtaken, LookedTooEarly
  <2> QED BY <1>2, <1>10, <2>3, <2>4 DEF Origin
<1> QED BY <1>9, <1>10

LEMMA AtWorkKept ==
    ASSUME Inv, [Next]_vars
    PROVE  AtWork'
<1> USE DEF Inv
<1>0. Editable \subseteq Path
  BY RacyAssumption
<1>1. CASE Tick \/ UNCHANGED vars
  BY <1>1, Aside DEF Tick, vars, worldVars, addVars, openVars
<1>2. ASSUME NEW p \in Editable, NEW d \in Content, Edit(p, d) PROVE AtWork'
  BY <1>0, <1>2, EditAtWork
<1>3. ASSUME NEW c \in Command, RefreshOpen(c) \/ StatusOpen(c) \/ AddOpen(c) PROVE AtWork'
  BY <1>3, OpenAtWork
<1>4. ASSUME NEW c \in Command, StatusHold(c) \/ AddHash(c) PROVE AtWork'
  <2>1. UNCHANGED <<file, disk, lane, mem, marked, todo, touched>>
    BY <1>4 DEF StatusHold, AddHash, worldVars, addVars, openVars
  <2>2. lane # NoCommand => pc'[lane] = pc[lane] /\ look'[lane] = look[lane]
    BY <1>4 DEF StatusHold, AddHash, Go, Busy, TypeOK, addVars
  <2> QED BY <2>1, <2>2, Aside
<1>5. ASSUME NEW c \in Command, NEW p \in Path,
             AddRead(c, p) \/ AddAge(c) \/ AddPass(c) \/ AddLook(c)
      PROVE  AtWork'
  <2>1. UNCHANGED <<file, disk, lane, mem, marked, todo, touched>>
    BY <1>5 DEF AddRead, AddAge, AddPass, AddLook, worldVars, openVars
  <2>2. lane # NoCommand => pc'[lane] = pc[lane] /\ look'[lane] = look[lane]
    BY <1>5 DEF AddRead, AddAge, AddPass, AddLook, Go, Busy, TypeOK
  <2> QED BY <2>1, <2>2, Aside
<1>6. ASSUME NEW c \in Command, NEW p \in Editable, NEW d \in Content, Checkout(c, p, d) PROVE AtWork'
  BY <1>0, <1>6, CheckoutAtWork
<1>7. ASSUME NEW c \in Command, NEW p \in Path, Refresh(c, p) PROVE AtWork'
  BY <1>7, RefreshAtWork
<1>8. ASSUME NEW c \in Command, RefreshOver(c) PROVE AtWork'
  <2>1. CASE lane' = NoCommand
    BY <2>1 DEF AtWork
  <2>2. CASE Go(c, "refresh", "smudge") /\ UNCHANGED <<worldVars, disk, look, indexLock, lane, openVars>>
    <3>1. lane = c /\ pc[c] = "refresh" /\ pc'[c] = "smudge"
      BY <1>8, <2>2 DEF RefreshOver, Go, TypeOK
    <3>2. lane # NoCommand
      BY <3>1, RacyAssumption DEF NoCommand
    <3>3. \A p \in Path : Origin(p) /\ Marked(p)
      BY <3>1, <3>2 DEF AtWork
    <3>4. UNCHANGED <<file, disk, look, lane, mem, marked, touched>>
      BY <2>2 DEF worldVars, openVars
    <3>5. ASSUME NEW p \in Path PROVE Origin(p)' /\ Marked(p)'
      BY <3>3, <3>4 DEF Origin, Marked, Hidden, Unchanged, Differs, StatMatches
    <3>6. Ahead'
      BY <3>1, <3>4 DEF Ahead
    <3> QED BY <3>1, <3>4, <3>5, <3>6 DEF AtWork
  <2> QED BY <1>8, <2>1, <2>2 DEF RefreshOver, Close
<1>9. ASSUME NEW c \in Command, Smudge(c) PROVE AtWork'
  BY <1>9, SmudgeAtWork
<1>10. ASSUME NEW c \in Command, Write(c) \/ WriteFails(c) PROVE AtWork'
  BY <1>10 DEF Write, WriteFails, Close, AtWork
<1> QED BY <1>1, <1>2, <1>3, <1>4, <1>5, <1>6, <1>7, <1>8, <1>9, <1>10, RacyAssumption DEF Next, Begin, GoOn

-----------------------------------------------------------------------------
(* What a step may hide. *)

(* A file just written is in the second of the index or later, so a reader *)
(* compares its content.                                                   *)
LEMMA WrittenSeen ==
    ASSUME TypeOK, Aged, NEW p \in Path, file'[p].mtime = now, disk' = disk
    PROVE  ~Hidden(p)'
<1>1. disk.stamp \in Nat /\ now \in Nat /\ disk.stamp # 0 /\ disk.stamp <= now
  BY DEF TypeOK, Index, Aged
<1> QED BY <1>1 DEF Hidden, Unchanged, Differs, StatMatches, IsRacy

(* What a step hides, it hides by an overtaken write. *)
LEMMA StepHides ==
    ASSUME TypeOK, Aged, AtWork, [Next]_vars, NEW p \in Path, Hidden(p)', ~Hidden(p)
    PROVE  \E c \in Command : Write(c) /\ lane = c /\ lane # NoCommand /\ Overtaken(c, p)
<1>0. Editable \subseteq Path
  BY RacyAssumption
<1>1. ~(UNCHANGED <<file, disk>>)
  BY DEF Hidden, Unchanged, Differs, StatMatches
<1>2. ASSUME NEW q \in Path, NEW d \in Content,
             file' = [file EXCEPT ![q] = [data |-> d, mtime |-> now]], disk' = disk
      PROVE  FALSE
  <2>1. CASE p = q
    BY <1>2, <2>1, WrittenSeen DEF TypeOK
  <2>2. CASE p # q
    BY <1>2, <2>2 DEF TypeOK, Hidden, Unchanged, Differs, StatMatches
  <2> QED BY <2>1, <2>2
<1>3. ASSUME NEW q \in Editable, NEW d \in Content, Edit(q, d) PROVE FALSE
  BY <1>0, <1>2, <1>3 DEF Edit
<1>4. ASSUME NEW c \in Command, NEW q \in Editable, NEW d \in Content, Checkout(c, q, d) PROVE FALSE
  BY <1>0, <1>2, <1>4 DEF Checkout
<1>5. \E c \in Command : Write(c)
  BY <1>1, <1>3, <1>4 DEF Next, Begin, GoOn, Tick, RefreshOpen, StatusHold, AddRead, AddAge, AddPass, AddLook,
     StatusOpen, Refresh, RefreshOver, AddHash, AddOpen, Smudge, WriteFails, worldVars, openVars, vars
<1>6. PICK c \in Command : Write(c)
  BY <1>5
<1>7. lane = c /\ lane # NoCommand /\ pc[lane] = "write" /\ disk'.entry = mem.entry /\ file' = file
  BY <1>6, RacyAssumption DEF Write, Go, worldVars, NoCommand
<1>8. Misses(p)
  BY <1>7 DEF Misses, Hidden, Unchanged, Differs, StatMatches
<1>9. Excused(p)
  BY <1>7, <1>8 DEF AtWork
<1> QED BY <1>6, <1>7, <1>9 DEF Excused

(* A change counts as overtaken until the file is written again. *)
LEMMA LostStays ==
    ASSUME TypeOK, [Next]_vars
    PROVE  \/ file' = file /\ lost \subseteq lost'
           \/ \E q \in Path, d \in Content :
                 /\ file' = [file EXCEPT ![q] = [data |-> d, mtime |-> now]]
                 /\ lost' = lost \ {q}
                 /\ disk' = disk
<1> DEFINE Stays == file' = file /\ lost \subseteq lost'
<1>0. Editable \subseteq Path
  BY RacyAssumption
<1>1. CASE Tick \/ UNCHANGED vars
  BY <1>1 DEF Tick, vars, worldVars
<1>2. ASSUME NEW p \in Editable, NEW d \in Content, Edit(p, d) PROVE ~Stays => \E q \in Path, x \in Content :
                 /\ file' = [file EXCEPT ![q] = [data |-> x, mtime |-> now]]
                 /\ lost' = lost \ {q}
                 /\ disk' = disk
  BY <1>0, <1>2 DEF Edit
<1>3. ASSUME NEW c \in Command, NEW p \in Editable, NEW d \in Content, Checkout(c, p, d)
      PROVE ~Stays => \E q \in Path, x \in Content :
                 /\ file' = [file EXCEPT ![q] = [data |-> x, mtime |-> now]]
                 /\ lost' = lost \ {q}
                 /\ disk' = disk
  BY <1>0, <1>3 DEF Checkout
<1>4. ASSUME NEW c \in Command, RefreshOpen(c) \/ StatusHold(c) \/ StatusOpen(c) \/ AddAge(c) \/ AddPass(c) \/ AddLook(c)
      PROVE  Stays
  BY <1>4 DEF RefreshOpen, StatusHold, StatusOpen, AddAge, AddPass, AddLook, worldVars
<1>5. ASSUME NEW c \in Command, AddHash(c) \/ AddOpen(c) \/ RefreshOver(c) \/ Smudge(c) \/ Write(c) \/ WriteFails(c)
      PROVE  Stays
  BY <1>5 DEF AddHash, AddOpen, RefreshOver, Smudge, Write, WriteFails, worldVars
<1>6. ASSUME NEW c \in Command, NEW p \in Path, AddRead(c, p) \/ Refresh(c, p) PROVE Stays
  BY <1>6 DEF AddRead, Refresh, worldVars
<1> QED BY <1>0, <1>1, <1>2, <1>3, <1>4, <1>5, <1>6 DEF Next, Begin, GoOn

LEMMA HiddenKept ==
    ASSUME TypeOK, Aged, AtWork, HiddenIsLost, [Next]_vars
    PROVE  HiddenIsLost'
<1> SUFFICES ASSUME NEW p \in Path, Hidden(p)'
             PROVE  p \in lost'
  BY DEF HiddenIsLost
<1>1. CASE ~Hidden(p)
  BY <1>1, StepHides DEF Write
<1>2. CASE Hidden(p)
  <2>1. p \in lost
    BY <1>2 DEF HiddenIsLost
  <2>2. ASSUME NEW q \in Path, NEW d \in Content,
               file' = [file EXCEPT ![q] = [data |-> d, mtime |-> now]], lost' = lost \ {q}, disk' = disk
        PROVE  p \in lost'
    <3>1. p # q
      BY <2>2, WrittenSeen DEF TypeOK
    <3> QED BY <2>1, <2>2, <3>1
  <2> QED BY <2>1, <2>2, LostStays
<1> QED BY <1>1, <1>2

(* An add that has read the index keeps what it knows until it looks: a    *)
(* file written since has a second that its entry cannot have.             *)
LEMMA SeenAside ==
    ASSUME TypeOK, [Next]_vars, NEW c \in Command, SeenOK(c), pc[c] \in {"read", "aged"},
           look'[c].path = look[c].path,
           seen'[c].entry = seen[c].entry, seen'[c].stamp = seen[c].stamp,
           now' \in Nat, now' >= now
    PROVE  SeenOK(c)'
<1> DEFINE p == look[c].path
           e == seen[c].entry
           t == seen[c].stamp
<1>1. /\ t # 0 /\ t <= now /\ t \in Nat /\ now \in Nat
      /\ HiddenFrom(c) => p \in lost
      /\ p \in Path /\ e.mtime \in Nat
  BY DEF SeenOK, TypeOK, Entry
<1>2. t <= now'
  BY <1>1
<1>3. CASE file' = file /\ lost \subseteq lost'
  BY <1>1, <1>2, <1>3 DEF SeenOK, HiddenFrom, Differs, StatMatches
<1>4. ASSUME NEW q \in Path, NEW d \in Content,
             file' = [file EXCEPT ![q] = [data |-> d, mtime |-> now]], lost' = lost \ {q}
      PROVE  SeenOK(c)'
  <2>1. CASE q = p
    <3>1. file'[p].mtime = now
      BY <1>1, <1>4, <2>1 DEF TypeOK
    <3>2. ~HiddenFrom(c)'
      BY <1>1, <3>1 DEF HiddenFrom, Differs, StatMatches, IsRacy
    <3> QED BY <1>1, <1>2, <3>2 DEF SeenOK
  <2>2. CASE q # p
    <3>1. file'[p] = file[p]
      BY <1>1, <1>4, <2>2 DEF TypeOK
    <3>2. HiddenFrom(c)' <=> HiddenFrom(c)
      BY <3>1 DEF HiddenFrom, Differs, StatMatches
    <3> QED BY <1>1, <1>2, <1>4, <2>2, <3>2 DEF SeenOK
  <2> QED BY <2>1, <2>2
<1> QED BY <1>3, <1>4, LostStays

LEMMA SeenKept ==
    ASSUME TypeOK, Hashed, Aged, HiddenIsLost, [Next]_vars, NEW c \in Command, SeenOK(c)
    PROVE  SeenOK(c)'
<1>0. now \in Nat /\ now' \in Nat /\ now' >= now
  <2>1. now \in Nat /\ now' \in Nat
    BY NextTyped DEF TypeOK
  <2>2. now' = now \/ now' = now + 1
    BY DEF Next, Begin, GoOn, Tick, Edit, RefreshOpen, StatusHold, AddRead, AddAge, AddPass, AddLook, Checkout,
       StatusOpen, Refresh, RefreshOver, AddHash, AddOpen, Smudge, Write, WriteFails, worldVars, vars
  <2> QED BY <2>1, <2>2
<1> DEFINE Same == UNCHANGED <<pc[c], look[c], seen[c]>>
<1>1. ASSUME Same PROVE SeenOK(c)'
  <2>1. CASE pc[c] \in {"read", "aged"}
    BY <1>0, <1>1, <2>1, SeenAside
  <2>2. CASE pc[c] \notin {"read", "aged"}
    BY <1>1, <2>2 DEF SeenOK
  <2> QED BY <2>1, <2>2
<1>2. ASSUME pc'[c] \notin {"read", "aged"} PROVE SeenOK(c)'
  BY <1>2 DEF SeenOK
<1>3. CASE Tick \/ (\E p \in Editable, d \in Content : Edit(p, d)) \/ UNCHANGED vars
  BY <1>1, <1>3 DEF Tick, Edit, vars, addVars
<1>4. ASSUME NEW b \in Command, NEW p \in Path, AddRead(b, p) PROVE SeenOK(c)'
  <2>1. CASE b = c
    <3>1. /\ look'[c].path = p
          /\ seen'[c].entry = disk.entry[p] /\ seen'[c].stamp = disk.stamp
          /\ UNCHANGED <<file, disk, lost, now>>
      BY <1>4, <2>1 DEF AddRead, TypeOK, worldVars
    <3>2. HiddenFrom(c)' => Hidden(p)
      BY <3>1 DEF HiddenFrom, Hidden, Unchanged, Differs, StatMatches
    <3> QED BY <3>1, <3>2 DEF SeenOK, HiddenIsLost, Aged
  <2>2. CASE b # c
    BY <1>1, <1>4, <2>2 DEF AddRead, Go, TypeOK
  <2> QED BY <2>1, <2>2
<1>5. ASSUME NEW b \in Command, AddAge(b) PROVE SeenOK(c)'
  <2>1. CASE b = c
    <3>1. /\ pc[c] = "read" /\ look' = look
          /\ seen'[c].entry = seen[c].entry /\ seen'[c].stamp = seen[c].stamp
      BY <1>5, <2>1 DEF AddAge, Go, TypeOK
    <3> QED BY <1>0, <3>1, SeenAside
  <2>2. CASE b # c
    BY <1>1, <1>5, <2>2 DEF AddAge, Go, TypeOK
  <2> QED BY <2>1, <2>2
<1>6. ASSUME NEW b \in Command,
             RefreshOpen(b) \/ StatusHold(b) \/ StatusOpen(b) \/ AddOpen(b) \/ Smudge(b)
      PROVE  SeenOK(c)'
  <2>1. /\ UNCHANGED <<look, seen>>
        /\ \E from, to : Go(b, from, to) /\ to \notin {"read", "aged"}
    BY <1>6 DEF RefreshOpen, StatusHold, StatusOpen, AddOpen, Smudge, addVars
  <2>2. pc'[c] = pc[c] \/ pc'[c] \notin {"read", "aged"}
    BY <2>1 DEF Go, TypeOK
  <2> QED BY <1>1, <1>2, <2>1, <2>2
<1>7. ASSUME NEW b \in Command, AddPass(b) \/ AddLook(b) \/ AddHash(b) PROVE SeenOK(c)'
  <2>1. CASE b = c
    BY <1>2, <1>7, <2>1 DEF AddPass, AddLook, AddHash, Go, TypeOK
  <2>2. CASE b # c
    BY <1>1, <1>7, <2>2 DEF AddPass, AddLook, AddHash, Go, TypeOK
  <2> QED BY <2>1, <2>2
<1>8. ASSUME NEW b \in Command, NEW p \in Path, Refresh(b, p) PROVE SeenOK(c)'
  BY <1>1, <1>8 DEF Refresh, addVars
<1>9. ASSUME NEW b \in Command, NEW p \in Editable, NEW d \in Content, Checkout(b, p, d) PROVE SeenOK(c)'
  <2>1. UNCHANGED <<look, seen>> /\ Go(b, "idle", "smudge")
    BY <1>9 DEF Checkout, addVars
  <2>2. pc'[c] = pc[c] \/ pc'[c] = "smudge"
    BY <2>1 DEF Go, TypeOK
  <2> QED BY <1>1, <1>2, <2>1, <2>2
<1>10. ASSUME NEW b \in Command, RefreshOver(b) \/ Write(b) \/ WriteFails(b) PROVE SeenOK(c)'
  <2>1. CASE b = c
    BY <1>2, <1>10, <2>1 DEF RefreshOver, Write, WriteFails, Go, TypeOK
  <2>2. CASE b # c
    BY <1>1, <1>10, <2>2 DEF RefreshOver, Write, WriteFails, Close, Go, TypeOK
  <2> QED BY <2>1, <2>2
<1>11. Editable \subseteq Path
  BY RacyAssumption
<1> QED BY <1>3, <1>4, <1>5, <1>6, <1>7, <1>8, <1>9, <1>10, <1>11 DEF Next, Begin, GoOn

-----------------------------------------------------------------------------

LEMMA Inductive ==
    /\ Init => Inv /\ now # 0
    /\ Inv /\ now # 0 /\ [Next]_vars => (Inv /\ now # 0)'
<1>1. Init => Inv /\ now # 0
  <2>1. ASSUME Init PROVE HiddenIsLost /\ \A c \in Command : SeenOK(c)
    <3>1. \A p \in Path : disk.entry[p].id = file[p].data
      BY <2>1 DEF Init, EntryOf
    <3>2. \A c \in Command : pc[c] = "idle"
      BY <2>1 DEF Init
    <3> QED BY <3>1, <3>2 DEF HiddenIsLost, Hidden, SeenOK
  <2>2. Init => Hashed /\ Busy /\ Aged /\ AtWork /\ now # 0
    BY DEF Init, Hashed, Busy, Aged, AtWork
  <2> QED BY <2>1, <2>2, InitTyped DEF Inv
<1>2. ASSUME Inv, [Next]_vars PROVE HiddenIsLost' /\ \A c \in Command : SeenOK(c)'
  BY <1>2, HiddenKept, SeenKept DEF Inv
<1> QED BY <1>1, <1>2, NextTyped, HashedKept, BusyKept, AgedKept, AtWorkKept DEF Inv

-----------------------------------------------------------------------------

(* No step hides a change of a file from every later reader, but for the   *)
(* write of a command whose look at that file was overtaken: for every     *)
(* set of files and commands, and however long the clock and the user go on.*)
THEOREM NothingHidden == Spec => NeverHidden
<1>1. Inv /\ [Next]_vars =>
        [\A p \in Path : Hidden(p)' /\ ~Hidden(p) => lane # NoCommand /\ Overtaken(lane, p)]_vars
  BY StepHides DEF Inv
<1> QED BY <1>1, Inductive, PTL DEF Spec, NeverHidden

(* However the index and the file move between the steps of an add, it      *)
(* passes over a file that differs from what it read only when an overtaken *)
(* write has hidden the change, when the index was written in between in a  *)
(* later second, or when the file of a smudged entry was emptied.           *)
THEOREM AddSeesChanges == Spec => AddSees
<1>1. Inv /\ [Next]_vars =>
        [\A c \in Command : AddPass(c) =>
            LET p == look[c].path  e == seen[c].entry IN
            \/ file[p].data = e.id
            \/ p \in lost
            \/ seen[c].limit # seen[c].stamp
            \/ Smudged(e) /\ file[p].data = Empty]_vars
  <2> SUFFICES ASSUME Inv, NEW c \in Command, AddPass(c), seen[c].limit = seen[c].stamp,
                      file[look[c].path].data # seen[c].entry.id,
                      ~(Smudged(seen[c].entry) /\ file[look[c].path].data = Empty)
               PROVE  look[c].path \in lost
    OBVIOUS
  <2>1. /\ StatMatches(seen[c].entry, look[c].path) /\ ~IsRacy(seen[c].stamp, seen[c].entry)
        /\ pc[c] = "aged"
    BY DEF AddPass, AddPasses, Go
  <2>2. ~Smudged(seen[c].entry)
    BY <2>1 DEF Smudged, StatMatches, Size
  <2> QED BY <2>1, <2>2 DEF Inv, SeenOK, HiddenFrom, Differs
<1> QED BY <1>1, Inductive, PTL DEF Spec, AddSees

==============================================================================

------------------------------ MODULE RacyIndex ------------------------------
(***************************************************************************)
(* The index against the work tree, with a clock of whole seconds.  An     *)
(* entry records a file's content (its id), modification second and size,  *)
(* and a reader believes a file unchanged when second and size agree.      *)
(* That is unsound for a file written again in the second of its index:    *)
(* index_racy.rs closes the hole when the index is next written, by        *)
(* comparing such entries and zeroing the size of one that moved.          *)
(*                                                                         *)
(* Commands take the lane of the repository (RepoLock; here whoever finds  *)
(* it free) and, to write, `<index>.lock`: update-index --refresh, status  *)
(* (which has `<index>.lock` before it wants the lane), add (which reads   *)
(* the index, then its age, then looks at the file, before either) and the *)
(* checkout of zsync.  The user edits files at any time.                   *)
(***************************************************************************)
EXTENDS Naturals, FiniteSets

CONSTANTS Path,         (* tracked files, in the order of the index *)
          Editable,     (* those the user edits and names to add (bound) *)
          Content,      (* blobs *)
          Empty, First, (* the empty one; what every file holds at the start *)
          NoContent,    (* not hashed yet *)
          Command,      (* each runs once; numbered as they begin *)
          MaxTime,      (* seconds the clock may reach *)
          MaxEdits      (* edits of the user *)

ASSUME RacyAssumption ==
    /\ Path \subseteq Nat /\ Path # {}
    /\ Editable \subseteq Path
    /\ {Empty, First} \subseteq Content
    /\ NoContent \notin Content
    /\ Command \subseteq Nat \ {0}
    /\ MaxTime \in Nat \ {0}
    /\ MaxEdits \in Nat

VARIABLES now, edits,
          file,      (* Path -> [data, mtime] *)
          disk,      (* .git/index: [entry: Path -> [id, mtime, size], stamp] *)
          pc,        (* where a command is *)
          seen,      (* what an add knows of the index: [entry, limit, stamp] *)
          look,      (* an add's Staged: [path, mtime, size, id] *)
          indexLock, (* who has <index>.lock from before its write *)
          lane,      (* who has the RepoLock *)
          mem,       (* the index in the memory of that command *)
          marked,    (* its entries with UPTODATE *)
          todo,      (* entries its refresh has not come to *)
          dirty,     (* its refresh changed an entry *)
          touched,   (* history: edited since that command last looked *)
          lost       (* history: the last change of it was overtaken *)

NoCommand == 0

worldVars == <<now, edits, file>>
openVars == <<mem, marked, todo, dirty, touched>>
addVars == <<seen, look>>
vars == <<worldVars, disk, lost, pc, addVars, indexLock, lane, openVars>>

-----------------------------------------------------------------------------
(* What a reader believes. *)

Size(d) == IF d = Empty THEN 0 ELSE 1

(* What an index should say of a file. *)
EntryOf(f) == [id |-> f.data, mtime |-> f.mtime, size |-> Size(f.data)]

(* Stat::matches *)
StatMatches(e, p) == e.mtime = file[p].mtime /\ e.size = Size(file[p].data)

Smudged(e) == e.size = 0 /\ e.id # Empty

(* match_stat_basic_differs *)
Differs(e, p) == ~StatMatches(e, p) \/ Smudged(e)

(* is_racy_stat *)
IsRacy(stamp, e) == stamp # 0 /\ stamp <= e.mtime

(* ie_match_stat_unchanged *)
Unchanged(index, p) ==
    LET e == index.entry[p] IN
    /\ ~Differs(e, p)
    /\ IsRacy(index.stamp, e) => file[p].data = e.id

WithEntry(index, p, e) == [entry |-> [index.entry EXCEPT ![p] = e], stamp |-> index.stamp]

HasRacy(index) == \E p \in Path : IsRacy(index.stamp, index.entry[p])

-----------------------------------------------------------------------------
(* A command is inside the lane with its index open, and leaves it.        *)

NothingSeen == [path |-> CHOOSE p \in Path : TRUE, mtime |-> 0, size |-> 0, id |-> NoContent]

NothingRead == [entry |-> [id |-> First, mtime |-> 0, size |-> 0], limit |-> 0, stamp |-> 0]

Open(c, index, todos) ==
    /\ lane = NoCommand
    /\ lane' = c
    /\ mem' = index
    /\ todo' = todos
    /\ dirty' = FALSE
    /\ touched' = {}

Close(c) ==
    /\ lane' = NoCommand
    /\ mem' = disk'
    /\ marked' = {}
    /\ todo' = {}
    /\ dirty' = FALSE
    /\ touched' = {}
    /\ indexLock' = IF indexLock = c THEN NoCommand ELSE indexLock
    /\ look' = [look EXCEPT ![c] = NothingSeen]

Go(c, from, to) == pc[c] = from /\ pc' = [pc EXCEPT ![c] = to]

Tick ==
    /\ now < MaxTime
    /\ now' = now + 1
    /\ UNCHANGED <<edits, file, disk, lost, pc, addVars, indexLock, lane, openVars>>

Edit(p, d) ==
    /\ edits < MaxEdits
    /\ d # file[p].data
    /\ edits' = edits + 1
    /\ file' = [file EXCEPT ![p] = [data |-> d, mtime |-> now]]
    /\ touched' = IF lane = NoCommand THEN {} ELSE touched \cup {p}
    /\ lost' = lost \ {p}
    /\ UNCHANGED <<now, disk, pc, addVars, indexLock, lane, mem, marked, todo, dirty>>

-----------------------------------------------------------------------------
(* refresh_index, for update-index --refresh and status.                   *)

RefreshOpen(c) ==
    /\ Go(c, "idle", "refresh")
    /\ Open(c, disk, Path)
    /\ marked' = {}
    /\ UNCHANGED <<worldVars, disk, lost, addVars, indexLock>>

(* status takes <index>.lock first, and only reports if it is taken. *)
StatusHold(c) ==
    /\ IF indexLock = NoCommand
       THEN Go(c, "idle", "held") /\ indexLock' = c
       ELSE Go(c, "idle", "over") /\ UNCHANGED indexLock
    /\ UNCHANGED <<worldVars, disk, lost, addVars, lane, openVars>>

StatusOpen(c) ==
    /\ Go(c, "held", "refresh")
    /\ Open(c, disk, Path)
    /\ marked' = {}
    /\ UNCHANGED <<worldVars, disk, lost, addVars, indexLock>>

(* match_stat_basic and the racy comparison: the stat agrees and, where     *)
(* that is not enough, the content does.                                    *)
Verified(p) == Unchanged(mem, p)

(* Neither reported as changed at once (a size that differs, or a racy     *)
(* entry whose content does) nor of another content: the stat is renewed.  *)
Restats(p) ==
    LET e == mem.entry[p] IN
    /\ ~Verified(p)
    /\ e.size = 0 \/ (e.size = Size(file[p].data) /\ ~StatMatches(e, p))
    /\ file[p].data = e.id

Refresh(c, p) ==
    /\ lane = c /\ pc[c] = "refresh"
    /\ p \in todo /\ \A q \in todo : p <= q
    /\ todo' = todo \ {p}
    /\ marked' = IF Verified(p) \/ Restats(p) THEN marked \cup {p} ELSE marked
    /\ mem' = IF Restats(p) THEN WithEntry(mem, p, EntryOf(file[p])) ELSE mem
    /\ dirty' = (dirty \/ Restats(p))
    /\ touched' = touched \ {p}
    /\ UNCHANGED <<worldVars, disk, lost, pc, addVars, indexLock, lane>>

(* Nothing to write, or on to the write. *)
RefreshOver(c) ==
    /\ lane = c /\ pc[c] = "refresh" /\ todo = {}
    /\ \/ /\ dirty \/ HasRacy(mem)
          /\ Go(c, "refresh", "smudge")
          /\ UNCHANGED <<disk, look, indexLock, lane, openVars>>
       \/ /\ ~(dirty \/ HasRacy(mem))
          /\ Go(c, "refresh", "over")
          /\ UNCHANGED disk
          /\ Close(c)
    /\ UNCHANGED <<worldVars, lost, seen>>

-----------------------------------------------------------------------------
(* add of one path.                                                        *)

(* The index is read without the lane. *)
AddRead(c, p) ==
    /\ Go(c, "idle", "read")
    /\ look' = [look EXCEPT ![c].path = p]
    /\ seen' = [seen EXCEPT ![c].entry = disk.entry[p], ![c].stamp = disk.stamp]
    /\ UNCHANGED <<worldVars, disk, lost, indexLock, lane, openVars>>

(* racy_paths asks for the age of the index when it is read: of the one     *)
(* that is there by now.                                                    *)
AddAge(c) ==
    /\ Go(c, "read", "aged")
    /\ seen' = [seen EXCEPT ![c].limit = disk.stamp]
    /\ UNCHANGED <<worldVars, disk, lost, look, indexLock, lane, openVars>>

AddPassesOnStat(c) == StatMatches(seen[c].entry, look[c].path)

(* The stat agrees and is not racy: the path is passed over.  The test for  *)
(* a smudged entry is not made here.                                        *)
AddPasses(c) ==
    /\ StatMatches(seen[c].entry, look[c].path)
    /\ ~IsRacy(seen[c].limit, seen[c].entry)

(* The walk: lstat. *)
AddPass(c) ==
    /\ AddPasses(c)
    /\ Go(c, "aged", "over")
    /\ look' = [look EXCEPT ![c] = NothingSeen]
    /\ seen' = [seen EXCEPT ![c] = NothingRead]
    /\ UNCHANGED <<worldVars, disk, lost, indexLock, lane, openVars>>

AddLook(c) ==
    /\ ~AddPasses(c)
    /\ Go(c, "aged", "looked")
    /\ look' = [look EXCEPT ![c].mtime = file[look[c].path].mtime,
                            ![c].size  = Size(file[look[c].path].data)]
    /\ seen' = [seen EXCEPT ![c] = NothingRead]
    /\ UNCHANGED <<worldVars, disk, lost, indexLock, lane, openVars>>

(* index_staged_blobs: the content is read later. *)
AddHash(c) ==
    /\ Go(c, "looked", "hashed")
    /\ look' = [look EXCEPT ![c].id = file[look[c].path].data]
    /\ UNCHANGED <<worldVars, disk, lost, seen, indexLock, lane, openVars>>

Staged(c) == [id |-> look[c].id, mtime |-> look[c].mtime, size |-> look[c].size]

(* The lane, the index as it is now, and the staged entry in it. *)
AddOpen(c) ==
    /\ Go(c, "hashed", "smudge")
    /\ Open(c, WithEntry(disk, look[c].path, Staged(c)), {})
    /\ marked' = {}
    /\ UNCHANGED <<worldVars, disk, lost, addVars, indexLock>>

-----------------------------------------------------------------------------
(* The checkout of zsync: the file is written and its stat taken through   *)
(* one descriptor; the index keeps the stamp of the one it replaces.       *)

Checkout(c, p, d) ==
    /\ d # disk.entry[p].id
    /\ Go(c, "idle", "smudge")
    /\ file' = [file EXCEPT ![p] = [data |-> d, mtime |-> now]]
    /\ Open(c, WithEntry(disk, p, EntryOf(file'[p])), {})
    /\ marked' = {p}
    /\ lost' = lost \ {p}
    /\ UNCHANGED <<now, edits, disk, addVars, indexLock>>

-----------------------------------------------------------------------------
(* The one way to write an index.                                          *)

NothingMoved(p) == FALSE

(* racy_comparisons and the comparison: unmarked, racy, of the same stat,   *)
(* and of another content.                                                  *)
Moved(p) ==
    LET e == mem.entry[p] IN
    p \notin marked /\ IsRacy(mem.stamp, e) /\ ~Differs(e, p) /\ file[p].data # e.id

Zeroed(e) == [id |-> e.id, mtime |-> e.mtime, size |-> 0]

Smudge(c) ==
    /\ lane = c
    /\ Go(c, "smudge", "write")
    /\ mem' = [entry |-> [p \in Path |-> IF Moved(p) THEN Zeroed(mem.entry[p]) ELSE mem.entry[p]],
                stamp |-> mem.stamp]
    /\ touched' = touched \cap marked
    /\ UNCHANGED <<worldVars, disk, lost, addVars, indexLock, lane, marked, todo, dirty>>

NeverRefused(c) == FALSE

(* <index>.lock is taken for the write with Fail::Immediately. *)
Refused(c) == indexLock \notin {c, NoCommand}

(* add looked at the file, and before it had the lane somebody wrote the   *)
(* index in a later second: the entry it stages does not look racy.        *)
LookedTooEarly(c, p) ==
    look[c].id # NoContent /\ look[c].path = p /\ mem.entry[p].mtime < mem.stamp

(* The user came after the last look at the file. *)
Overtaken(c, p) == p \in touched \/ LookedTooEarly(c, p)

Write(c) ==
    /\ lane = c
    /\ indexLock \in {c, NoCommand}
    /\ Go(c, "write", "over")
    /\ disk' = [entry |-> mem.entry, stamp |-> now]
    /\ lost' = lost \cup {p \in Path : Overtaken(c, p)}
    /\ Close(c)
    /\ UNCHANGED <<worldVars, seen>>

WriteFails(c) ==
    /\ lane = c
    /\ Refused(c)
    /\ Go(c, "write", "failed")
    /\ UNCHANGED disk
    /\ Close(c)
    /\ UNCHANGED <<worldVars, lost, seen>>

-----------------------------------------------------------------------------

Init ==
    /\ now = 1 /\ edits = 0
    /\ file = [p \in Path |-> [data |-> First, mtime |-> 1]]
    /\ disk = [entry |-> [p \in Path |-> EntryOf(file[p])], stamp |-> 1]
    /\ pc = [c \in Command |-> "idle"]
    /\ look = [c \in Command |-> NothingSeen]
    /\ seen = [c \in Command |-> NothingRead]
    /\ indexLock = NoCommand
    /\ lane = NoCommand
    /\ mem = disk
    /\ marked = {} /\ todo = {} /\ dirty = FALSE /\ touched = {} /\ lost = {}

Begin(c) ==
    /\ \A b \in Command : b < c => pc[b] # "idle"
    /\ \/ RefreshOpen(c) \/ StatusHold(c)
       \/ \E p \in Editable : AddRead(c, p)
       \/ \E p \in Editable, d \in Content : Checkout(c, p, d)

GoOn(c) ==
    \/ StatusOpen(c) \/ (\E p \in Path : Refresh(c, p)) \/ RefreshOver(c)
    \/ AddAge(c) \/ AddPass(c) \/ AddLook(c) \/ AddHash(c) \/ AddOpen(c)
    \/ Smudge(c) \/ Write(c) \/ WriteFails(c)

Next ==
    \/ Tick
    \/ \E p \in Editable, d \in Content : Edit(p, d)
    \/ \E c \in Command : Begin(c) \/ GoOn(c)

Spec == Init /\ [][Next]_vars

(* Commands that have begun run; the lane serves those who wait in turn    *)
(* (RepoLane), and each command passes it once.                            *)
FairSpec == Spec /\ \A c \in Command : WF_vars(GoOn(c))

-----------------------------------------------------------------------------
(* Properties. *)

Entry == [id : Content, mtime : Nat, size : {0, 1}]
Index == [entry : [Path -> Entry], stamp : Nat]

(* Every variable keeps the shape the code's types give it. *)
TypeOK ==
    /\ now \in Nat /\ edits \in Nat
    /\ file \in [Path -> [data : Content, mtime : Nat]]
    /\ disk \in Index /\ mem \in Index
    /\ pc \in [Command -> {"idle", "held", "refresh", "read", "aged", "looked", "hashed",
                        "smudge", "write", "over", "failed"}]
    /\ look \in [Command -> [path : Path, mtime : Nat, size : {0, 1}, id : Content \cup {NoContent}]]
    /\ seen \in [Command -> [entry : Entry, limit : Nat, stamp : Nat]]
    /\ indexLock \in Command \cup {NoCommand}
    /\ lane \in Command \cup {NoCommand}
    /\ lost \in SUBSET Path
    /\ marked \in SUBSET Path /\ todo \in SUBSET Path /\ touched \in SUBSET Path
    /\ dirty \in BOOLEAN

(* The file differs from its entry and no reader will ever notice. *)
Hidden(p) == Unchanged(disk, p) /\ file[p].data # disk.entry[p].id

(* "the write-time safety net that keeps a change from becoming invisible" *)
(* (index_racy.rs): no step hides a change of a file, except the write of  *)
(* a command that had verified or compared the file before the user        *)
(* changed it, within one second; and that of an add that looked too early.*)
NeverHidden ==
    [][\A p \in Path : Hidden(p)' /\ ~Hidden(p) =>
        lane # NoCommand /\ Overtaken(lane, p)]_vars

(* "a racily-clean one modified whatever its bytes say" (add.rs): however    *)
(* the index and the file move between the steps of an add, it passes over a *)
(* file that differs from the entry it read only when an overtaken write has *)
(* hidden that change, when the index was written in between in a later     *)
(* second, or when the file of a smudged entry was emptied.                 *)
AddSees ==
    [][\A c \in Command : AddPass(c) =>
        LET p == look[c].path  e == seen[c].entry IN
        \/ file[p].data = e.id
        \/ p \in lost
        \/ seen[c].limit # seen[c].stamp
        \/ Smudged(e) /\ file[p].data = Empty]_vars

(* Every command that has begun ends: status waits for the lane with        *)
(* <index>.lock in its hand, and the lane's holder wants that lock.         *)
CommandsEnd ==
    \A c \in Command : pc[c] # "idle" ~> pc[c] \in {"over", "failed"}

=============================================================================

------------------------------- MODULE RCache -------------------------------
(***************************************************************************)
(* One cache of derived answers (rcache.rs): an append-only journal, the   *)
(* base image it is folded into, and the lock file that only writers take. *)
(*                                                                         *)
(* A process is one command.  Its main thread reads the journal at its     *)
(* first lookup, maps the image at its first miss, computes what it does   *)
(* not find and queues it for its writer thread, which appends batches     *)
(* under the lock and compacts when the journal has grown.  A process can  *)
(* be killed, and its calls can fail, between any two of these steps and   *)
(* in the middle of a write.                                               *)
(*                                                                         *)
(* The journal is a sequence of fields, and every field has the size 1: a  *)
(* record is <<Size, Size, key, value>>.  A key or value that is read as a *)
(* size is larger than any journal (it is text, the size four bytes), so   *)
(* the reader stops there.  A file cut off by the kernel loses whole       *)
(* fields.  Keys no command ever looks up, such as the ones a misread      *)
(* journal yields, are left out of snapshots and images.                   *)
(***************************************************************************)
EXTENDS Naturals, Sequences, FiniteSets, SequencesExt

CONSTANTS Process,    (* commands                                           *)
          Key,        (* keys                                               *)
          Answer,     (* the answer a key stands for                        *)
          Size,       (* the length prefix of a field                       *)
          Miss,       (* no value                                           *)
          Nobody,     (* the lock is free                                   *)
          Wants,      (* Wants[p]: the keys p looks up, or imports          *)
          Importer,   (* processes that run the one-time import             *)
          Faulty,     (* processes that may be killed or whose calls fail   *)
          CompactAt   (* COMPACT_BYTES, in fields                           *)

Value == {Answer[k] : k \in Key}
Field == Key \cup Value \cup {Size}

ASSUME CacheAssumption ==
    /\ Size \notin Key \cup Value
    /\ Miss \notin Field
    /\ Nobody \notin Process
    /\ Wants \in [Process -> SUBSET Key]
    /\ Importer \subseteq Process
    /\ Faulty \subseteq Process
    /\ CompactAt \in Nat
    /\ \A p \in Importer : IsFiniteSet(Wants[p])

VARIABLES
    journal,    (* <name>.log                                               *)
    image,      (* <name>.rkyv, as a value or Miss per key                  *)
    lock,       (* who has the flock on <name>.lock                         *)
    look,       (* a process's two OnceLocks: unread, reading, read, mapped *)
    bytes,      (* what read_to_end has returned so far                     *)
    recent,     (* the journal as the process read it                       *)
    table,      (* the image as the process mapped it                       *)
    todo,       (* keys the process has still to look up                    *)
    rows,       (* the channel to the writer thread: keys                   *)
    phase,      (* the writer thread                                        *)
    buf,        (* fields of the batch that are not written yet             *)
    tmp,        (* the temporary image file                                 *)
    floor,      (* history: what was recorded when p began to read          *)
    straddled,  (* history: the journal was emptied while p was reading it  *)
    spoiled,    (* history: an append went behind a torn record, or a read  *)
                (*   went on in a journal that had been emptied meanwhile   *)
    forgotten   (* history: what a compaction could not read of the files   *)
                (*   it replaced                                            *)

readVars  == <<look, bytes, recent, table, floor, straddled>>
writeVars == <<phase, buf, tmp>>
storeVars == <<journal, image, lock>>
vars == <<storeVars, readVars, writeVars, todo, rows, spoiled, forgotten>>

-----------------------------------------------------------------------------
(* The format. *)

Record(k) == <<Size, Size, k, Answer[k]>>

Encode(ks) ==
    [i \in 1..4 * Len(ks) |-> Record(ks[(i - 1) \div 4 + 1])[((i - 1) % 4) + 1]]

(* How many records the reader takes before it meets a torn one. *)
Intact(j) ==
    Max({n \in 0..Len(j) \div 4 :
            \A m \in 0..n-1 : j[4*m + 1] = Size /\ j[4*m + 2] = Size})

(* The journal as a map; a later record supersedes an earlier one. *)
ReadJournal(j) ==
    [k \in Key |->
        LET at == {m \in 0..Intact(j) - 1 : j[4*m + 3] = k}
        IN  IF at = {} THEN Miss ELSE j[4*Max(at) + 4]]

(* b where it has a value, a elsewhere. *)
Over(b, a) == [k \in Key |-> IF b[k] # Miss THEN b[k] ELSE a[k]]

(* The keys a snapshot has. *)
Keys(t) == {k \in Key : t[k] # Miss}

Recorded == Keys(Over(ReadJournal(journal), image))

TornTail == 4 * Intact(journal) # Len(journal)

-----------------------------------------------------------------------------

Init ==
    /\ journal = <<>>
    /\ image = [k \in Key |-> Miss]
    /\ lock = Nobody
    /\ look = [p \in Process |-> "unread"]
    /\ bytes = [p \in Process |-> <<>>]
    /\ recent = [p \in Process |-> [k \in Key |-> Miss]]
    /\ table = [p \in Process |-> [k \in Key |-> Miss]]
    /\ todo = Wants
    /\ rows = [p \in Process |-> <<>>]
    /\ phase = [p \in Process |-> "idle"]
    /\ buf = [p \in Process |-> <<>>]
    /\ tmp = [p \in Process |-> [k \in Key |-> Miss]]
    /\ floor = [p \in Process |-> {}]
    /\ straddled = {}
    /\ spoiled = FALSE
    /\ forgotten = {}

Alive(p) == phase[p] # "dead"

-----------------------------------------------------------------------------
(* The main thread. *)

(* The first get opens the journal. *)
OpenJournal(p) ==
    /\ Alive(p)
    /\ p \notin Importer
    /\ look[p] = "unread"
    /\ todo[p] # {}
    /\ look' = [look EXCEPT ![p] = "reading"]
    /\ floor' = [floor EXCEPT ![p] = Recorded]
    /\ UNCHANGED <<bytes, recent, table, straddled, storeVars, writeVars, todo, rows, spoiled, forgotten>>

(* One read(2) of read_to_end, at the offset reached so far. *)
ReadSome(p) ==
    /\ Alive(p)
    /\ look[p] = "reading"
    /\ Len(bytes[p]) < Len(journal)
    /\ \E n \in Len(bytes[p]) + 1 .. Len(journal) :
         bytes' = [bytes EXCEPT ![p] = @ \o SubSeq(journal, Len(@) + 1, n)]
    /\ spoiled' = (spoiled \/ p \in straddled)
    /\ UNCHANGED <<look, recent, table, floor, straddled, storeVars, writeVars, todo, rows, forgotten>>

(* A read of nothing: the file ends here, and is parsed. *)
ReadEnd(p) ==
    /\ Alive(p)
    /\ look[p] = "reading"
    /\ Len(bytes[p]) >= Len(journal)
    /\ look' = [look EXCEPT ![p] = "read"]
    /\ recent' = [recent EXCEPT ![p] = ReadJournal(bytes[p])]
    /\ bytes' = [bytes EXCEPT ![p] = <<>>]
    /\ UNCHANGED <<table, floor, straddled, storeVars, writeVars, todo, rows, spoiled, forgotten>>

(* find: the image is mapped at the first key the journal does not have. *)
MapBase(p) ==
    /\ Alive(p)
    /\ look[p] = "read"
    /\ \E k \in todo[p] : recent[p][k] = Miss
    /\ look' = [look EXCEPT ![p] = "mapped"]
    /\ table' = [table EXCEPT ![p] = image]
    /\ UNCHANGED <<bytes, recent, floor, straddled, storeVars, writeVars, todo, rows, spoiled, forgotten>>

Found(p) == Over(recent[p], table[p])

(* A lookup in the snapshots; what is missing is computed and queued. *)
Get(p, k) ==
    /\ Alive(p)
    /\ k \in todo[p]
    /\ \/ look[p] = "mapped"
       \/ look[p] = "read" /\ recent[p][k] # Miss
    /\ todo' = [todo EXCEPT ![p] = @ \ {k}]
    /\ rows' = [rows EXCEPT ![p] = IF Found(p)[k] = Miss THEN Append(@, k) ELSE @]
    /\ UNCHANGED <<readVars, storeVars, writeVars, spoiled, forgotten>>

-----------------------------------------------------------------------------
(* The writer thread, with the flock. *)

Move(p, from, to) ==
    /\ phase[p] = from
    /\ phase' = [phase EXCEPT ![p] = to]

(* writer_loop: everything queued becomes one append. *)
TakeBatch(p) ==
    /\ rows[p] # <<>>
    /\ Move(p, "idle", "locking")
    /\ buf' = [buf EXCEPT ![p] = Encode(rows[p])]
    /\ rows' = [rows EXCEPT ![p] = <<>>]
    /\ UNCHANGED <<tmp, readVars, storeVars, todo, spoiled, forgotten>>

(* import: the old ledger's rows in one append.  It is over, and todo       *)
(* empty, once a section of its own has folded the journal in.              *)
Import(p) ==
    /\ p \in Importer
    /\ todo[p] # {}
    /\ Move(p, "idle", "locking")
    /\ buf' = [buf EXCEPT ![p] = Encode(SetToSeq(todo[p]))]
    /\ UNCHANGED <<tmp, todo, rows, readVars, storeVars, spoiled, forgotten>>

AfterAppend(p) == IF p \in Importer /\ todo[p] # {} THEN "relocking" ELSE "idle"

Lock(p) ==
    /\ lock = Nobody
    /\ \/ Move(p, "locking", "writing")
          /\ UNCHANGED todo
       \/ Move(p, "relocking", "compacting")
          /\ todo' = [todo EXCEPT ![p] = {}]
    /\ lock' = p
    /\ UNCHANGED <<journal, image, buf, tmp, readVars, rows, spoiled, forgotten>>

(* write_all: any part of the batch reaches the file at a time. *)
Write(p) ==
    /\ phase[p] = "writing"
    /\ buf[p] # <<>>
    /\ \E n \in 1..Len(buf[p]) :
         /\ journal' = journal \o SubSeq(buf[p], 1, n)
         /\ buf' = [buf EXCEPT ![p] = SubSeq(@, n + 1, Len(@))]
    /\ spoiled' = (spoiled \/ (TornTail /\ Len(buf[p]) % 4 = 0))
    /\ UNCHANGED <<image, lock, phase, tmp, readVars, todo, rows, forgotten>>

NeedsCompaction == Len(journal) >= CompactAt

(* The batch is written: compact under the same lock, or give it back. *)
Written(p) ==
    /\ buf[p] = <<>>
    /\ IF NeedsCompaction
       THEN Move(p, "writing", "compacting") /\ UNCHANGED lock
       ELSE Move(p, "writing", AfterAppend(p)) /\ lock' = Nobody
    /\ UNCHANGED <<journal, image, buf, tmp, readVars, todo, rows, spoiled, forgotten>>

Nothing == [k \in Key |-> Miss]

(* A file as compact reads it: one it cannot open, map or read, or that is  *)
(* not valid, is taken to be empty.                                         *)
Reading(p, t) == {t} \cup (IF p \in Faulty THEN {Nothing} ELSE {})

(* The journal emptied as soon as the new image is written, before the      *)
(* rename.                                                                  *)
BuildImageEmptying(p) ==
    /\ Move(p, "compacting", "renaming")
    /\ tmp' = [tmp EXCEPT ![p] = Over(ReadJournal(journal), image)]
    /\ journal' = <<>>
    /\ UNCHANGED <<image, lock, buf, readVars, todo, rows, spoiled, forgotten>>

(* compact: journal over image, into a file of the process's own. *)
BuildImage(p) ==
    /\ Move(p, "compacting", "renaming")
    /\ \E old \in Reading(p, image), new \in Reading(p, ReadJournal(journal)) :
         /\ tmp' = [tmp EXCEPT ![p] = Over(new, old)]
         /\ forgotten' = forgotten \cup (Recorded \ Keys(Over(new, old)))
    /\ UNCHANGED <<storeVars, buf, readVars, todo, rows, spoiled>>

Rename(p) ==
    /\ Move(p, "renaming", "truncating")
    /\ image' = tmp[p]
    /\ UNCHANGED <<journal, lock, buf, tmp, readVars, todo, rows, spoiled, forgotten>>

(* Only now is the journal redundant. *)
Truncate(p) ==
    /\ Move(p, "truncating", AfterAppend(p))
    /\ journal' = <<>>
    /\ lock' = Nobody
    /\ straddled' = straddled \cup {q \in Process : bytes[q] # <<>>}
    /\ UNCHANGED <<image, buf, tmp, look, bytes, recent, table, floor, todo, rows, spoiled, forgotten>>

-----------------------------------------------------------------------------
(* Faults. *)

(* A reader's open or read of the journal fails, or its map of the image:   *)
(* everything there is a miss, and p can count on nothing.                  *)
JournalFails(p) ==
    /\ p \in Faulty \ Importer
    /\ Alive(p)
    /\ \/ look[p] = "unread" /\ todo[p] # {}
       \/ look[p] = "reading"
    /\ look' = [look EXCEPT ![p] = "read"]
    /\ bytes' = [bytes EXCEPT ![p] = <<>>]
    /\ floor' = [floor EXCEPT ![p] = {}]
    /\ UNCHANGED <<recent, table, straddled, storeVars, writeVars, todo, rows, spoiled, forgotten>>

ImageFails(p) ==
    /\ p \in Faulty
    /\ Alive(p)
    /\ look[p] = "read"
    /\ \E k \in todo[p] : recent[p][k] = Miss
    /\ look' = [look EXCEPT ![p] = "mapped"]
    /\ floor' = [floor EXCEPT ![p] = {}]
    /\ UNCHANGED <<bytes, recent, table, straddled, storeVars, writeVars, todo, rows, spoiled, forgotten>>

(* A failing call that keeps the lock. *)
UnlockedNever(p) == lock

Unlocked(p) == IF lock = p THEN Nobody ELSE lock

(* An open, a flock, a write, a rename fails: what is left of the batch or  *)
(* of the compaction is given up without a word.                            *)
Fails(p) ==
    /\ p \in Faulty
    /\ phase[p] \notin {"idle", "dead"}
    /\ phase' = [phase EXCEPT ![p] = IF @ = "relocking" THEN "idle" ELSE AfterAppend(p)]
    /\ todo' = [todo EXCEPT ![p] = IF phase[p] = "relocking" THEN {} ELSE @]
    /\ buf' = [buf EXCEPT ![p] = <<>>]
    /\ lock' = Unlocked(p)
    /\ UNCHANGED <<journal, image, tmp, readVars, rows, spoiled, forgotten>>

(* The process is killed; the kernel gives its flock back. *)
Kill(p) ==
    /\ p \in Faulty
    /\ Alive(p)
    /\ phase' = [phase EXCEPT ![p] = "dead"]
    /\ todo' = [todo EXCEPT ![p] = {}]
    /\ rows' = [rows EXCEPT ![p] = <<>>]
    /\ buf' = [buf EXCEPT ![p] = <<>>]
    /\ lock' = Unlocked(p)
    /\ UNCHANGED <<journal, image, tmp, readVars, spoiled, forgotten>>

-----------------------------------------------------------------------------

Read(p) ==
    \/ OpenJournal(p) \/ ReadSome(p) \/ ReadEnd(p) \/ MapBase(p)
    \/ \E k \in Key : Get(p, k)

Writer(p) ==
    \/ TakeBatch(p) \/ Import(p) \/ Lock(p) \/ Write(p) \/ Written(p)
    \/ BuildImage(p) \/ Rename(p) \/ Truncate(p)

ReadFails(p) == JournalFails(p) \/ ImageFails(p)

Next == \E p \in Process : Read(p) \/ Writer(p) \/ ReadFails(p) \/ Fails(p) \/ Kill(p)

Spec == Init /\ [][Next]_vars

(* Both threads of a command run, and every command gets the lock in turn;  *)
(* faults are not fair.                                                     *)
Fairness == \A p \in Process : WF_vars(Read(p)) /\ WF_vars(Writer(p))

FairSpec == Spec /\ Fairness

-----------------------------------------------------------------------------
(* Properties. *)

(* The variables have their types: the sizes of snapshots and images are    *)
(* those of the key set, and the flock is with a writer in a section.       *)
TypeOK ==
    /\ journal \in Seq(Field)
    /\ image \in [Key -> Field \cup {Miss}]
    /\ lock \in Process \cup {Nobody}
    /\ \A p \in Process : lock = p <=> phase[p] \in {"writing", "compacting", "renaming", "truncating"}
    /\ look \in [Process -> {"unread", "reading", "read", "mapped"}]
    /\ bytes \in [Process -> Seq(Field)]
    /\ recent \in [Process -> [Key -> Field \cup {Miss}]]
    /\ table \in [Process -> [Key -> Field \cup {Miss}]]
    /\ todo \in [Process -> SUBSET Key]
    /\ rows \in [Process -> Seq(Key)]
    /\ phase \in [Process -> {"idle", "locking", "relocking", "writing", "compacting",
                              "renaming", "truncating", "dead"}]
    /\ buf \in [Process -> Seq(Field)]
    /\ tmp \in [Process -> [Key -> Field \cup {Miss}]]
    /\ floor \in [Process -> SUBSET Key]
    /\ straddled \subseteq Process
    /\ spoiled \in BOOLEAN
    /\ forgotten \subseteq Key

(* "Every remaining race degrades to a cache miss, never a wrong answer"    *)
(* (rcache.rs:61): whatever a command finds is the answer.                  *)
NeverLies ==
    \A p \in Process, k \in Key : Found(p)[k] \in {Answer[k], Miss}

(* What CacheSpec sees of a command: whether it has looked, and what it has *)
(* found.                                                                   *)
Stage == [p \in Process |-> CASE look[p] = "unread" -> "closed"
                              [] look[p] = "mapped" -> "open"
                              [] OTHER -> "opening"]

View == [p \in Process |-> {<<k, Found(p)[k]>> : k \in Keys(Found(p))}]

Promise == INSTANCE CacheSpec WITH
    known <- Recorded, stage <- Stage, view <- View, excused <- forgotten, broken <- spoiled

(* Until an append has gone behind a torn record, or a read has gone on in  *)
(* an emptied journal, the store keeps the promise of CacheSpec.  Nothing   *)
(* recorded is lost by a compaction, nor by its end at any step, with one   *)
(* exception: compact takes a file it cannot read for an empty one, and     *)
(* what was only there is forgotten.  A command finds what was recorded     *)
(* before it began to read, although it takes no lock, unless it was        *)
(* forgotten or a read of its own failed; and what it finds is right.       *)
ImplementsCacheSpec == Promise!CacheSpecification

(* cache_flush, the one place a command waits: what is queued is written or *)
(* given up, whoever else is killed or fails while it has the lock.         *)
FlushEnds ==
    \A p \in Process :
        rows[p] # <<>> ~> (rows[p] = <<>> /\ phase[p] \in {"idle", "dead"})

=============================================================================

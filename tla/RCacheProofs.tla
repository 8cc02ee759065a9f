---------------------------- MODULE RCacheProofs ----------------------------
(***************************************************************************)
(* Proofs about RCache, for any set of keys, commands and faults: its      *)
(* types, and that it keeps the promise of CacheSpec.                      *)
(*                                                                         *)
(* Only steps that leave the store unspoiled matter for the promise.       *)
(* Until then Kept holds: the journal is records one after the other, a    *)
(* batch completes what it began, a new image has all that is recorded     *)
(* before the journal is emptied, and what a reader has is the start of    *)
(* the journal, or is in the image.                                        *)
(***************************************************************************)
EXTENDS RCache, FiniteSetTheorems, SequenceTheorems, WellFoundedInduction, TLAPS

-----------------------------------------------------------------------------
(* The format. *)

(* A set of naturals has a least element, and with a bound a greatest one. *)
LEMMA Least ==
    ASSUME NEW T, T \subseteq Nat, T # {}
    PROVE  \E x \in T : \A y \in T : y >= x
<1>1. PICK R : IsWellFoundedOn(R, Nat) /\ \A a, b \in Nat : a < b => <<a, b>> \in R
  <2> DEFINE Less == {ss \in Nat \X Nat : ss[1] < ss[2]}
  <2>1. IsWellFoundedOn(Less, Nat)
    BY NatLessThanWellFounded DEF OpToRel
  <2>2. \A a, b \in Nat : a < b => <<a, b>> \in Less
    OBVIOUS
  <2> QED BY <2>1, <2>2
<1>2. PICK x \in T : \A y \in T : ~ (<<y, x>> \in R)
  <2>1. IsWellFoundedOn(R, Nat)
    BY <1>1
  <2> QED BY <2>1, WFMin, Zenon
<1>3. ASSUME NEW y \in T
      PROVE  y >= x
  <2>1. x \in Nat /\ y \in Nat /\ ~ (y < x)
    BY <1>1, <1>2
  <2> QED BY <2>1
<1> QED BY <1>3

LEMMA Greatest ==
    ASSUME NEW n \in Nat, NEW S \in SUBSET (0..n), S # {}
    PROVE  Max(S) \in S /\ \A y \in S : Max(S) >= y
<1> DEFINE T == {x \in Nat : n - x \in S}
<1>1. T \subseteq Nat /\ T # {}
  <2>1. PICK s \in S : TRUE
    OBVIOUS
  <2>2. n - s \in Nat /\ n - (n - s) = s
    OBVIOUS
  <2> QED BY <2>1, <2>2
<1>2. PICK x \in T : \A y \in T : y >= x
  <2> HIDE DEF T
  <2> QED BY <1>1, Least
<1>3. ASSUME NEW y \in S
      PROVE  n - x >= y
  <2>1. n - y \in T
    OBVIOUS
  <2> QED BY <1>1, <1>2, <2>1
<1>4. \E s \in S : \A y \in S : s >= y
  BY <1>3
<1> QED BY <1>4 DEF Max

(* A record is four fields, and every field of the model is one long. *)
LEMMA Quarters ==
    ASSUME NEW n \in Nat
    PROVE  /\ n \div 4 \in Nat /\ 4 * (n \div 4) <= n /\ n < 4 * (n \div 4) + 4
           /\ n % 4 \in 0..3
<1>1. n \div 4 \in Int /\ n \div 4 >= 0 /\ n % 4 \in 0..3
  OBVIOUS
<1>2. 4 * (n \div 4) <= n /\ n < 4 * (n \div 4) + 4
  OBVIOUS
<1> QED BY <1>1, <1>2

LEMMA IntactIs ==
    ASSUME NEW j \in Seq(Field)
    PROVE  /\ Intact(j) \in 0..Len(j) \div 4
           /\ \A m \in 0..Intact(j) - 1 : j[4*m + 1] = Size /\ j[4*m + 2] = Size
           /\ \A n \in 0..Len(j) \div 4 :
                (\A m \in 0..n-1 : j[4*m + 1] = Size /\ j[4*m + 2] = Size) => n <= Intact(j)
<1> DEFINE N == Len(j) \div 4
           S == {n \in 0..N : \A m \in 0..n-1 : j[4*m + 1] = Size /\ j[4*m + 2] = Size}
<1>1. N \in Nat
  BY Quarters
<1>2. 0 \in S /\ S \subseteq 0..N
  BY <1>1
<1>3. Intact(j) = Max(S)
  BY DEF Intact
<1>4. Max(S) \in S /\ \A y \in S : Max(S) >= y
  <2> HIDE DEF S, N
  <2> QED BY <1>1, <1>2, Greatest
<1> QED BY <1>3, <1>4

LEMMA ReadIs ==
    ASSUME NEW j \in Seq(Field), NEW k \in Key
    PROVE  \/ /\ ReadJournal(j)[k] = Miss
              /\ \A m \in 0..Intact(j) - 1 : j[4*m + 3] # k
           \/ \E m \in 0..Intact(j) - 1 : j[4*m + 3] = k /\ ReadJournal(j)[k] = j[4*m + 4]
<1> DEFINE at == {m \in 0..Intact(j) - 1 : j[4*m + 3] = k}
<1>1. ReadJournal(j)[k] = IF at = {} THEN Miss ELSE j[4*Max(at) + 4]
  BY DEF ReadJournal
<1>2. Intact(j) \in Nat
  BY IntactIs, Quarters
<1>3. CASE at = {}
  BY <1>1, <1>3
<1>4. CASE at # {}
  <2>1. at \subseteq 0..Intact(j)
    BY <1>2
  <2>2. Max(at) \in at
    <3> HIDE DEF at
    <3> QED BY <1>2, <1>4, <2>1, Greatest
  <2> QED BY <1>1, <1>4, <2>2
<1> QED BY <1>3, <1>4

Map == [Key -> Field \cup {Miss}]

LEMMA ReadTyped ==
    ASSUME NEW j \in Seq(Field)
    PROVE  ReadJournal(j) \in Map
<1>1. ASSUME NEW k \in Key
      PROVE  ReadJournal(j)[k] \in Field \cup {Miss}
  <2>1. ASSUME NEW m \in 0..Intact(j) - 1
        PROVE  j[4*m + 4] \in Field
    <3>1. Intact(j) \in Nat /\ 4 * Intact(j) <= Len(j) /\ Len(j) \in Nat
      BY IntactIs, Quarters
    <3>2. 4*m + 4 \in 1..Len(j)
      BY <3>1
    <3> QED BY <3>2
  <2> QED BY <2>1, ReadIs
<1>2. DOMAIN ReadJournal(j) = Key /\ ReadJournal(j) = [k \in Key |-> ReadJournal(j)[k]]
  BY DEF ReadJournal
<1> QED BY <1>1, <1>2 DEF Map

LEMMA OverTyped ==
    ASSUME NEW a \in Map, NEW b \in Map
    PROVE  Over(b, a) \in Map
  BY DEF Over, Map

(* What is appended: whole records, in the order of the keys. *)
LEMMA EncodeIs ==
    ASSUME NEW ks \in Seq(Key)
    PROVE  /\ Encode(ks) \in Seq(Field)
           /\ Len(Encode(ks)) = 4 * Len(ks)
           /\ \A m \in 0..Len(ks) - 1 :
                /\ Encode(ks)[4*m + 1] = Size /\ Encode(ks)[4*m + 2] = Size
                /\ Encode(ks)[4*m + 3] = ks[m + 1] /\ Encode(ks)[4*m + 4] = Answer[ks[m + 1]]
<1> DEFINE f(i) == Record(ks[(i - 1) \div 4 + 1])[((i - 1) % 4) + 1]
<1>1. Encode(ks) = [i \in 1..4 * Len(ks) |-> f(i)] /\ Len(ks) \in Nat /\ 4 * Len(ks) \in Nat
  BY DEF Encode
<1>2. \A k \in Key : /\ Record(k)[1] = Size /\ Record(k)[2] = Size
                     /\ Record(k)[3] = k /\ Record(k)[4] = Answer[k]
  BY DEF Record
<1>3. ASSUME NEW i \in 1..4 * Len(ks)
      PROVE  f(i) \in Field
  <2>1. (i - 1) \div 4 + 1 \in 1..Len(ks) /\ ((i - 1) % 4) + 1 \in 1..4
    BY <1>1, Quarters
  <2>2. ks[(i - 1) \div 4 + 1] \in Key
    BY <2>1
  <2> QED BY <1>2, <2>1, <2>2 DEF Field, Value
<1>4. ASSUME NEW m \in 0..Len(ks) - 1
      PROVE  /\ f(4*m + 1) = Size /\ f(4*m + 2) = Size
             /\ f(4*m + 3) = ks[m + 1] /\ f(4*m + 4) = Answer[ks[m + 1]]
  <2>1. m \in Nat /\ ks[m + 1] \in Key
    BY <1>1
  <2>2. /\ (4*m + 1 - 1) \div 4 = m /\ (4*m + 1 - 1) % 4 = 0
        /\ (4*m + 2 - 1) \div 4 = m /\ (4*m + 2 - 1) % 4 = 1
        /\ (4*m + 3 - 1) \div 4 = m /\ (4*m + 3 - 1) % 4 = 2
        /\ (4*m + 4 - 1) \div 4 = m /\ (4*m + 4 - 1) % 4 = 3
    BY <2>1
  <2> QED BY <1>2, <2>1, <2>2
<1> HIDE DEF f
<1>5. Encode(ks) \in Seq(Field) /\ Len(Encode(ks)) = 4 * Len(ks)
  BY <1>1, <1>3
<1>6. \A m \in 0..Len(ks) - 1 : {4*m + 1, 4*m + 2, 4*m + 3, 4*m + 4} \subseteq 1..4 * Len(ks)
  BY <1>1
<1> QED BY <1>1, <1>4, <1>5, <1>6

(* The keys of an import, in some order. *)
LEMMA SetToSeqTyped ==
    ASSUME NEW S \in SUBSET Key, IsFiniteSet(S)
    PROVE  SetToSeq(S) \in Seq(Key)
<1>1. Cardinality(S) \in Nat /\ ExistsBijection(1..Cardinality(S), S)
  BY FS_CardinalityType
<1>2. \E f \in [1..Cardinality(S) -> S] : IsInjective(f)
  BY <1>1 DEF ExistsBijection, Bijection, Injection, IsInjective
<1>3. SetToSeq(S) \in [1..Cardinality(S) -> S]
  BY <1>2 DEF SetToSeq
<1> QED BY <1>1, <1>3

-----------------------------------------------------------------------------
(* The types. *)

Sections == {"writing", "compacting", "renaming", "truncating"}
Phases   == {"idle", "locking", "relocking", "dead"} \cup Sections
Looks    == {"unread", "reading", "read", "mapped"}

(* A process looks for what it wants, and no more. *)
TodoInv == \A p \in Process : todo[p] \subseteq Wants[p]

Types ==
    /\ journal \in Seq(Field)
    /\ image \in Map
    /\ lock \in Process \cup {Nobody}
    /\ \A p \in Process : lock = p <=> phase[p] \in Sections
    /\ look \in [Process -> Looks]
    /\ bytes \in [Process -> Seq(Field)]
    /\ recent \in [Process -> Map]
    /\ table \in [Process -> Map]
    /\ todo \in [Process -> SUBSET Key]
    /\ rows \in [Process -> Seq(Key)]
    /\ phase \in [Process -> Phases]
    /\ buf \in [Process -> Seq(Field)]
    /\ tmp \in [Process -> Map]
    /\ floor \in [Process -> SUBSET Key]
    /\ straddled \subseteq Process
    /\ spoiled \in BOOLEAN
    /\ forgotten \subseteq Key

LEMMA TypesAre == TypeOK <=> Types
<1>1. Phases = {"idle", "locking", "relocking", "writing", "compacting", "renaming", "truncating", "dead"}
  BY DEF Phases, Sections
<1> QED BY <1>1 DEF TypeOK, Types, Map, Looks, Sections

(* A part of a sequence of fields. *)
LEMMA Part ==
    ASSUME NEW S, NEW s \in Seq(S), NEW m \in Nat \ {0}, NEW n \in 0..Len(s)
    PROVE  /\ SubSeq(s, m, n) \in Seq(S)
           /\ Len(SubSeq(s, m, n)) = IF m <= n THEN n - m + 1 ELSE 0
           /\ \A i \in 1 .. n - m + 1 : SubSeq(s, m, n)[i] = s[m + i - 1]
<1>1. \A i \in m .. n : s[i] \in S
  BY ElementOfSeq
<1> QED BY <1>1, SubSeqProperties

LEMMA ReadTypes ==
    ASSUME Types, TodoInv, NEW p \in Process, Read(p)
    PROVE  Types' /\ TodoInv'
<1> USE CacheAssumption DEF storeVars, writeVars, readVars, Types, TodoInv, Alive
<1>1. CASE OpenJournal(p)
  <2>1. Recorded \subseteq Key
    BY DEF Recorded, Keys
  <2> QED BY <1>1, <2>1 DEF OpenJournal, Looks
<1>2. CASE ReadSome(p)
  <2>1. PICK n \in Len(bytes[p]) + 1 .. Len(journal) :
           bytes' = [bytes EXCEPT ![p] = @ \o SubSeq(journal, Len(@) + 1, n)]
    BY <1>2 DEF ReadSome
  <2>2. bytes[p] \o SubSeq(journal, Len(bytes[p]) + 1, n) \in Seq(Field)
    <3>1. Len(bytes[p]) + 1 \in Nat \ {0} /\ n \in 0..Len(journal)
      BY <2>1
    <3>2. SubSeq(journal, Len(bytes[p]) + 1, n) \in Seq(Field)
      BY <3>1, Part
    <3> QED BY <3>2
  <2>3. bytes' \in [Process -> Seq(Field)]
    BY <2>1, <2>2
  <2> QED BY <1>2, <2>3 DEF ReadSome
<1>3. CASE ReadEnd(p)
  <2>1. ReadJournal(bytes[p]) \in Map
    BY ReadTyped
  <2> QED BY <1>3, <2>1 DEF ReadEnd, Looks
<1>4. CASE MapBase(p)
  BY <1>4 DEF MapBase, Looks
<1>5. ASSUME NEW k \in Key, Get(p, k)
      PROVE  Types' /\ TodoInv'
  BY <1>5 DEF Get
<1> QED BY <1>1, <1>2, <1>3, <1>4, <1>5 DEF Read

LEMMA ReadFailsTypes ==
    ASSUME Types, TodoInv, NEW p \in Process, ReadFails(p)
    PROVE  Types' /\ TodoInv'
<1> USE DEF storeVars, writeVars, Types, TodoInv, Looks
<1>1. <<>> \in Seq(Field)
  OBVIOUS
<1>2. CASE JournalFails(p)
  BY <1>1, <1>2 DEF JournalFails
<1>3. CASE ImageFails(p)
  BY <1>3 DEF ImageFails
<1> QED BY <1>2, <1>3 DEF ReadFails

LEMMA NothingTyped == Nothing \in Map /\ Keys(Nothing) = {}
  BY DEF Nothing, Map, Keys

LEMMA WriterTypes ==
    ASSUME Types, TodoInv, NEW p \in Process, Writer(p) \/ Fails(p) \/ Kill(p)
    PROVE  Types' /\ TodoInv'
<1> USE CacheAssumption DEF storeVars, writeVars, readVars, Types, TodoInv, Alive, Move, Sections, Phases
<1>1. CASE TakeBatch(p)
  <2>1. Encode(rows[p]) \in Seq(Field) /\ <<>> \in Seq(Key)
    BY EncodeIs
  <2> QED BY <1>1, <2>1 DEF TakeBatch
<1>2. CASE Import(p)
  <2>1. IsFiniteSet(todo[p])
    BY <1>2, FS_Subset DEF Import
  <2>2. Encode(SetToSeq(todo[p])) \in Seq(Field)
    BY <2>1, SetToSeqTyped, EncodeIs
  <2> QED BY <1>2, <2>2 DEF Import
<1>3. CASE Lock(p)
  BY <1>3, ZenonT(60) DEF Lock
<1>4. CASE Write(p)
  <2>1. PICK n \in 1..Len(buf[p]) :
           /\ journal' = journal \o SubSeq(buf[p], 1, n)
           /\ buf' = [buf EXCEPT ![p] = SubSeq(@, n + 1, Len(@))]
    BY <1>4 DEF Write
  <2>2. SubSeq(buf[p], 1, n) \in Seq(Field) /\ SubSeq(buf[p], n + 1, Len(buf[p])) \in Seq(Field)
    BY Part
  <2>3. journal' \in Seq(Field) /\ buf' \in [Process -> Seq(Field)]
    BY <2>1, <2>2
  <2> QED BY <1>4, <2>3 DEF Write
<1>5. CASE Written(p)
  <2>1. CASE NeedsCompaction
    BY <1>5, <2>1, ZenonT(60) DEF Written
  <2>2. CASE ~NeedsCompaction
    <3>1. PICK next \in {"idle", "relocking"} :
             /\ phase[p] = "writing" /\ phase' = [phase EXCEPT ![p] = next] /\ lock' = Nobody
             /\ UNCHANGED <<journal, image, buf, tmp, look, bytes, recent, table, floor, straddled,
                            todo, rows, spoiled, forgotten>>
      BY <1>5, <2>2, Zenon DEF Written, AfterAppend
    <3> QED BY <3>1
  <2> QED BY <2>1, <2>2
<1>6. CASE BuildImage(p)
  <2>1. PICK old \in Reading(p, image), new \in Reading(p, ReadJournal(journal)) :
           /\ tmp' = [tmp EXCEPT ![p] = Over(new, old)]
           /\ forgotten' = forgotten \cup (Recorded \ Keys(Over(new, old)))
    BY <1>6 DEF BuildImage
  <2>2. old \in Map /\ new \in Map
    BY ReadTyped, NothingTyped DEF Reading
  <2>3. Over(new, old) \in Map /\ Recorded \subseteq Key
    BY <2>2, OverTyped DEF Recorded, Keys
  <2> QED BY <1>6, <2>1, <2>3 DEF BuildImage
<1>7. CASE Rename(p)
  BY <1>7 DEF Rename
<1>8. CASE Truncate(p)
  BY <1>8 DEF Truncate, AfterAppend
<1>9. CASE Fails(p)
  BY <1>9 DEF Fails, AfterAppend, Unlocked
<1>10. CASE Kill(p)
  BY <1>10 DEF Kill, Unlocked
<1> HIDE DEF Types, TodoInv, Alive, Move, Sections, Phases, storeVars, writeVars, readVars
<1> QED BY <1>1, <1>2, <1>3, <1>4, <1>5, <1>6, <1>7, <1>8, <1>9, <1>10, Zenon DEF Writer

LEMMA TypeStart == Init => Types /\ TodoInv
<1> SUFFICES ASSUME Init PROVE Types /\ TodoInv
  OBVIOUS
<1>1. [k \in Key |-> Miss] \in Map /\ Wants \in [Process -> SUBSET Key]
  BY CacheAssumption DEF Map
<1>2. /\ <<>> \in Seq(Field) /\ <<>> \in Seq(Key)
  OBVIOUS
<1> HIDE DEF Map
<1>3. /\ journal \in Seq(Field) /\ image \in Map /\ lock \in Process \cup {Nobody}
      /\ bytes \in [Process -> Seq(Field)] /\ recent \in [Process -> Map]
      /\ table \in [Process -> Map] /\ rows \in [Process -> Seq(Key)]
      /\ buf \in [Process -> Seq(Field)] /\ tmp \in [Process -> Map]
  BY <1>1, <1>2 DEF Init
<1>4. /\ look \in [Process -> Looks] /\ phase \in [Process -> Phases]
      /\ floor \in [Process -> SUBSET Key] /\ straddled \subseteq Process /\ spoiled \in BOOLEAN
      /\ forgotten \subseteq Key
  BY DEF Init, Looks, Phases
<1>5. \A p \in Process : lock = p <=> phase[p] \in Sections
  BY CacheAssumption DEF Init, Sections
<1>6. todo = Wants
  BY DEF Init
<1> QED BY <1>1, <1>3, <1>4, <1>5, <1>6 DEF Types, TodoInv

LEMMA TypeStep ==
    ASSUME Types, TodoInv, [Next]_vars
    PROVE  Types' /\ TodoInv'
<1>1. CASE Next
  BY <1>1, ReadTypes, ReadFailsTypes, WriterTypes DEF Next
<1>2. CASE UNCHANGED vars
  BY <1>2 DEF vars, storeVars, readVars, writeVars, Types, TodoInv
<1> QED BY <1>1, <1>2

(* Whatever is killed or fails, the cache keeps its types, and its flock is *)
(* with the one writer that is in a section.                                *)
THEOREM TypeCorrect == Spec => []TypeOK
  BY TypeStart, TypeStep, TypesAre, PTL DEF Spec

-----------------------------------------------------------------------------
(* What holds until the store is spoiled. *)

(* Fields that are records one after the other, the last one perhaps torn. *)
Regular(j) ==
    \A m \in 0..Len(j) :
        /\ 4*m + 1 <= Len(j) => j[4*m + 1] = Size
        /\ 4*m + 2 <= Len(j) => j[4*m + 2] = Size
        /\ 4*m + 3 <= Len(j) => j[4*m + 3] \in Key
        /\ 4*m + 4 <= Len(j) => j[4*m + 4] = Answer[j[4*m + 3]]

Whole(j) == Len(j) % 4 = 0 /\ Regular(j)

(* The keys of the records that are there in full. *)
Has(j) == {j[4*m + 3] : m \in 0..(Len(j) \div 4) - 1}

Starts(b, j) == Len(b) <= Len(j) /\ \A i \in 1..Len(b) : b[i] = j[i]

Sound(t) == \A k \in Keys(t) : t[k] = Answer[k]

StoreInv == Regular(journal) /\ Sound(image)

(* A batch is whole until it is begun; then it completes what it began. *)
BatchKept(p) ==
    /\ phase[p] = "locking" => Whole(buf[p])
    /\ phase[p] = "writing" => Whole(buf[p]) \/ Whole(journal \o buf[p])

(* What is recorded, and what was before a compaction could not read it.    *)
Held == Recorded \cup forgotten

(* The new image has all that is recorded, and the journal is redundant     *)
(* once it is in place, but for what is forgotten.                          *)
FoldKept(p) ==
    /\ phase[p] = "renaming" =>
          /\ Sound(tmp[p])
          /\ Keys(tmp[p]) \subseteq Recorded
          /\ Recorded \subseteq Keys(tmp[p]) \cup forgotten
    /\ phase[p] = "truncating" => Has(journal) \subseteq Keys(image) \cup forgotten

(* What a command reads was in the journal, and is held for good. *)
BytesKept(p) ==
    /\ Regular(bytes[p])
    /\ Has(bytes[p]) \subseteq Held
    /\ p \notin straddled => Starts(bytes[p], journal)
    /\ look[p] # "reading" => bytes[p] = <<>>
    /\ look[p] = "unread" => p \notin straddled

(* A command finds in the journal or in the image what was recorded before. *)
FindKept(p) ==
    /\ Sound(recent[p]) /\ Sound(table[p])
    /\ Keys(recent[p]) \subseteq Held
    /\ look[p] \in {"unread", "reading"} => Keys(recent[p]) = {}
    /\ look[p] # "mapped" => Keys(table[p]) = {}
    /\ look[p] = "reading" => floor[p] \subseteq Held
    /\ look[p] = "reading" /\ p \in straddled => floor[p] \subseteq Keys(image) \cup forgotten
    /\ look[p] = "read" => floor[p] \subseteq Keys(recent[p]) \cup Keys(image) \cup forgotten

Kept ==
    /\ StoreInv
    /\ \A p \in Process : BatchKept(p) /\ FoldKept(p) /\ BytesKept(p) /\ FindKept(p)

KeptInv == spoiled \/ Kept

-----------------------------------------------------------------------------
(* Records, and what is read of them. *)

LEMMA AnswersAre == \A k \in Key : Answer[k] \in Field /\ Answer[k] # Miss
  BY CacheAssumption DEF Field, Value

LEMMA IntactRegular ==
    ASSUME NEW j \in Seq(Field), Regular(j)
    PROVE  /\ Intact(j) = Len(j) \div 4
           /\ \A m \in 0..(Len(j) \div 4) - 1 : j[4*m + 3] \in Key /\ j[4*m + 4] = Answer[j[4*m + 3]]
<1> DEFINE N == Len(j) \div 4
<1>1. N \in Nat /\ 4 * N <= Len(j) /\ Len(j) \in Nat
  BY Quarters
<1>2. \A m \in 0..N - 1 : m \in 0..Len(j) /\ 4*m + 4 <= Len(j)
  BY <1>1
<1>3. \A m \in 0..N - 1 : /\ j[4*m + 1] = Size /\ j[4*m + 2] = Size
                          /\ j[4*m + 3] \in Key /\ j[4*m + 4] = Answer[j[4*m + 3]]
  <2> SUFFICES ASSUME NEW m \in 0..N - 1
               PROVE  /\ j[4*m + 1] = Size /\ j[4*m + 2] = Size
                      /\ j[4*m + 3] \in Key /\ j[4*m + 4] = Answer[j[4*m + 3]]
    OBVIOUS
  <2>1. m \in 0..Len(j) /\ 4*m + 1 <= Len(j) /\ 4*m + 2 <= Len(j) /\ 4*m + 3 <= Len(j) /\ 4*m + 4 <= Len(j)
    BY <1>1
  <2> HIDE DEF N
  <2> QED BY <2>1 DEF Regular
<1>4. Intact(j) \in 0..N /\ N <= Intact(j)
  BY <1>1, <1>3, IntactIs
<1> QED BY <1>1, <1>3, <1>4

(* A regular journal is read as it is: its records, each the answer. *)
LEMMA ReadRegular ==
    ASSUME NEW j \in Seq(Field), Regular(j)
    PROVE  /\ Has(j) \subseteq Key
           /\ \A k \in Key : ReadJournal(j)[k] = IF k \in Has(j) THEN Answer[k] ELSE Miss
           /\ Keys(ReadJournal(j)) = Has(j) /\ Sound(ReadJournal(j))
<1>1. /\ Intact(j) = Len(j) \div 4
      /\ \A m \in 0..Intact(j) - 1 : j[4*m + 3] \in Key /\ j[4*m + 4] = Answer[j[4*m + 3]]
  BY IntactRegular
<1>2. Has(j) = {j[4*m + 3] : m \in 0..Intact(j) - 1}
  BY <1>1 DEF Has
<1>3. Has(j) \subseteq Key
  BY <1>1, <1>2
<1>4. ASSUME NEW k \in Key
      PROVE  ReadJournal(j)[k] = IF k \in Has(j) THEN Answer[k] ELSE Miss
  <2>1. CASE /\ ReadJournal(j)[k] = Miss
             /\ \A m \in 0..Intact(j) - 1 : j[4*m + 3] # k
    BY <1>2, <2>1
  <2>2. CASE \E m \in 0..Intact(j) - 1 : j[4*m + 3] = k /\ ReadJournal(j)[k] = j[4*m + 4]
    BY <1>1, <1>2, <2>2
  <2> QED BY <2>1, <2>2, ReadIs
<1> QED BY <1>3, <1>4, AnswersAre DEF Keys, Sound

LEMMA OverIs ==
    ASSUME NEW a, NEW b
    PROVE  /\ Keys(Over(b, a)) = Keys(b) \cup Keys(a)
           /\ Sound(a) /\ Sound(b) => Sound(Over(b, a))
  BY DEF Keys, Sound, Over

LEMMA RecordedIs ==
    ASSUME NEW j \in Seq(Field), Regular(j), NEW a
    PROVE  Keys(Over(ReadJournal(j), a)) = Has(j) \cup Keys(a)
  BY ReadRegular, OverIs

LEMMA NothingIs == /\ Regular(<<>>) /\ Has(<<>>) = {}
                   /\ \A j \in Seq(Field) : Starts(<<>>, j)
<1>1. Len(<<>>) = 0 /\ 0 \div 4 = 0
  OBVIOUS
<1> QED BY <1>1 DEF Regular, Has, Starts

LEMMA StartsRegular ==
    ASSUME NEW j \in Seq(Field), NEW b \in Seq(Field), Starts(b, j), Regular(j)
    PROVE  Regular(b) /\ Has(b) \subseteq Has(j)
<1>1. Len(b) \in Nat /\ Len(j) \in Nat /\ Len(b) <= Len(j) /\ \A i \in 1..Len(b) : b[i] = j[i]
  BY DEF Starts
<1>2. ASSUME NEW m \in 0..Len(b)
      PROVE  /\ 4*m + 1 <= Len(b) => b[4*m + 1] = Size
             /\ 4*m + 2 <= Len(b) => b[4*m + 2] = Size
             /\ 4*m + 3 <= Len(b) => b[4*m + 3] \in Key
             /\ 4*m + 4 <= Len(b) => b[4*m + 4] = Answer[b[4*m + 3]]
  <2>1. m \in 0..Len(j)
    BY <1>1
  <2>2. /\ 4*m + 1 <= Len(j) => j[4*m + 1] = Size
        /\ 4*m + 2 <= Len(j) => j[4*m + 2] = Size
        /\ 4*m + 3 <= Len(j) => j[4*m + 3] \in Key
        /\ 4*m + 4 <= Len(j) => j[4*m + 4] = Answer[j[4*m + 3]]
    BY <2>1 DEF Regular
  <2>3. \A r \in 1..4 : 4*m + r <= Len(b) => 4*m + r <= Len(j) /\ b[4*m + r] = j[4*m + r]
    BY <1>1
  <2>4. 4*m + 4 <= Len(b) => 4*m + 3 <= Len(b)
    BY <1>1
  <2> QED BY <2>2, <2>3, <2>4
<1>3. Regular(b)
  BY <1>2 DEF Regular
<1>4. ASSUME NEW m \in 0..(Len(b) \div 4) - 1
      PROVE  m \in 0..(Len(j) \div 4) - 1 /\ b[4*m + 3] = j[4*m + 3]
  <2>1. Len(b) \div 4 \in Nat /\ 4 * (Len(b) \div 4) <= Len(b)
    BY <1>1, Quarters
  <2>2. Len(j) \div 4 \in Nat /\ Len(j) < 4 * (Len(j) \div 4) + 4
    BY <1>1, Quarters
  <2> QED BY <1>1, <2>1, <2>2
<1> QED BY <1>3, <1>4 DEF Has

LEMMA StartsTransitive ==
    ASSUME NEW a \in Seq(Field), NEW b \in Seq(Field), NEW c \in Seq(Field), Starts(a, b), Starts(b, c)
    PROVE  Starts(a, c)
<1>1. Len(a) \in Nat /\ Len(b) \in Nat /\ Len(c) \in Nat
  OBVIOUS
<1> QED BY <1>1 DEF Starts

LEMMA StartsAll ==
    ASSUME NEW b \in Seq(Field), NEW j \in Seq(Field), Starts(b, j), Len(b) >= Len(j)
    PROVE  b = j
<1>1. Len(b) = Len(j) /\ \A i \in 1..Len(b) : b[i] = j[i]
  BY DEF Starts
<1> QED BY <1>1, SeqEqual

LEMMA ConcatStarts ==
    ASSUME NEW j \in Seq(Field), NEW b \in Seq(Field)
    PROVE  Starts(j, j \o b)
<1>1. /\ Len(j \o b) = Len(j) + Len(b) /\ Len(j) \in Nat /\ Len(b) \in Nat
      /\ \A i \in 1 .. Len(j) + Len(b) : (j \o b)[i] = IF i <= Len(j) THEN j[i] ELSE b[i - Len(j)]
  BY ConcatProperties
<1> QED BY <1>1 DEF Starts

(* One more read goes on where the last one stopped. *)
LEMMA ReadStarts ==
    ASSUME NEW j \in Seq(Field), NEW b \in Seq(Field), Starts(b, j), NEW n \in Len(b) + 1 .. Len(j)
    PROVE  /\ b \o SubSeq(j, Len(b) + 1, n) \in Seq(Field)
           /\ Starts(b \o SubSeq(j, Len(b) + 1, n), j)
<1> DEFINE t == SubSeq(j, Len(b) + 1, n)
<1>1. Len(b) \in Nat /\ Len(j) \in Nat /\ n \in 0..Len(j) /\ Len(b) + 1 \in Nat \ {0} /\ Len(b) + 1 <= n
  OBVIOUS
<1>2. t \in Seq(Field) /\ Len(t) = n - Len(b) /\ \A i \in 1 .. n - Len(b) : t[i] = j[Len(b) + i]
  <2>1. /\ t \in Seq(Field)
        /\ Len(t) = IF Len(b) + 1 <= n THEN n - (Len(b) + 1) + 1 ELSE 0
        /\ \A i \in 1 .. n - (Len(b) + 1) + 1 : t[i] = j[Len(b) + 1 + i - 1]
    BY <1>1, Part
  <2> HIDE DEF t
  <2> QED BY <1>1, <2>1
<1> HIDE DEF t
<1>3. /\ b \o t \in Seq(Field) /\ Len(b \o t) = Len(b) + Len(t)
      /\ \A i \in 1 .. Len(b) + Len(t) : (b \o t)[i] = IF i <= Len(b) THEN b[i] ELSE t[i - Len(b)]
  BY <1>2, ConcatProperties
<1>4. ASSUME NEW i \in 1..n
      PROVE  (b \o t)[i] = j[i]
  <2>1. CASE i <= Len(b)
    BY <1>1, <1>2, <1>3, <2>1 DEF Starts
  <2>2. CASE i > Len(b)
    <3>1. i - Len(b) \in 1 .. n - Len(b) /\ Len(b) + (i - Len(b)) = i
      BY <1>1, <2>2
    <3>2. t[i - Len(b)] = j[i]
      BY <1>2, <3>1
    <3>3. (b \o t)[i] = t[i - Len(b)]
      BY <1>1, <1>2, <1>3, <2>2
    <3> QED BY <3>2, <3>3
  <2>3. i <= Len(b) \/ i > Len(b)
    BY <1>1
  <2> QED BY <2>1, <2>2, <2>3, Zenon
<1> QED BY <1>1, <1>2, <1>3, <1>4 DEF Starts, t

(* Whole records behind whole records. *)
LEMMA ConcatWhole ==
    ASSUME NEW j \in Seq(Field), NEW b \in Seq(Field), Whole(j), Whole(b)
    PROVE  Whole(j \o b)
<1> DEFINE s == j \o b
<1>1. /\ s \in Seq(Field) /\ Len(s) = Len(j) + Len(b) /\ Len(j) \in Nat /\ Len(b) \in Nat
      /\ \A i \in 1 .. Len(j) + Len(b) : s[i] = IF i <= Len(j) THEN j[i] ELSE b[i - Len(j)]
  BY ConcatProperties
<1> HIDE DEF s
<1>2. PICK q \in Nat : Len(j) = 4 * q
  BY <1>1 DEF Whole
<1>3. Len(s) % 4 = 0
  BY <1>1, SMTT(40) DEF Whole
<1>4. ASSUME NEW m \in 0..Len(s)
      PROVE  /\ 4*m + 1 <= Len(s) => s[4*m + 1] = Size
             /\ 4*m + 2 <= Len(s) => s[4*m + 2] = Size
             /\ 4*m + 3 <= Len(s) => s[4*m + 3] \in Key
             /\ 4*m + 4 <= Len(s) => s[4*m + 4] = Answer[s[4*m + 3]]
  <2>1. CASE m < q
    <3>1. m \in 0..Len(j) /\ \A r \in 1..4 : 4*m + r <= Len(j) /\ s[4*m + r] = j[4*m + r]
      BY <1>1, <1>2, <2>1
    <3> QED BY <3>1 DEF Whole, Regular
  <2>2. CASE m >= q
    <3> DEFINE x == m - q
    <3>1. /\ x \in 0..Len(s)
          /\ \A r \in 1..4 : 4*m + r <= Len(s) => 4*x + r <= Len(b) /\ s[4*m + r] = b[4*x + r]
      BY <1>1, <1>2, <2>2
    <3>2. 4*m + 1 <= Len(s) => x \in 0..Len(b)
      BY <1>1, <1>2, <2>2
    <3>3. /\ 4*m + 2 <= Len(s) => 4*m + 1 <= Len(s)
          /\ 4*m + 3 <= Len(s) => 4*m + 1 <= Len(s)
          /\ 4*m + 4 <= Len(s) => 4*m + 1 <= Len(s)
      BY <1>1
    <3>4. 4*m + 4 <= Len(s) => 4*m + 3 <= Len(s)
      BY <1>1
    <3> HIDE DEF x
    <3>5. x \in 0..Len(b) =>
              /\ 4*x + 1 <= Len(b) => b[4*x + 1] = Size
              /\ 4*x + 2 <= Len(b) => b[4*x + 2] = Size
              /\ 4*x + 3 <= Len(b) => b[4*x + 3] \in Key
              /\ 4*x + 4 <= Len(b) => b[4*x + 4] = Answer[b[4*x + 3]]
      <4>1. Regular(b)
        BY DEF Whole
      <4> QED BY <4>1 DEF Regular
    <3>6. /\ 4*m + 1 <= Len(s) => 4*x + 1 <= Len(b) /\ s[4*m + 1] = b[4*x + 1]
          /\ 4*m + 2 <= Len(s) => 4*x + 2 <= Len(b) /\ s[4*m + 2] = b[4*x + 2]
          /\ 4*m + 3 <= Len(s) => 4*x + 3 <= Len(b) /\ s[4*m + 3] = b[4*x + 3]
          /\ 4*m + 4 <= Len(s) => 4*x + 4 <= Len(b) /\ s[4*m + 4] = b[4*x + 4]
      BY <3>1
    <3> QED BY <3>2, <3>3, <3>4, <3>5, <3>6
  <2> QED BY <1>1, <2>1, <2>2
<1>5. Regular(s)
  BY <1>4 DEF Regular
<1> QED BY <1>3, <1>5 DEF Whole, s

LEMMA EncodeWhole ==
    ASSUME NEW ks \in Seq(Key)
    PROVE  Whole(Encode(ks))
<1> DEFINE e == Encode(ks)
<1>1. /\ Len(e) = 4 * Len(ks) /\ Len(ks) \in Nat
      /\ \A m \in 0..Len(ks) - 1 :
                /\ e[4*m + 1] = Size /\ e[4*m + 2] = Size
                /\ e[4*m + 3] = ks[m + 1] /\ e[4*m + 4] = Answer[ks[m + 1]]
  BY EncodeIs
<1>2. \A m \in 0..Len(ks) - 1 : ks[m + 1] \in Key
  BY <1>1
<1> HIDE DEF e
<1>3. \A m \in 0..Len(e), r \in 1..4 : 4*m + r <= Len(e) => m \in 0..Len(ks) - 1
  BY <1>1
<1>4. Regular(e)
  BY <1>1, <1>2, <1>3 DEF Regular
<1>5. Len(e) % 4 = 0
  BY <1>1
<1> QED BY <1>4, <1>5 DEF Whole, e

(* A write moves fields from the batch to the journal. *)
LEMMA Moves ==
    ASSUME NEW j \in Seq(Field), NEW b \in Seq(Field), NEW n \in 1..Len(b)
    PROVE  /\ j \o SubSeq(b, 1, n) \in Seq(Field)
           /\ SubSeq(b, n + 1, Len(b)) \in Seq(Field)
           /\ (j \o SubSeq(b, 1, n)) \o SubSeq(b, n + 1, Len(b)) = j \o b
<1> DEFINE h == SubSeq(b, 1, n)
           t == SubSeq(b, n + 1, Len(b))
<1>1. Len(b) \in Nat /\ Len(j) \in Nat /\ n \in Nat /\ 1 <= n /\ n <= Len(b)
  OBVIOUS
<1>2. h \in Seq(Field) /\ Len(h) = n /\ \A i \in 1..n : h[i] = b[i]
  <2>1. /\ h \in Seq(Field) /\ Len(h) = IF 1 <= n THEN n - 1 + 1 ELSE 0
        /\ \A i \in 1 .. n - 1 + 1 : h[i] = b[1 + i - 1]
    BY <1>1, Part
  <2> HIDE DEF h
  <2> QED BY <1>1, <2>1
<1>3. t \in Seq(Field) /\ Len(t) = Len(b) - n /\ \A i \in 1 .. Len(b) - n : t[i] = b[n + i]
  <2>1. /\ t \in Seq(Field) /\ Len(t) = IF n + 1 <= Len(b) THEN Len(b) - (n + 1) + 1 ELSE 0
        /\ \A i \in 1 .. Len(b) - (n + 1) + 1 : t[i] = b[n + 1 + i - 1]
    BY <1>1, Part
  <2> HIDE DEF t
  <2> QED BY <1>1, <2>1
<1> HIDE DEF h, t
<1>4. /\ j \o h \in Seq(Field) /\ Len(j \o h) = Len(j) + n
      /\ \A i \in 1 .. Len(j) + n : (j \o h)[i] = IF i <= Len(j) THEN j[i] ELSE h[i - Len(j)]
  BY <1>2, ConcatProperties
<1>5. /\ (j \o h) \o t \in Seq(Field) /\ Len((j \o h) \o t) = Len(j) + Len(b)
      /\ \A i \in 1 .. Len(j) + Len(b) :
            ((j \o h) \o t)[i] = IF i <= Len(j) + n THEN (j \o h)[i] ELSE t[i - (Len(j) + n)]
  <2> DEFINE g == j \o h
  <2>1. g \in Seq(Field) /\ Len(g) = Len(j) + n /\ Len(g) + Len(t) = Len(j) + Len(b)
    BY <1>1, <1>3, <1>4
  <2> HIDE DEF g
  <2>2. /\ g \o t \in Seq(Field) /\ Len(g \o t) = Len(g) + Len(t)
        /\ \A i \in 1 .. Len(g) + Len(t) : (g \o t)[i] = IF i <= Len(g) THEN g[i] ELSE t[i - Len(g)]
    BY <1>3, <2>1, ConcatProperties
  <2>3. /\ g \o t \in Seq(Field) /\ Len(g \o t) = Len(j) + Len(b)
        /\ \A i \in 1 .. Len(j) + Len(b) : (g \o t)[i] = IF i <= Len(j) + n THEN g[i] ELSE t[i - (Len(j) + n)]
    BY <2>1, <2>2
  <2> QED BY <2>3 DEF g
<1>6. /\ j \o b \in Seq(Field) /\ Len(j \o b) = Len(j) + Len(b)
      /\ \A i \in 1 .. Len(j) + Len(b) : (j \o b)[i] = IF i <= Len(j) THEN j[i] ELSE b[i - Len(j)]
  BY ConcatProperties
<1>7. ASSUME NEW i \in 1 .. Len(j) + Len(b)
      PROVE  ((j \o h) \o t)[i] = (j \o b)[i]
  <2>1. CASE i <= Len(j)
    BY <1>1, <1>4, <1>5, <1>6, <2>1
  <2>2. CASE i > Len(j) /\ i <= Len(j) + n
    <3>1. i - Len(j) \in 1..n
      BY <1>1, <2>2
    <3> QED BY <1>1, <1>2, <1>4, <1>5, <1>6, <2>2, <3>1
  <2>3. CASE i > Len(j) + n
    <3>1. i - (Len(j) + n) \in 1 .. Len(b) - n /\ n + (i - (Len(j) + n)) = i - Len(j)
      BY <1>1, <2>3
    <3>2. t[i - (Len(j) + n)] = b[i - Len(j)]
      BY <1>3, <3>1
    <3>3. ((j \o h) \o t)[i] = t[i - (Len(j) + n)] /\ (j \o b)[i] = b[i - Len(j)]
      BY <1>1, <1>5, <1>6, <2>3, SMTT(40)
    <3> QED BY <3>2, <3>3
  <2>4. i <= Len(j) \/ (i > Len(j) /\ i <= Len(j) + n) \/ i > Len(j) + n
    BY <1>1
  <2> QED BY <2>1, <2>2, <2>3, <2>4, Zenon
<1>8. (j \o h) \o t = j \o b
  BY <1>5, <1>6, <1>7, SeqEqual
<1> QED BY <1>3, <1>4, <1>8 DEF h, t

-----------------------------------------------------------------------------
(* The steps of a command that reads. *)

LEMMA RecordedNow ==
    ASSUME Types, StoreInv
    PROVE  /\ Recorded = Has(journal) \cup Keys(image)
           /\ Keys(ReadJournal(journal)) = Has(journal) /\ Sound(ReadJournal(journal))
  BY RecordedIs, ReadRegular DEF Types, StoreInv, Recorded

(* A reader leaves the files, the batches and the others' snapshots alone. *)
LEMMA ReadLeaves ==
    ASSUME Types, NEW p \in Process, Read(p) \/ ReadFails(p)
    PROVE  /\ UNCHANGED <<journal, image, phase, buf, tmp, straddled, forgotten>>
           /\ Recorded' = Recorded
           /\ \A q \in Process \ {p} : /\ look'[q] = look[q] /\ bytes'[q] = bytes[q] /\ recent'[q] = recent[q]
                                       /\ table'[q] = table[q] /\ floor'[q] = floor[q]
<1>1. CASE OpenJournal(p)
  <2>1. UNCHANGED <<journal, image, phase, buf, tmp, bytes, recent, table, straddled, forgotten>>
    BY <1>1 DEF OpenJournal, storeVars, writeVars
  <2>2. look' = [look EXCEPT ![p] = "reading"] /\ floor' = [floor EXCEPT ![p] = Recorded]
    BY <1>1 DEF OpenJournal
  <2> QED BY <2>1, <2>2 DEF Types, Recorded
<1>2. CASE ReadSome(p)
  <2>1. UNCHANGED <<journal, image, phase, buf, tmp, look, recent, table, floor, straddled, forgotten>>
    BY <1>2 DEF ReadSome, storeVars, writeVars
  <2>2. PICK b : bytes' = [bytes EXCEPT ![p] = b]
    BY <1>2 DEF ReadSome
  <2> QED BY <2>1, <2>2 DEF Types, Recorded
<1>3. CASE ReadEnd(p)
  <2>1. UNCHANGED <<journal, image, phase, buf, tmp, table, floor, straddled, forgotten>>
    BY <1>3 DEF ReadEnd, storeVars, writeVars
  <2>2. /\ look' = [look EXCEPT ![p] = "read"] /\ bytes' = [bytes EXCEPT ![p] = <<>>]
        /\ recent' = [recent EXCEPT ![p] = ReadJournal(bytes[p])]
    BY <1>3 DEF ReadEnd
  <2> QED BY <2>1, <2>2 DEF Types, Recorded
<1>4. CASE MapBase(p)
  <2>1. UNCHANGED <<journal, image, phase, buf, tmp, bytes, recent, floor, straddled, forgotten>>
    BY <1>4 DEF MapBase, storeVars, writeVars
  <2>2. look' = [look EXCEPT ![p] = "mapped"] /\ table' = [table EXCEPT ![p] = image]
    BY <1>4 DEF MapBase
  <2> QED BY <2>1, <2>2 DEF Types, Recorded
<1>5. ASSUME NEW k \in Key, Get(p, k)
      PROVE  UNCHANGED <<journal, image, phase, buf, tmp, look, bytes, recent, table, floor, straddled,
                         forgotten>>
  BY <1>5 DEF Get, storeVars, writeVars, readVars
<1>6. CASE \E k \in Key : Get(p, k)
  BY <1>5, <1>6 DEF Recorded
<1>7. CASE JournalFails(p)
  <2>1. UNCHANGED <<journal, image, phase, buf, tmp, recent, table, straddled, forgotten>>
    BY <1>7 DEF JournalFails, storeVars, writeVars
  <2>2. /\ look' = [look EXCEPT ![p] = "read"] /\ bytes' = [bytes EXCEPT ![p] = <<>>]
        /\ floor' = [floor EXCEPT ![p] = {}]
    BY <1>7 DEF JournalFails
  <2> QED BY <2>1, <2>2 DEF Types, Recorded
<1>8. CASE ImageFails(p)
  <2>1. UNCHANGED <<journal, image, phase, buf, tmp, bytes, recent, table, straddled, forgotten>>
    BY <1>8 DEF ImageFails, storeVars, writeVars
  <2>2. look' = [look EXCEPT ![p] = "mapped"] /\ floor' = [floor EXCEPT ![p] = {}]
    BY <1>8 DEF ImageFails
  <2> QED BY <2>1, <2>2 DEF Types, Recorded
<1> QED BY <1>1, <1>2, <1>3, <1>4, <1>6, <1>7, <1>8 DEF Read, ReadFails

LEMMA ReadKept ==
    ASSUME Types, Kept, NEW p \in Process, Read(p) \/ ReadFails(p), ~spoiled'
    PROVE  Kept'
<1>1. /\ UNCHANGED <<journal, image, phase, buf, tmp, straddled, forgotten>>
      /\ Recorded' = Recorded /\ Held' = Held
      /\ \A q \in Process \ {p} : /\ look'[q] = look[q] /\ bytes'[q] = bytes[q] /\ recent'[q] = recent[q]
                                  /\ table'[q] = table[q] /\ floor'[q] = floor[q]
  BY ReadLeaves DEF Held
<1>2. StoreInv'
  BY <1>1 DEF StoreInv, Kept
<1>3. \A q \in Process : BatchKept(q)' /\ FoldKept(q)'
  BY <1>1 DEF Kept, BatchKept, FoldKept
<1>4. \A q \in Process \ {p} : BytesKept(q)' /\ FindKept(q)'
  BY <1>1 DEF Kept, BytesKept, FindKept
<1>5. /\ bytes[p] \in Seq(Field) /\ journal \in Seq(Field) /\ Regular(journal) /\ Sound(image)
      /\ look[p] \in Looks
      /\ Recorded = Has(journal) \cup Keys(image) /\ Held = Recorded \cup forgotten
      /\ BytesKept(p) /\ FindKept(p)
  BY RecordedNow DEF Types, Kept, StoreInv, Held
<1>6. ASSUME OpenJournal(p)
      PROVE  BytesKept(p)' /\ FindKept(p)'
  <2>1. /\ look[p] = "unread" /\ look'[p] = "reading" /\ floor'[p] = Recorded
        /\ UNCHANGED <<bytes, recent, table>>
    BY <1>6 DEF OpenJournal, Types
  <2>2. BytesKept(p)'
    BY <1>1, <1>5, <2>1 DEF BytesKept
  <2>3. FindKept(p)'
    BY <1>1, <1>5, <2>1 DEF FindKept, BytesKept
  <2> QED BY <2>2, <2>3
<1>7. ASSUME ReadSome(p)
      PROVE  BytesKept(p)' /\ FindKept(p)'
  <2>1. p \notin straddled /\ look[p] = "reading" /\ UNCHANGED <<look, recent, table, floor>>
    BY <1>7 DEF ReadSome
  <2>2. PICK n \in Len(bytes[p]) + 1 .. Len(journal) :
           bytes' = [bytes EXCEPT ![p] = @ \o SubSeq(journal, Len(@) + 1, n)]
    BY <1>7 DEF ReadSome
  <2> DEFINE b == bytes[p] \o SubSeq(journal, Len(bytes[p]) + 1, n)
  <2>3. bytes'[p] = b
    BY <2>2 DEF Types
  <2>4. b \in Seq(Field) /\ Starts(b, journal)
    BY <1>5, <2>1, ReadStarts DEF BytesKept
  <2> HIDE DEF b
  <2>5. Regular(b) /\ Has(b) \subseteq Has(journal)
    BY <1>5, <2>4, StartsRegular
  <2>6. BytesKept(p)'
    BY <1>1, <1>5, <2>1, <2>3, <2>4, <2>5 DEF BytesKept
  <2>7. FindKept(p)'
    BY <1>1, <1>5, <2>1 DEF FindKept
  <2> QED BY <2>6, <2>7
<1>8. ASSUME ReadEnd(p)
      PROVE  BytesKept(p)' /\ FindKept(p)'
  <2>1. /\ look[p] = "reading" /\ look'[p] = "read" /\ bytes'[p] = <<>>
        /\ recent'[p] = ReadJournal(bytes[p]) /\ Len(bytes[p]) >= Len(journal)
        /\ UNCHANGED <<table, floor>>
    BY <1>8 DEF ReadEnd, Types
  <2>2. Keys(recent'[p]) = Has(bytes[p]) /\ Sound(recent'[p])
    BY <1>5, <2>1, ReadRegular DEF BytesKept
  <2>3. p \notin straddled => bytes[p] = journal
    BY <1>5, <2>1, StartsAll DEF BytesKept
  <2>4. floor[p] \subseteq Has(bytes[p]) \cup Keys(image) \cup forgotten
    BY <1>5, <2>1, <2>3 DEF FindKept
  <2>5. BytesKept(p)'
    BY <1>1, <1>5, <2>1, NothingIs DEF BytesKept
  <2>6. FindKept(p)'
    BY <1>1, <1>5, <2>1, <2>2, <2>4 DEF FindKept, BytesKept
  <2> QED BY <2>5, <2>6
<1>9. ASSUME MapBase(p)
      PROVE  BytesKept(p)' /\ FindKept(p)'
  <2>1. look[p] = "read" /\ look'[p] = "mapped" /\ table'[p] = image /\ UNCHANGED <<bytes, recent, floor>>
    BY <1>9 DEF MapBase, Types
  <2>2. BytesKept(p)'
    BY <1>1, <1>5, <2>1 DEF BytesKept
  <2>3. FindKept(p)'
    BY <1>1, <1>5, <2>1 DEF FindKept
  <2> QED BY <2>2, <2>3
<1>10. ASSUME NEW k \in Key, Get(p, k)
       PROVE  BytesKept(p)' /\ FindKept(p)'
  <2>1. UNCHANGED <<look, bytes, recent, table, floor>>
    BY <1>10 DEF Get, readVars
  <2> QED BY <1>1, <1>5, <2>1 DEF BytesKept, FindKept
<1>11. ASSUME JournalFails(p)
       PROVE  BytesKept(p)' /\ FindKept(p)'
  <2>1. /\ look[p] \in {"unread", "reading"} /\ look'[p] = "read" /\ bytes'[p] = <<>> /\ floor'[p] = {}
        /\ UNCHANGED <<recent, table>>
    BY <1>11 DEF JournalFails, Types
  <2>2. BytesKept(p)'
    BY <1>1, <1>5, <2>1, NothingIs DEF BytesKept
  <2>3. FindKept(p)'
    BY <1>1, <1>5, <2>1 DEF FindKept
  <2> QED BY <2>2, <2>3
<1>12. ASSUME ImageFails(p)
       PROVE  BytesKept(p)' /\ FindKept(p)'
  <2>1. look[p] = "read" /\ look'[p] = "mapped" /\ floor'[p] = {} /\ UNCHANGED <<bytes, recent, table>>
    BY <1>12 DEF ImageFails, Types
  <2> QED BY <1>1, <1>5, <2>1 DEF BytesKept, FindKept
<1>13. BytesKept(p)' /\ FindKept(p)'
  BY <1>6, <1>7, <1>8, <1>9, <1>10, <1>11, <1>12 DEF Read, ReadFails
<1> QED BY <1>2, <1>3, <1>4, <1>13 DEF Kept

-----------------------------------------------------------------------------
(* The steps of a writer, and its faults. *)

(* What a writer does to its own batch and to its own image only. *)
Own(p) ==
    /\ UNCHANGED <<look, bytes, recent, table, floor>>
    /\ \A q \in Process \ {p} : phase'[q] = phase[q] /\ buf'[q] = buf[q] /\ tmp'[q] = tmp[q]

LEMMA WriterOwn ==
    ASSUME Types, NEW p \in Process, Writer(p) \/ Fails(p) \/ Kill(p)
    PROVE  Own(p)
<1> USE DEF Types, Own, Move, storeVars, readVars, writeVars
<1>1. CASE TakeBatch(p)
  BY <1>1 DEF TakeBatch
<1>2. CASE Import(p)
  BY <1>2 DEF Import
<1>3. CASE Lock(p)
  BY <1>3 DEF Lock
<1>4. CASE Write(p)
  <2>1. UNCHANGED <<look, bytes, recent, table, floor, phase, tmp>> /\ \E b : buf' = [buf EXCEPT ![p] = b]
    BY <1>4 DEF Write
  <2> QED BY <2>1
<1>5. CASE Written(p)
  <2>1. UNCHANGED <<look, bytes, recent, table, floor, buf, tmp>> /\ \E h : phase' = [phase EXCEPT ![p] = h]
    BY <1>5 DEF Written
  <2> QED BY <2>1
<1>6. CASE BuildImage(p)
  BY <1>6 DEF BuildImage
<1>7. CASE Rename(p)
  BY <1>7 DEF Rename
<1>8. CASE Truncate(p)
  BY <1>8 DEF Truncate
<1>9. CASE Fails(p)
  BY <1>9 DEF Fails
<1>10. CASE Kill(p)
  BY <1>10 DEF Kill
<1> HIDE DEF Types, Own, Move, storeVars, readVars, writeVars
<1> QED BY <1>1, <1>2, <1>3, <1>4, <1>5, <1>6, <1>7, <1>8, <1>9, <1>10, Zenon DEF Writer

(* Only one writer is in a section, and only there are the files touched. *)
LEMMA Alone ==
    ASSUME Types, NEW p \in Process, phase[p] \in Sections, NEW q \in Process \ {p}
    PROVE  phase[q] \notin Sections
  BY DEF Types

Quiet(p) ==
    \/ TakeBatch(p) \/ Import(p) \/ Lock(p) \/ Written(p) \/ BuildImage(p) \/ Fails(p) \/ Kill(p)

LEMMA QuietLeaves ==
    ASSUME Types, NEW p \in Process, Quiet(p)
    PROVE  /\ UNCHANGED <<journal, image, straddled>> /\ Recorded' = Recorded
           /\ Held' = Held /\ forgotten \subseteq forgotten'
<1>1. UNCHANGED <<journal, image, straddled>>
  BY Zenon DEF Quiet, TakeBatch, Import, Lock, Written, BuildImage, Fails, Kill, storeVars, readVars
<1>2. Recorded' = Recorded
  BY <1>1 DEF Recorded
<1>3. \E S \in SUBSET Recorded : forgotten' = forgotten \cup S
  <2>1. CASE BuildImage(p)
    <3>1. PICK old, new : forgotten' = forgotten \cup (Recorded \ Keys(Over(new, old)))
      BY <2>1 DEF BuildImage
    <3>2. Recorded \ Keys(Over(new, old)) \in SUBSET Recorded
      OBVIOUS
    <3> QED BY <3>1, <3>2
  <2>2. CASE forgotten' = forgotten
    <3>1. forgotten' = forgotten \cup {} /\ {} \in SUBSET Recorded
      BY <2>2
    <3> QED BY <3>1
  <2>3. BuildImage(p) \/ forgotten' = forgotten
    BY Zenon DEF Quiet, TakeBatch, Import, Lock, Written, Fails, Kill
  <2> QED BY <2>1, <2>2, <2>3
<1> QED BY <1>1, <1>2, <1>3 DEF Held

LEMMA QuietKept ==
    ASSUME Types, TodoInv, Kept, NEW p \in Process, Quiet(p)
    PROVE  Kept'
<1>1. /\ UNCHANGED <<journal, image, straddled>> /\ Recorded' = Recorded
      /\ Held' = Held /\ forgotten \subseteq forgotten'
  BY QuietLeaves
<1>2. Own(p)
  BY WriterOwn, Zenon DEF Quiet, Writer
<1>3. StoreInv'
  BY <1>1 DEF Kept, StoreInv
<1>4. \A q \in Process : BytesKept(q)' /\ FindKept(q)'
  BY <1>1, <1>2 DEF Own, Kept, BytesKept, FindKept
<1>5. \A q \in Process \ {p} : BatchKept(q)' /\ FoldKept(q)'
  BY <1>1, <1>2 DEF Own, Kept, BatchKept, FoldKept
<1>6. BatchKept(p) /\ FoldKept(p) /\ StoreInv
  BY DEF Kept
<1>7. ASSUME TakeBatch(p)
      PROVE  BatchKept(p)' /\ FoldKept(p)'
  <2>1. phase'[p] = "locking" /\ buf'[p] = Encode(rows[p]) /\ rows[p] \in Seq(Key)
    BY <1>7 DEF TakeBatch, Move, Types
  <2>2. Whole(Encode(rows[p]))
    BY <2>1, EncodeWhole
  <2> QED BY <2>1, <2>2 DEF BatchKept, FoldKept
<1>8. ASSUME Import(p)
      PROVE  BatchKept(p)' /\ FoldKept(p)'
  <2>1. phase'[p] = "locking" /\ buf'[p] = Encode(SetToSeq(todo[p])) /\ todo[p] \in SUBSET Key /\ p \in Importer
    BY <1>8 DEF Import, Move, Types
  <2>2. SetToSeq(todo[p]) \in Seq(Key)
    <3>1. IsFiniteSet(todo[p])
      BY <2>1, CacheAssumption, FS_Subset DEF TodoInv
    <3> QED BY <2>1, <3>1, SetToSeqTyped
  <2>3. Whole(Encode(SetToSeq(todo[p])))
    BY <2>2, EncodeWhole
  <2> QED BY <2>1, <2>3 DEF BatchKept, FoldKept
<1>9. ASSUME Lock(p)
      PROVE  BatchKept(p)' /\ FoldKept(p)'
  <2>1. buf' = buf /\ \/ phase[p] = "locking" /\ phase'[p] = "writing"
                      \/ phase'[p] = "compacting"
    BY <1>9 DEF Lock, Move, Types
  <2> QED BY <1>6, <2>1 DEF BatchKept, FoldKept
<1>10. ASSUME Written(p)
       PROVE  BatchKept(p)' /\ FoldKept(p)'
  <2>1. phase'[p] \in {"compacting", "idle", "relocking"}
    BY <1>10, Zenon DEF Written, Move, AfterAppend, Types
  <2> QED BY <2>1 DEF BatchKept, FoldKept
<1>11. ASSUME BuildImage(p)
       PROVE  BatchKept(p)' /\ FoldKept(p)'
  <2>1. PICK old \in Reading(p, image), new \in Reading(p, ReadJournal(journal)) :
           /\ tmp' = [tmp EXCEPT ![p] = Over(new, old)]
           /\ forgotten' = forgotten \cup (Recorded \ Keys(Over(new, old)))
    BY <1>11 DEF BuildImage
  <2>2. phase'[p] = "renaming" /\ tmp'[p] = Over(new, old)
    BY <1>11, <2>1 DEF BuildImage, Move, Types
  <2>3. Sound(Nothing) /\ Keys(Nothing) = {}
    BY NothingTyped DEF Sound
  <2>4. Keys(tmp'[p]) \subseteq Recorded /\ Sound(tmp'[p])
    <3>1. Keys(old) \subseteq Keys(image) /\ Sound(old)
      BY <1>6, <2>3 DEF Reading, StoreInv
    <3>2. Keys(new) \subseteq Has(journal) /\ Sound(new)
      BY <1>6, <2>3, RecordedNow DEF Reading
    <3>3. Keys(Over(new, old)) = Keys(new) \cup Keys(old) /\ Sound(Over(new, old))
      BY <3>1, <3>2, OverIs
    <3> QED BY <1>6, <2>2, <3>1, <3>2, <3>3, RecordedNow
  <2>5. Recorded \subseteq Keys(tmp'[p]) \cup forgotten'
    BY <2>1, <2>2
  <2> QED BY <1>1, <2>2, <2>4, <2>5 DEF BatchKept, FoldKept
<1>12. ASSUME Fails(p) \/ Kill(p)
       PROVE  BatchKept(p)' /\ FoldKept(p)'
  <2>1. phase'[p] \in {"dead", "idle", "relocking"}
    BY <1>12 DEF Fails, Kill, AfterAppend, Types
  <2> QED BY <2>1 DEF BatchKept, FoldKept
<1>13. BatchKept(p)' /\ FoldKept(p)'
  BY <1>7, <1>8, <1>9, <1>10, <1>11, <1>12 DEF Quiet
<1> QED BY <1>3, <1>4, <1>5, <1>13 DEF Kept

(* An append adds fields, and what was recorded stays recorded. *)
LEMMA WriteKept ==
    ASSUME Types, Kept, NEW p \in Process, Write(p), ~spoiled'
    PROVE  Kept' /\ Recorded \subseteq Recorded' /\ UNCHANGED <<image, forgotten>>
<1>1. PICK n \in 1..Len(buf[p]) :
         /\ journal' = journal \o SubSeq(buf[p], 1, n)
         /\ buf' = [buf EXCEPT ![p] = SubSeq(@, n + 1, Len(@))]
  BY DEF Write
<1>2. /\ phase[p] = "writing" /\ UNCHANGED <<image, phase, tmp, straddled, forgotten>>
      /\ ~ (TornTail /\ Len(buf[p]) % 4 = 0)
  BY DEF Write, readVars
<1>3. Own(p)
  BY WriterOwn DEF Writer
<1>4. /\ journal \in Seq(Field) /\ buf[p] \in Seq(Field) /\ Regular(journal) /\ Sound(image)
      /\ BatchKept(p)
  BY DEF Types, Kept, StoreInv
<1>5. /\ journal' \in Seq(Field) /\ SubSeq(buf[p], 1, n) \in Seq(Field)
      /\ journal' \o SubSeq(buf[p], n + 1, Len(buf[p])) = journal \o buf[p]
      /\ SubSeq(buf[p], n + 1, Len(buf[p])) \in Seq(Field)
  <2>1. SubSeq(buf[p], 1, n) \in Seq(Field)
    <3>1. n \in 0..Len(buf[p]) /\ 1 \in Nat \ {0}
      BY <1>4
    <3> QED BY <1>4, <3>1, Part
  <2> QED BY <1>1, <1>4, <2>1, Moves
<1>6. Whole(journal \o buf[p])
  <2>1. CASE TornTail
    BY <1>2, <1>4, <2>1 DEF BatchKept, Whole
  <2>2. CASE ~TornTail
    <3>1. Len(journal) % 4 = 0
      <4>1. Intact(journal) = Len(journal) \div 4 /\ Len(journal) \in Nat
        BY <1>4, IntactRegular
      <4>2. 4 * (Len(journal) \div 4) = Len(journal)
        BY <2>2, <4>1 DEF TornTail
      <4> QED BY <4>1, <4>2
    <3>2. Whole(journal)
      BY <1>4, <3>1 DEF Whole
    <3> QED BY <1>2, <1>4, <3>2, ConcatWhole DEF BatchKept
  <2> QED BY <2>1, <2>2
<1>7. Starts(journal, journal') /\ Regular(journal')
  <2>1. Starts(journal, journal')
    BY <1>1, <1>4, <1>5, ConcatStarts
  <2>2. Starts(journal', journal \o buf[p])
    BY <1>5, ConcatStarts
  <2>3. Regular(journal')
    <3>1. journal \o buf[p] \in Seq(Field) /\ Regular(journal \o buf[p])
      BY <1>4, <1>6 DEF Whole
    <3> QED BY <1>5, <2>2, <3>1, StartsRegular
  <2> QED BY <2>1, <2>3
<1>8. Recorded \subseteq Recorded' /\ Held \subseteq Held' /\ StoreInv'
  <2>1. Recorded = Has(journal) \cup Keys(image) /\ Recorded' = Has(journal') \cup Keys(image')
    BY <1>4, <1>5, <1>7, RecordedIs DEF Recorded
  <2>2. Has(journal) \subseteq Has(journal')
    BY <1>4, <1>5, <1>7, StartsRegular
  <2> QED BY <1>2, <1>4, <1>7, <2>1, <2>2 DEF StoreInv, Held
<1>9. \A q \in Process \ {p} : BatchKept(q)' /\ FoldKept(q)'
  <2> SUFFICES ASSUME NEW q \in Process \ {p}
               PROVE  BatchKept(q)' /\ FoldKept(q)'
    OBVIOUS
  <2>1. phase[q] \notin Sections
    BY <1>2, Alone DEF Sections
  <2>2. BatchKept(q) /\ phase'[q] = phase[q] /\ buf'[q] = buf[q]
    BY <1>3 DEF Own, Kept
  <2> QED BY <2>1, <2>2 DEF BatchKept, FoldKept, Sections
<1>10. BatchKept(p)' /\ FoldKept(p)'
  <2>1. buf'[p] = SubSeq(buf[p], n + 1, Len(buf[p])) /\ phase'[p] = "writing"
    BY <1>1, <1>2 DEF Types
  <2> QED BY <1>5, <1>6, <2>1 DEF BatchKept, FoldKept
<1>11. \A q \in Process : BytesKept(q)' /\ FindKept(q)'
  <2> SUFFICES ASSUME NEW q \in Process
               PROVE  BytesKept(q)' /\ FindKept(q)'
    OBVIOUS
  <2>1. BytesKept(q) /\ FindKept(q) /\ bytes[q] \in Seq(Field) /\ UNCHANGED <<look, bytes, recent, table, floor>>
    BY <1>3 DEF Kept, Types, Own
  <2>2. Starts(bytes[q], journal) => Starts(bytes[q], journal')
    BY <1>4, <1>5, <1>7, <2>1, StartsTransitive
  <2>3. BytesKept(q)'
    BY <1>2, <1>8, <2>1, <2>2 DEF BytesKept
  <2>4. FindKept(q)'
    BY <1>2, <1>8, <2>1 DEF FindKept
  <2> QED BY <2>3, <2>4
<1> QED BY <1>2, <1>8, <1>9, <1>10, <1>11 DEF Kept

(* The new image comes in with everything that is recorded, but for what is *)
(* forgotten.                                                               *)
LEMMA RenameKept ==
    ASSUME Types, Kept, NEW p \in Process, Rename(p)
    PROVE  Kept' /\ Recorded' \subseteq Recorded /\ Held' = Held /\ forgotten' = forgotten
<1>1. /\ phase[p] = "renaming" /\ phase'[p] = "truncating" /\ image' = tmp[p]
      /\ UNCHANGED <<journal, buf, tmp, straddled, forgotten>>
  BY DEF Rename, Move, Types, readVars
<1>2. Own(p)
  BY WriterOwn DEF Writer
<1>3. /\ journal \in Seq(Field) /\ Regular(journal) /\ Sound(tmp[p])
      /\ Keys(tmp[p]) \subseteq Recorded /\ Recorded \subseteq Keys(tmp[p]) \cup forgotten
  BY <1>1 DEF Types, Kept, StoreInv, FoldKept
<1>4. /\ Recorded = Has(journal) \cup Keys(image) /\ Recorded' = Has(journal) \cup Keys(image')
  BY <1>1, <1>3, RecordedIs DEF Recorded
<1>5. /\ Recorded' \subseteq Recorded /\ Held' = Held
      /\ Keys(image') \subseteq Recorded /\ Recorded \subseteq Keys(image') \cup forgotten
  BY <1>1, <1>3, <1>4 DEF Held
<1>6. StoreInv'
  BY <1>1, <1>3 DEF StoreInv
<1>7. \A q \in Process \ {p} : BatchKept(q)' /\ FoldKept(q)'
  <2> SUFFICES ASSUME NEW q \in Process \ {p}
               PROVE  BatchKept(q)' /\ FoldKept(q)'
    OBVIOUS
  <2>1. phase[q] \notin Sections
    BY <1>1, Alone DEF Sections
  <2>2. BatchKept(q) /\ phase'[q] = phase[q] /\ buf'[q] = buf[q]
    BY <1>2 DEF Own, Kept
  <2> QED BY <2>1, <2>2 DEF BatchKept, FoldKept, Sections
<1>8. BatchKept(p)' /\ FoldKept(p)'
  BY <1>1, <1>4, <1>5 DEF BatchKept, FoldKept
<1>9. \A q \in Process : BytesKept(q)' /\ FindKept(q)'
  <2> SUFFICES ASSUME NEW q \in Process
               PROVE  BytesKept(q)' /\ FindKept(q)'
    OBVIOUS
  <2>1. BytesKept(q) /\ FindKept(q) /\ UNCHANGED <<look, bytes, recent, table, floor>>
    BY <1>2 DEF Kept, Own
  <2>2. BytesKept(q)'
    BY <1>1, <1>5, <2>1 DEF BytesKept
  <2>3. FindKept(q)'
    BY <1>1, <1>4, <1>5, <2>1 DEF FindKept, Held
  <2> QED BY <2>2, <2>3
<1> QED BY <1>1, <1>5, <1>6, <1>7, <1>8, <1>9 DEF Kept

(* The journal is emptied when the image has all of it. *)
LEMMA TruncateKept ==
    ASSUME Types, Kept, NEW p \in Process, Truncate(p)
    PROVE  Kept' /\ Recorded' \subseteq Recorded /\ Held' = Held /\ forgotten' = forgotten
<1>1. /\ phase[p] = "truncating" /\ phase'[p] \in {"idle", "relocking"} /\ journal' = <<>>
      /\ straddled' = straddled \cup {q \in Process : bytes[q] # <<>>} /\ UNCHANGED <<image, buf, tmp, forgotten>>
  BY DEF Truncate, Move, AfterAppend, Types
<1>2. Own(p)
  BY WriterOwn DEF Writer
<1>3. /\ journal \in Seq(Field) /\ Regular(journal) /\ Sound(image) /\ Has(journal) \subseteq Keys(image) \cup forgotten
      /\ <<>> \in Seq(Field) /\ Regular(<<>>) /\ Has(<<>>) = {}
  BY <1>1, NothingIs DEF Types, Kept, StoreInv, FoldKept
<1>4. Recorded' = Keys(image) /\ Recorded' \subseteq Recorded /\ Held' = Held /\ Held = Keys(image) \cup forgotten
  <2>1. Recorded = Has(journal) \cup Keys(image)
    BY <1>3, RecordedIs DEF Recorded
  <2>2. Keys(Over(ReadJournal(<<>>), image)) = Has(<<>>) \cup Keys(image)
    BY <1>3, RecordedIs
  <2>3. Recorded' = Keys(Over(ReadJournal(<<>>), image))
    BY <1>1 DEF Recorded, Keys
  <2> QED BY <1>1, <1>3, <2>1, <2>2, <2>3 DEF Held
<1>5. StoreInv'
  BY <1>1, <1>3 DEF StoreInv
<1>6. \A q \in Process \ {p} : BatchKept(q)' /\ FoldKept(q)'
  <2> SUFFICES ASSUME NEW q \in Process \ {p}
               PROVE  BatchKept(q)' /\ FoldKept(q)'
    OBVIOUS
  <2>1. phase[q] \notin Sections
    BY <1>1, Alone DEF Sections
  <2>2. BatchKept(q) /\ phase'[q] = phase[q] /\ buf'[q] = buf[q]
    BY <1>2 DEF Own, Kept
  <2> QED BY <2>1, <2>2 DEF BatchKept, FoldKept, Sections
<1>7. BatchKept(p)' /\ FoldKept(p)'
  BY <1>1 DEF BatchKept, FoldKept
<1>8. \A q \in Process : BytesKept(q)' /\ FindKept(q)'
  <2> SUFFICES ASSUME NEW q \in Process
               PROVE  BytesKept(q)' /\ FindKept(q)'
    OBVIOUS
  <2>1. BytesKept(q) /\ FindKept(q) /\ UNCHANGED <<look, bytes, recent, table, floor>>
    BY <1>2 DEF Kept, Own
  <2>2. q \notin straddled' => q \notin straddled /\ bytes[q] = <<>>
    BY <1>1
  <2>3. look[q] = "unread" => q \notin straddled'
    BY <1>1, <2>1 DEF BytesKept
  <2>4. Starts(<<>>, <<>>)
    BY <1>3, NothingIs
  <2>5. BytesKept(q)'
    BY <1>1, <1>4, <2>1, <2>2, <2>3, <2>4 DEF BytesKept
  <2>6. FindKept(q)'
    BY <1>1, <1>4, <2>1 DEF FindKept
  <2> QED BY <2>5, <2>6
<1> QED BY <1>1, <1>4, <1>5, <1>6, <1>7, <1>8 DEF Kept

-----------------------------------------------------------------------------
(* The invariant. *)

LEMMA KeptStart == Init => Kept
<1> SUFFICES ASSUME Init PROVE Kept
  OBVIOUS
<1>1. /\ journal = <<>> /\ Regular(<<>>) /\ Has(<<>>) = {} /\ Starts(<<>>, <<>>) /\ <<>> \in Seq(Field)
  <2>1. <<>> \in Seq(Field)
    OBVIOUS
  <2> QED BY <2>1, NothingIs DEF Init
<1>2. Keys([k \in Key |-> Miss]) = {} /\ Sound([k \in Key |-> Miss])
  BY DEF Keys, Sound
<1>3. StoreInv
  BY <1>1, <1>2 DEF Init, StoreInv
<1>4. ASSUME NEW p \in Process
      PROVE  BatchKept(p) /\ FoldKept(p) /\ BytesKept(p) /\ FindKept(p)
  <2>1. /\ phase[p] = "idle" /\ look[p] = "unread" /\ bytes[p] = <<>> /\ p \notin straddled
        /\ recent[p] = [k \in Key |-> Miss] /\ table[p] = [k \in Key |-> Miss]
    BY DEF Init
  <2>2. BatchKept(p) /\ FoldKept(p)
    BY <2>1 DEF BatchKept, FoldKept
  <2>3. BytesKept(p)
    BY <1>1, <2>1 DEF BytesKept
  <2>4. FindKept(p)
    BY <1>2, <2>1 DEF FindKept
  <2> QED BY <2>2, <2>3, <2>4
<1> QED BY <1>3, <1>4 DEF Kept

LEMMA SpoiledStays ==
    ASSUME [Next]_vars, ~spoiled'
    PROVE  ~spoiled
<1>1. ASSUME NEW p \in Process, Read(p)
      PROVE  ~spoiled
  BY <1>1, Zenon DEF Read, OpenJournal, ReadSome, ReadEnd, MapBase, Get
<1>2. ASSUME NEW p \in Process, Quiet(p)
      PROVE  ~spoiled
  BY <1>2, Zenon DEF Quiet, TakeBatch, Import, Lock, Written, BuildImage, Fails, Kill
<1>3. ASSUME NEW p \in Process, Write(p) \/ Rename(p) \/ Truncate(p)
      PROVE  ~spoiled
  BY <1>3, Zenon DEF Write, Rename, Truncate
<1>4. ASSUME NEW p \in Process, ReadFails(p)
      PROVE  ~spoiled
  BY <1>4, Zenon DEF ReadFails, JournalFails, ImageFails
<1>5. CASE UNCHANGED vars
  BY <1>5 DEF vars
<1> QED BY <1>1, <1>2, <1>3, <1>4, <1>5, Zenon DEF Next, Writer, Quiet

IndInv == Types /\ TodoInv /\ KeptInv

LEMMA KeptStep ==
    ASSUME IndInv, [Next]_vars
    PROVE  IndInv'
<1>1. Types /\ TodoInv /\ KeptInv
  BY DEF IndInv
<1>2. Types' /\ TodoInv'
  BY <1>1, TypeStep
<1>3. ASSUME ~spoiled'
      PROVE  Kept'
  <2>1. Kept
    BY <1>1, <1>3, SpoiledStays DEF KeptInv
  <2>2. ASSUME NEW p \in Process, Read(p) \/ ReadFails(p)
        PROVE  Kept'
    BY <1>1, <1>3, <2>1, <2>2, ReadKept
  <2>3. ASSUME NEW p \in Process, Writer(p) \/ Fails(p) \/ Kill(p)
        PROVE  Kept'
    <3>1. Quiet(p) \/ Write(p) \/ Rename(p) \/ Truncate(p)
      BY <2>3, Zenon DEF Writer, Quiet
    <3> QED BY <1>1, <1>3, <2>1, <3>1, QuietKept, WriteKept, RenameKept, TruncateKept
  <2>4. CASE UNCHANGED vars
    <3>1. Recorded' = Recorded
      BY <2>4 DEF vars, storeVars, Recorded
    <3> QED BY <2>1, <2>4, <3>1 DEF vars, storeVars, readVars, writeVars, Kept, StoreInv,
                                   BatchKept, FoldKept, BytesKept, FindKept, Held
  <2> QED BY <2>2, <2>3, <2>4, Zenon DEF Next
<1> QED BY <1>2, <1>3 DEF IndInv, KeptInv

-----------------------------------------------------------------------------
(* The promise. *)

(* A snapshot with the keys S and no wrong answer shows S. *)
LEMMA Shows ==
    ASSUME NEW t, Sound(t)
    PROVE  {<<k, t[k]>> : k \in Keys(t)} = {<<k, Answer[k]>> : k \in Keys(t)}
  BY DEF Sound

LEMMA ViewShows ==
    ASSUME NEW p \in Process, Sound(recent[p]), Keys(table[p]) = {}
    PROVE  View[p] = {<<k, Answer[k]>> : k \in Keys(recent[p])}
<1>1. Keys(Found(p)) = Keys(recent[p]) /\ Sound(Found(p))
  BY DEF Found, Over, Keys, Sound
<1>2. View[p] = {<<k, Found(p)[k]>> : k \in Keys(Found(p))}
  BY DEF View
<1> HIDE DEF Found
<1> QED BY <1>1, <1>2, Shows

LEMMA ReadImplements ==
    ASSUME Types, TodoInv, Kept, NEW p \in Process, Read(p), ~spoiled, ~spoiled'
    PROVE  Promise!Begin(p) \/ Promise!Look(p) \/ UNCHANGED Promise!specVars
<1>1. /\ Recorded' = Recorded /\ forgotten' = forgotten /\ Held' = Held
      /\ \A q \in Process \ {p} : /\ look'[q] = look[q] /\ recent'[q] = recent[q]
                                  /\ table'[q] = table[q]
  BY ReadLeaves DEF Held
<1>2. /\ \A q \in Process \ {p} : Stage'[q] = Stage[q] /\ View'[q] = View[q]
      /\ Stage = [q \in Process |-> Stage[q]] /\ Stage' = [q \in Process |-> Stage'[q]]
      /\ View = [q \in Process |-> View[q]] /\ View' = [q \in Process |-> View'[q]]
  BY <1>1 DEF Stage, View, Found
<1>3. FindKept(p) /\ FindKept(p)' /\ BytesKept(p) /\ StoreInv
  BY ReadKept DEF Kept
<1>4. /\ look[p] = "unread" => Stage[p] = "closed"
      /\ look[p] \in {"reading", "read"} => Stage[p] = "opening"
      /\ look'[p] \in {"reading", "read"} => Stage'[p] = "opening"
      /\ look'[p] = "mapped" => Stage'[p] = "open"
  BY DEF Stage
<1>5. CASE OpenJournal(p)
  <2>1. /\ look[p] = "unread" /\ look'[p] = "reading" /\ floor' = [floor EXCEPT ![p] = Recorded]
        /\ UNCHANGED <<recent, table, spoiled>>
    BY <1>5 DEF OpenJournal, Types
  <2>2. View' = View
    BY <2>1 DEF View, Found
  <2>3. Stage' = [Stage EXCEPT ![p] = "opening"]
    BY <1>2, <1>4, <2>1
  <2> QED BY <1>1, <1>4, <2>1, <2>2, <2>3 DEF Promise!Begin
<1>6. CASE ReadSome(p)
  <2>1. UNCHANGED <<look, recent, table, floor>> /\ spoiled' = spoiled
    <3>1. spoiled \in BOOLEAN /\ spoiled' \in BOOLEAN
      BY ReadTypes DEF Types
    <3>2. spoiled' = spoiled
      BY <3>1
    <3> QED BY <1>6, <3>2 DEF ReadSome
  <2>2. Stage' = Stage /\ View' = View
    BY <2>1 DEF Stage, View, Found
  <2> QED BY <1>1, <2>1, <2>2 DEF Promise!specVars
<1>7. CASE ReadEnd(p)
  <2>1. /\ look[p] = "reading" /\ look'[p] = "read" /\ UNCHANGED <<table, floor, spoiled>>
    BY <1>7 DEF ReadEnd, Types
  <2>2. View[p] = {}
    BY <1>3, <2>1, ViewShows DEF FindKept
  <2>3. View'[p] = {<<k, Answer[k]>> : k \in Keys(recent'[p])}
    <3>1. Sound(recent'[p]) /\ Keys(table'[p]) = {}
      BY <1>3, <2>1 DEF FindKept
    <3>2. Keys(Found(p)') = Keys(recent'[p]) /\ Sound(Found(p)')
      BY <3>1 DEF Found, Over, Keys, Sound
    <3>3. View'[p] = {<<k, Found(p)'[k]>> : k \in Keys(Found(p)')}
      BY DEF View
    <3> QED BY <3>2, <3>3, Shows
  <2>4. Keys(recent'[p]) \subseteq Recorded \cup forgotten
    BY <1>1, <1>3 DEF FindKept, Held
  <2>5. Stage' = [Stage EXCEPT ![p] = "opening"] /\ Stage[p] = "opening"
    BY <1>2, <1>4, <2>1
  <2>6. View' = [View EXCEPT ![p] = {<<k, Answer[k]>> : k \in Keys(recent'[p])}]
    BY <1>2, <2>3
  <2> QED BY <1>1, <2>1, <2>2, <2>4, <2>5, <2>6 DEF Promise!Look
<1>8. CASE MapBase(p)
  <2>1. /\ look[p] = "read" /\ look'[p] = "mapped" /\ table'[p] = image
        /\ UNCHANGED <<recent, floor, spoiled>>
    BY <1>8 DEF MapBase, Types
  <2> DEFINE S == Keys(recent[p]) \cup Keys(image)
  <2>2. View[p] = {<<k, Answer[k]>> : k \in Keys(recent[p])}
    BY <1>3, <2>1, ViewShows DEF FindKept
  <2>3. View'[p] = {<<k, Answer[k]>> : k \in S}
    <3>1. Found(p)' = Over(recent[p], image)
      BY <2>1 DEF Found
    <3>2. Keys(Found(p)') = S /\ Sound(Found(p)')
      BY <1>3, <3>1, OverIs DEF FindKept, StoreInv
    <3>3. View'[p] = {<<k, Found(p)'[k]>> : k \in Keys(Found(p)')}
      BY DEF View
    <3> QED BY <3>2, <3>3, Shows
  <2>4. S \subseteq Recorded \cup forgotten /\ floor[p] \ forgotten \subseteq S
    BY <1>3, <2>1, RecordedNow DEF FindKept, Held
  <2>5. Stage' = [Stage EXCEPT ![p] = "open"] /\ Stage[p] = "opening"
    BY <1>2, <1>4, <2>1
  <2>6. View' = [View EXCEPT ![p] = {<<k, Answer[k]>> : k \in S}]
    BY <1>2, <2>3
  <2>7. View[p] \subseteq View'[p]
    BY <2>2, <2>3
  <2> HIDE DEF S
  <2> QED BY <1>1, <2>1, <2>4, <2>5, <2>6, <2>7 DEF Promise!Look
<1>9. CASE \E k \in Key : Get(p, k)
  <2>1. UNCHANGED <<look, recent, table, floor, spoiled>>
    BY <1>9 DEF Get, readVars
  <2>2. Stage' = Stage /\ View' = View
    BY <2>1 DEF Stage, View, Found
  <2> QED BY <1>1, <2>1, <2>2 DEF Promise!specVars
<1> QED BY <1>5, <1>6, <1>7, <1>8, <1>9 DEF Read

(* A reader whose call fails is owed nothing from then on. *)
LEMMA ReadFailsImplements ==
    ASSUME Types, TodoInv, NEW p \in Process, ReadFails(p), ~spoiled, ~spoiled'
    PROVE  Promise!Blind(p)
<1>1. /\ Recorded' = Recorded /\ forgotten' = forgotten
      /\ \A q \in Process \ {p} : look'[q] = look[q]
  BY ReadLeaves
<1>2. /\ p \in Faulty /\ floor' = [floor EXCEPT ![p] = {}] /\ UNCHANGED <<recent, table>>
      /\ \/ look[p] \in {"unread", "reading"} /\ look'[p] = "read"
         \/ look[p] = "read" /\ look'[p] = "mapped"
  <2>1. look[p] \in Looks
    BY DEF Types
  <2> QED BY <2>1, CacheAssumption DEF ReadFails, JournalFails, ImageFails, Types
<1>3. View' = View
  BY <1>2 DEF View, Found
<1>4. Stage[p] # "open" /\ Stage'[p] \in {"opening", "open"}
  BY <1>2 DEF Stage
<1>5. Stage' = [Stage EXCEPT ![p] = Stage'[p]]
  <2>1. /\ \A q \in Process \ {p} : Stage'[q] = Stage[q]
        /\ Stage = [q \in Process |-> Stage[q]] /\ Stage' = [q \in Process |-> Stage'[q]]
    BY <1>1 DEF Stage
  <2> QED BY <2>1
<1>6. spoiled' = spoiled
  <2>1. spoiled \in BOOLEAN /\ spoiled' \in BOOLEAN
    BY ReadFailsTypes DEF Types
  <2> QED BY <2>1
<1> QED BY <1>1, <1>2, <1>3, <1>4, <1>5, <1>6 DEF Promise!Blind

(* A writer adds to what is recorded, or a compaction that cannot read a    *)
(* file puts what is only there at risk.                                    *)
LEMMA WriterImplements ==
    ASSUME Types, TodoInv, Kept, NEW p \in Process, Writer(p) \/ Fails(p) \/ Kill(p), ~spoiled, ~spoiled'
    PROVE  Promise!Learn \/ Promise!Excuse
<1>1. Quiet(p) \/ Write(p) \/ Rename(p) \/ Truncate(p)
  BY Zenon DEF Writer, Quiet
<1>2. Recorded' \in SUBSET Key
  BY DEF Recorded, Keys
<1>3. Stage' = Stage /\ View' = View /\ floor' = floor
  <2>1. UNCHANGED <<look, recent, table, floor>>
    BY WriterOwn DEF Own
  <2> QED BY <2>1 DEF Stage, View, Found
<1>4. spoiled' = spoiled
  <2>1. spoiled \in BOOLEAN /\ spoiled' \in BOOLEAN
    BY TypeStep, WriterTypes DEF Types
  <2> QED BY <2>1
<1>5. ASSUME forgotten' = forgotten, Recorded \ forgotten \subseteq Recorded'
      PROVE  Promise!Learn
  BY <1>2, <1>3, <1>4, <1>5 DEF Promise!Learn
<1>6. CASE BuildImage(p)
  <2>1. PICK old \in Reading(p, image), new \in Reading(p, ReadJournal(journal)) :
           forgotten' = forgotten \cup (Recorded \ Keys(Over(new, old)))
    BY <1>6 DEF BuildImage
  <2>2. Recorded' = Recorded
    BY <1>6, QuietLeaves DEF Quiet
  <2>3. CASE p \in Faulty
    <3>1. Faulty # {} /\ \E S \in SUBSET Recorded : forgotten' = forgotten \cup S
      BY <2>1, <2>3
    <3> QED BY <1>3, <1>4, <2>2, <3>1 DEF Promise!Excuse
  <2>4. CASE p \notin Faulty
    <3>1. old = image /\ new = ReadJournal(journal)
      BY <2>4 DEF Reading
    <3>2. forgotten' = forgotten
      BY <2>1, <3>1 DEF Recorded
    <3> QED BY <1>5, <2>2, <3>2
  <2> QED BY <2>3, <2>4
<1>7. CASE Quiet(p) /\ ~BuildImage(p)
  <2>1. forgotten' = forgotten
    BY <1>7, Zenon DEF Quiet, TakeBatch, Import, Lock, Written, Fails, Kill
  <2>2. Recorded' = Recorded
    BY <1>7, QuietLeaves
  <2> QED BY <1>5, <2>1, <2>2
<1>8. CASE Write(p)
  BY <1>5, <1>8, WriteKept
<1>9. CASE Rename(p)
  <2>1. Held' = Held /\ forgotten' = forgotten
    BY <1>9, RenameKept
  <2> QED BY <1>5, <2>1 DEF Held
<1>10. CASE Truncate(p)
  <2>1. Held' = Held /\ forgotten' = forgotten
    BY <1>10, TruncateKept
  <2> QED BY <1>5, <2>1 DEF Held
<1> QED BY <1>1, <1>6, <1>7, <1>8, <1>9, <1>10

(* A cache without a lock for its readers keeps its promise: whoever is     *)
(* killed, whichever call fails, and however appends, compactions and reads *)
(* interleave, what is recorded stays recorded, a command finds what was    *)
(* recorded when it began to look, and what it finds is right.  The         *)
(* exceptions are those of the code: what a compaction could not read of    *)
(* the files it replaced may be lost, a command whose own read failed finds *)
(* what it can, and nothing is promised once the store is spoiled by an     *)
(* append behind a torn record, or by a read that goes on in a journal      *)
(* emptied under it.                                                        *)
THEOREM KeepsPromise == Spec => ImplementsCacheSpec
<1>1. Init => IndInv /\ Promise!SpecInit
  <2> SUFFICES ASSUME Init PROVE IndInv /\ Promise!SpecInit
    OBVIOUS
  <2>1. IndInv
    BY TypeStart, KeptStart DEF IndInv, KeptInv
  <2>2. \A p \in Process : look[p] = "unread" /\ Sound(recent[p]) /\ Keys(recent[p]) = {} /\ Keys(table[p]) = {}
    BY DEF Init, Sound, Keys
  <2>3. Recorded = {}
    <3>1. Recorded = Has(journal) \cup Keys(image)
      BY TypeStart, KeptStart, RecordedNow DEF Kept
    <3> QED BY <3>1, NothingIs DEF Init, Keys
  <2>4. Stage = [p \in Process |-> "closed"]
    BY <2>2 DEF Stage
  <2>5. View = [p \in Process |-> {}]
    <3>1. \A p \in Process : View[p] = {}
      BY <2>2, ViewShows
    <3> QED BY <3>1 DEF View
  <2>6. floor = [p \in Process |-> {}] /\ forgotten = {} /\ spoiled = FALSE
    BY DEF Init
  <2> QED BY <2>1, <2>3, <2>4, <2>5, <2>6 DEF Promise!SpecInit
<1>2. IndInv /\ [Next]_vars => IndInv'
  BY KeptStep
<1>3. IndInv /\ [Next]_vars => [Promise!SpecNext]_(Promise!specVars)
  <2> SUFFICES ASSUME IndInv, [Next]_vars
               PROVE  [Promise!SpecNext]_(Promise!specVars)
    OBVIOUS
  <2>1. Types /\ TodoInv /\ spoiled' \in BOOLEAN
    BY KeptStep DEF IndInv, Types
  <2>2. CASE spoiled'
    BY <2>1, <2>2 DEF Promise!SpecNext, Promise!Spoil
  <2>3. CASE ~spoiled'
    <3>1. ~spoiled /\ Kept
      BY <2>3, SpoiledStays DEF IndInv, KeptInv
    <3>2. ASSUME NEW p \in Process, Read(p)
          PROVE  [Promise!SpecNext]_(Promise!specVars)
      BY <2>1, <2>3, <3>1, <3>2, ReadImplements DEF Promise!SpecNext
    <3>3. ASSUME NEW p \in Process, Writer(p) \/ Fails(p) \/ Kill(p)
          PROVE  [Promise!SpecNext]_(Promise!specVars)
      BY <2>1, <2>3, <3>1, <3>3, WriterImplements DEF Promise!SpecNext
    <3>4. ASSUME NEW p \in Process, ReadFails(p)
          PROVE  [Promise!SpecNext]_(Promise!specVars)
      BY <2>1, <2>3, <3>1, <3>4, ReadFailsImplements DEF Promise!SpecNext
    <3>5. CASE UNCHANGED vars
      <4>1. UNCHANGED <<journal, image, look, recent, table, floor, spoiled, forgotten>>
        BY <3>5 DEF vars, storeVars, readVars
      <4>2. Recorded' = Recorded /\ Stage' = Stage /\ View' = View
        BY <4>1 DEF Recorded, Stage, View, Found
      <4> QED BY <4>1, <4>2 DEF Promise!specVars
    <3> QED BY <3>2, <3>3, <3>4, <3>5, Zenon DEF Next
  <2> QED BY <2>2, <2>3
<1> QED BY <1>1, <1>2, <1>3, PTL DEF Spec, ImplementsCacheSpec, Promise!CacheSpecification

(* Every race "degrades to a cache miss, never a wrong answer" (rcache.rs:61) *)
(* but the two that spoil the store: what a command finds is the answer.      *)
THEOREM TruthUntilSpoiled == Spec => [](spoiled \/ NeverLies)
<1>1. Init => IndInv
  BY TypeStart, KeptStart DEF IndInv, KeptInv
<1>2. IndInv /\ [Next]_vars => IndInv'
  BY KeptStep
<1>3. IndInv => spoiled \/ NeverLies
  <2> SUFFICES ASSUME IndInv, ~spoiled, NEW p \in Process, NEW k \in Key
               PROVE  Found(p)[k] \in {Answer[k], Miss}
    BY DEF NeverLies
  <2>1. Sound(recent[p]) /\ Sound(table[p])
    BY DEF IndInv, KeptInv, Kept, FindKept
  <2>2. Sound(Found(p))
    BY <2>1, OverIs DEF Found
  <2> QED BY <2>2 DEF Sound, Keys
<1> QED BY <1>1, <1>2, <1>3, PTL DEF Spec

=============================================================================

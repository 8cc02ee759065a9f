------------------------------ MODULE CacheSpec ------------------------------
(***************************************************************************)
(* What a derived-answer cache promises the commands that use it, without  *)
(* journal, image or lock.  A key has one right answer for ever.  The set  *)
(* of keys whose answer is recorded only grows.  A command looks once: it  *)
(* finds at least what was recorded when it began to look, at most what is *)
(* recorded when it has finished, and every answer it finds is right.      *)
(*                                                                         *)
(* Two things are excused where there are faults, and the detailed         *)
(* specification, RCache, defines when: keys that may be lost, and a       *)
(* command that cannot look, which is owed nothing.  What is found is      *)
(* right all the same.                                                     *)
(*                                                                         *)
(* The promise ends when the store is spoiled, which is for RCache to      *)
(* define, too; afterwards anything may happen.                            *)
(***************************************************************************)
CONSTANTS Process,  (* commands                                            *)
          Key,      (* what is looked up                                   *)
          Answer,   (* Answer[k]: the right answer                         *)
          Faulty    (* commands whose calls may fail                       *)

VARIABLES known,    (* the keys whose answer is recorded                   *)
          stage,    (* stage[p]: p has not looked, is looking, has looked  *)
          floor,    (* floor[p]: what p is owed when it looks              *)
          view,     (* view[p]: the <<key, value>> pairs p has found       *)
          excused,  (* keys that may be lost                               *)
          broken    (* the promise has ended                               *)

specVars == <<known, stage, floor, view, excused, broken>>

SpecInit ==
    /\ known = {}
    /\ stage = [p \in Process |-> "closed"]
    /\ floor = [p \in Process |-> {}]
    /\ view = [p \in Process |-> {}]
    /\ excused = {}
    /\ broken = FALSE

(* Answers are added; none is lost but those excused. *)
Learn ==
    /\ known' \in SUBSET Key
    /\ known \ excused \subseteq known'
    /\ UNCHANGED <<stage, floor, view, excused, broken>>

(* A command with faults may put some of what is recorded at risk. *)
Excuse ==
    /\ Faulty # {}
    /\ \E S \in SUBSET known : excused' = excused \cup S
    /\ UNCHANGED <<known, stage, floor, view, broken>>

Begin(p) ==
    /\ stage[p] = "closed"
    /\ stage' = [stage EXCEPT ![p] = "opening"]
    /\ floor' = [floor EXCEPT ![p] = known]
    /\ UNCHANGED <<known, view, excused, broken>>

(* p finds some of what is recorded, in more than one place if need be; it  *)
(* has not looked everywhere before it has found all it must.  It may still *)
(* find what others have lost.                                              *)
Look(p) ==
    /\ stage[p] = "opening"
    /\ \E S \in SUBSET (known \cup excused), next \in {"opening", "open"} :
         /\ next = "open" => floor[p] \ excused \subseteq S
         /\ stage' = [stage EXCEPT ![p] = next]
         /\ view' = [view EXCEPT ![p] = {<<k, Answer[k]>> : k \in S}]
         /\ view[p] \subseteq view'[p]
    /\ UNCHANGED <<known, floor, excused, broken>>

(* A look that fails. *)
Blind(p) ==
    /\ p \in Faulty
    /\ stage[p] # "open"
    /\ \E next \in {"opening", "open"} : stage' = [stage EXCEPT ![p] = next]
    /\ floor' = [floor EXCEPT ![p] = {}]
    /\ UNCHANGED <<known, view, excused, broken>>

Spoil == broken' = TRUE

SpecNext ==
    \/ ~broken /\ (Learn \/ Excuse \/ \E p \in Process : Begin(p) \/ Look(p) \/ Blind(p))
    \/ Spoil           (* and then nothing is promised *)

CacheSpecification == SpecInit /\ [][SpecNext]_specVars

=============================================================================

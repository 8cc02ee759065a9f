------------------------------ MODULE LaneSpec ------------------------------
(***************************************************************************)
(* What a coordination lane promises its clients, with no daemon, socket   *)
(* or queue in sight.  Every repository has a line of acquisitions.  An    *)
(* acquisition joins only at the tail, nobody is overtaken, and only the   *)
(* head of the line may be inside the repository's critical section.  The  *)
(* lane can disappear as a whole (the daemon exits): the line is gone and  *)
(* nobody can enter through it any more, but whoever was inside stays      *)
(* inside until it leaves by itself.                                       *)
(*                                                                         *)
(* RepoLane is the detailed protocol; it implements this specification.    *)
(***************************************************************************)
EXTENDS Sequences, Naturals

CONSTANTS Client,   (* acquisitions, each with an id of its own             *)
          Repo,     (* repositories                                         *)
          RepoOf    (* the repository an acquisition is for                 *)

VARIABLES line,     (* line[r]: who is in repository r's line, in order     *)
          inside,   (* acquisitions that have been told the lane is theirs  *)
          open      (* the coordinator exists                               *)

specVars == <<line, inside, open>>

InLine(c) == \E k \in DOMAIN line[RepoOf[c]] : line[RepoOf[c]][k] = c

(* The line without c, the order of the others unchanged. *)
Removed(s, c) ==
    LET at == CHOOSE k \in DOMAIN s : s[k] = c
    IN SubSeq(s, 1, at - 1) \o SubSeq(s, at + 1, Len(s))

HeadOf(s) == IF s = <<>> THEN {} ELSE {Head(s)}

-----------------------------------------------------------------------------

SpecInit ==
    /\ line = [r \in Repo |-> <<>>]
    /\ inside = {}
    /\ open = TRUE

(* c joins at the tail.  Alone in the line it is at its head, and is told   *)
(* so unless it has died since it asked.                                    *)
Join(c) ==
    LET r == RepoOf[c] IN
    /\ open
    /\ ~InLine(c)
    /\ line' = [line EXCEPT ![r] = Append(@, c)]
    /\ inside' \in {inside, inside \cup HeadOf(line'[r])}
    /\ line[r] # <<>> => inside' = inside
    /\ UNCHANGED open

(* c leaves the line from wherever it stands, never while it is inside; if  *)
(* it was the head, its successor may be told.                              *)
Depart(c) ==
    LET r == RepoOf[c] IN
    /\ open
    /\ InLine(c)
    /\ c \notin inside
    /\ line' = [line EXCEPT ![r] = Removed(@, c)]
    /\ inside' \in {inside, inside \cup HeadOf(line'[r])}
    /\ Head(line[r]) # c => inside' = inside
    /\ UNCHANGED open

(* Critical sections end: a guard dropped, or its process died. *)
Leave(c) ==
    /\ c \in inside
    /\ inside' = inside \ {c}
    /\ UNCHANGED <<line, open>>

(* The coordinator is gone, and every line with it. *)
Collapse ==
    /\ open
    /\ open' = FALSE
    /\ line' = [r \in Repo |-> <<>>]
    /\ UNCHANGED inside

SpecNext ==
    \/ \E c \in Client : Join(c) \/ Depart(c) \/ Leave(c)
    \/ Collapse

LaneSpecification == SpecInit /\ [][SpecNext]_specVars

=============================================================================

----------------------------- MODULE FrameFlow -----------------------------
(***************************************************************************)
(* What an asynchronous pipeline promises about the frames it carries,     *)
(* whatever it drops, whatever fails and however often it is stopped.      *)
(*                                                                         *)
(* The pipeline is a tree of branches.  Frames are numbered in the order   *)
(* in which the pipeline accepted them.  A branch works on one frame at a  *)
(* time; every frame it begins is newer than the one it began before, and  *)
(* it was finished by the branch that feeds it (the root is fed by the     *)
(* callers).  A branch may skip frames and may abandon the one it works    *)
(* on, so the frames it finishes are a subset of those its parent did.     *)
(***************************************************************************)
EXTENDS Naturals

CONSTANTS
  Branches,  (* the branches of the pipeline                                *)
  Root,      (* the branch that begins with the input node                  *)
  Children   (* Children[b]: the branches fed with the results of b         *)

VARIABLES
  accepted,  (* how many frames the pipeline has accepted                   *)
  begun,     (* begun[b]: the last frame b began to process, 0 for none     *)
  finished,  (* finished[b]: the frames whose result b has handed on        *)
  working    (* the branches in the middle of a frame                       *)

vars == <<accepted, begun, finished, working>>

(* The frames a branch may be given. *)
Available(b) ==
  IF b = Root
  THEN 1 .. accepted
  ELSE UNION {finished[p] : p \in {q \in Branches : b \in Children[q]}}

----------------------------------------------------------------------------

Init ==
  /\ accepted = 0
  /\ begun = [b \in Branches |-> 0]
  /\ finished = [b \in Branches |-> {}]
  /\ working = {}

(* A caller hands a frame to the root and is told that it was taken. *)
Accept ==
  /\ accepted' = accepted + 1
  /\ UNCHANGED <<begun, finished, working>>

Begin(b) ==
  /\ b \notin working
  /\ \E f \in Available(b) :
       /\ f > begun[b]
       /\ begun' = [begun EXCEPT ![b] = f]
  /\ working' = working \cup {b}
  /\ UNCHANGED <<accepted, finished>>

(* The result of b is handed to its children and to the observers. *)
Finish(b) ==
  /\ b \in working
  /\ finished' = [finished EXCEPT ![b] = @ \cup {begun[b]}]
  /\ working' = working \ {b}
  /\ UNCHANGED <<accepted, begun>>

(* A node failed, or the pipeline is being stopped. *)
Abandon(b) ==
  /\ b \in working
  /\ working' = working \ {b}
  /\ UNCHANGED <<accepted, begun, finished>>

Next ==
  \/ Accept
  \/ \E b \in Branches : Begin(b) \/ Finish(b) \/ Abandon(b)

Spec == Init /\ [][Next]_vars
============================================================================

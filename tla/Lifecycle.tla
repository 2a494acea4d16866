----------------------------- MODULE Lifecycle -----------------------------
(***************************************************************************)
(* What a resource manager promises of the life of one custom resource and *)
(* its AWS object, whatever the kind: the abstract specification that the  *)
(* controllers in this directory are shown to implement.                   *)
(*                                                                         *)
(* The CR is claimed while it carries the controller's finalizer.  Only a  *)
(* claimed CR gets an object, it gets one at a time, and it is released    *)
(* only when that object is gone.  Objects may vanish at any time.         *)
(***************************************************************************)
VARIABLES
  claimed,  \* the finalizer is on the CR
  objects   \* the AWS objects the CR stands for

vars == <<claimed, objects>>

Init == ~claimed /\ objects = {}

Claim == ~claimed /\ claimed' = TRUE /\ UNCHANGED objects

Create ==
  /\ claimed /\ objects = {}
  /\ \E o \in objects' : objects' = {o}
  /\ UNCHANGED claimed

Vanish == objects' = {} /\ UNCHANGED claimed

Release == objects = {} /\ claimed' = FALSE /\ UNCHANGED objects

Next == Claim \/ Create \/ Vanish \/ Release

Spec == Init /\ [][Next]_vars

\* An object without a claim is an orphan: nobody will ever delete it.
NoOrphan == ~claimed => objects = {}

AtMostOne == \A o1, o2 \in objects : o1 = o2
=============================================================================

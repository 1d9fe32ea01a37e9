------------------------------ MODULE Delivery ------------------------------
(***************************************************************************)
(* What a parser promises its application: the cues of the document are    *)
(* handed over one at a time and in order, all of them by the time the     *)
(* call that finishes the document returns.                                *)
(* How the document is cut into chunks, and when a cue is recognised, is   *)
(* left open; an application may also give up before the end.              *)
(***************************************************************************)
EXTENDS Naturals, Sequences

CONSTANTS
  Docs,       \* the documents there are
  CuesOf(_)   \* the cues of a document, in order

VARIABLES
  doc,     \* the document
  handed,  \* the cues handed over so far
  stage    \* "open", "finishing", "finished" or "abandoned"

vars == <<doc, handed, stage>>

Init == doc \in Docs /\ handed = << >> /\ stage = "open"

HandOver ==
  /\ stage \in {"open", "finishing"}
  /\ LET cues == CuesOf(doc)
     IN  /\ Len(handed) < Len(cues)
         /\ handed' = Append(handed, cues[Len(handed) + 1])
  /\ UNCHANGED <<doc, stage>>

StartFinishing ==
  /\ stage = "open"
  /\ stage' = "finishing"
  /\ UNCHANGED <<doc, handed>>

Finish ==
  /\ stage = "finishing" /\ handed = CuesOf(doc)
  /\ stage' = "finished"
  /\ UNCHANGED <<doc, handed>>

Abandon ==
  /\ stage = "open"
  /\ stage' = "abandoned"
  /\ UNCHANGED <<doc, handed>>

Next == HandOver \/ StartFinishing \/ Finish \/ Abandon

Spec == Init /\ [][Next]_vars

=============================================================================

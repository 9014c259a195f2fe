---------------------------- MODULE ReviewRecord ----------------------------
(***************************************************************************)
(* What the work-log and approval services promise about one log, without  *)
(* versions, tokens, requests or transactions: a text that can be edited   *)
(* while it is a draft, is fixed from submission to the decision, and a    *)
(* history that every decision extends with the very text that was         *)
(* submitted.  Only a returned log is opened again, with a new text.       *)
(***************************************************************************)
EXTENDS Sequences

CONSTANTS Logs, Texts, NoText

VARIABLES
  stage,     \* stage[l]: where the log is in its life
  text,      \* text[l]: what its author is working on or has submitted
  history    \* history[l]: the submitted texts with their verdicts, oldest first

recordVars == <<stage, text, history>>

Verdicts == {"APPROVED", "RETURNED", "REJECTED"}

Init ==
  /\ stage = [l \in Logs |-> "ABSENT"]
  /\ text = [l \in Logs |-> NoText]
  /\ history = [l \in Logs |-> <<>>]

\* The log moves to a stage with a text chosen by its author.
Write(l, from, t) ==
  /\ stage[l] = from
  /\ stage' = [stage EXCEPT ![l] = "DRAFT"]
  /\ text' = [text EXCEPT ![l] = t]
  /\ UNCHANGED history

Create(l, t) == Write(l, "ABSENT", t)
Edit(l, t) == Write(l, "DRAFT", t)
Revise(l, t) == Write(l, "RETURNED", t)

Submit(l) ==
  /\ stage[l] = "DRAFT"
  /\ stage' = [stage EXCEPT ![l] = "SUBMITTED"]
  /\ UNCHANGED <<text, history>>

Decide(l, verdict) ==
  /\ stage[l] = "SUBMITTED"
  /\ stage' = [stage EXCEPT ![l] = verdict]
  /\ history' = [history EXCEPT ![l] = Append(@, [text |-> text[l], verdict |-> verdict])]
  /\ UNCHANGED text

Next ==
  \E l \in Logs :
    \/ \E t \in Texts : Create(l, t) \/ Edit(l, t) \/ Revise(l, t)
    \/ Submit(l)
    \/ \E verdict \in Verdicts : Decide(l, verdict)

Spec == Init /\ [][Next]_recordVars
=============================================================================

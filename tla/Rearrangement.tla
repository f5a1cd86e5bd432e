---------------------------- MODULE Rearrangement ----------------------------
(***************************************************************************)
(* What tc_apply.run promises about the copier's database (hard rules 1, 5 *)
(* and 7 at the head of rabbit/tc_apply.py), without its steps: the rows   *)
(* change by the copier's own hand while it is up, or by the one owner of  *)
(* the lock, who first saves them, then changes them once, and can only go *)
(* back to what was saved.                                                 *)
(***************************************************************************)
CONSTANTS
  Writers,   \* the processes that may call run
  Rows,      \* the arrangements the group tables can hold
  Torn,      \* a database whose files are partly replaced
  None

VARIABLES
  rows,      \* the copier's group tables
  up,        \* the copier runs
  owner,     \* the writer inside, or None
  saved,     \* what the owner saved
  stage      \* how far the owner is: "out", "held", "saved", "changed", "undone", "lost"

vars == <<rows, up, owner, saved, stage>>

Init == /\ rows \in Rows /\ up \in BOOLEAN
        /\ owner = None /\ saved = None /\ stage = "out"

Take(w) == /\ stage = "out"
           /\ owner' = w /\ stage' = "held"
           /\ UNCHANGED <<rows, up, saved>>

Save == /\ stage = "held"
        /\ saved' = rows /\ stage' = "saved"
        /\ UNCHANGED <<rows, up, owner>>

\* One transaction, once per ownership.
Change == /\ stage = "saved"
          /\ rows' \in Rows /\ stage' = "changed"
          /\ UNCHANGED <<up, owner, saved>>

\* Going back replaces the files one by one.
BeginUndo == /\ stage \in {"saved", "changed"}
             /\ rows' = Torn /\ stage' = "undone"
             /\ UNCHANGED <<up, owner, saved>>

EndUndo == /\ stage = "undone"
           /\ rows' = saved
           /\ UNCHANGED <<up, owner, saved, stage>>

\* The owner may start the copier on its way out.
Leave == /\ stage \in {"held", "saved", "changed", "undone"}
         /\ owner' = None /\ saved' = None /\ stage' = "out"
         /\ up' \in {up, TRUE}
         /\ UNCHANGED rows

\* The owner dies: the lock stays, for good.
Die == /\ stage \in {"held", "saved", "changed", "undone"}
       /\ stage' = "lost" /\ saved' = None
       /\ UNCHANGED <<rows, up, owner>>

CopierComesAndGoes == up' = ~up /\ UNCHANGED <<rows, owner, saved, stage>>

\* The copier, or its user in its window, rewrites rows it can read.
CopierEdits == /\ up /\ rows \in Rows /\ rows' \in Rows
               /\ UNCHANGED <<up, owner, saved, stage>>

Next == \/ \E w \in Writers : Take(w)
        \/ Save \/ Change \/ BeginUndo \/ EndUndo \/ Leave \/ Die
        \/ CopierComesAndGoes \/ CopierEdits

Spec == Init /\ [][Next]_vars
==============================================================================

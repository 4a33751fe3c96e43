-------------------------- MODULE ContentScreening --------------------------
(***************************************************************************)
(* What automatic moderation promises to the authors of contents, with no  *)
(* queue, no workers and no crashes: every content is judged at most once, *)
(* a verdict to hide takes effect together with it, and only an appeal or  *)
(* the author's own edit shows the content again.                          *)
(* ModerationTasks shows that the task queue and its workers implement     *)
(* this specification.                                                     *)
(***************************************************************************)
CONSTANTS Messages, Reviews, Publications

Editable == Reviews \cup Publications
Contents == Messages \cup Editable

VARIABLES display, \* what readers see of each content
          review,  \* how far its moderation has come
          appealed, \* the contents whose verdict was appealed with success
          draft    \* what an author who is editing a content has seen of it, or "none"

vars == <<display, review, appealed, draft>>

Verdicts == {"hidden", "approved"}
Present(c) == display[c] \in {"published", "hidden"}

Init ==
  /\ display = [c \in Contents |-> "absent"]
  /\ review = [c \in Contents |-> "none"]
  /\ appealed = {}
  /\ draft = [c \in Contents |-> "none"]

Publish(c) ==
  /\ display[c] = "absent"
  /\ display' = [display EXCEPT ![c] = "published"]
  /\ UNCHANGED <<review, appealed, draft>>

Remove(c) ==
  /\ Present(c)
  /\ display' = [display EXCEPT ![c] = "gone"]
  /\ UNCHANGED <<review, appealed, draft>>

OpenEdit(c) ==
  /\ c \in Editable /\ Present(c) /\ draft[c] = "none"
  /\ draft' = [draft EXCEPT ![c] = display[c]]
  /\ UNCHANGED <<display, review, appealed>>

\* Saving shows what was there when the edit was opened; of what has been
\* removed meanwhile, a publication comes back and a review does not.
SaveEdit(c) ==
  /\ draft[c] # "none"
  /\ display' = IF display[c] = "gone" /\ c \in Reviews THEN display
                ELSE [display EXCEPT ![c] = draft[c]]
  /\ draft' = [draft EXCEPT ![c] = "none"]
  /\ UNCHANGED <<review, appealed>>

LoseEdits(cs) ==
  /\ draft' = [c \in Contents |-> IF c \in cs THEN "none" ELSE draft[c]]
  /\ UNCHANGED <<display, review, appealed>>

Queue(cs) ==
  /\ \A c \in cs : review[c] = "none" /\ display[c] # "absent"
  /\ review' = [c \in Contents |-> IF c \in cs THEN "queued" ELSE review[c]]
  /\ UNCHANGED <<display, appealed, draft>>

\* What is gone needs no verdict.
Dismiss(c) ==
  /\ review[c] = "queued" /\ display[c] = "gone"
  /\ review' = [review EXCEPT ![c] = "dismissed"]
  /\ UNCHANGED <<display, appealed, draft>>

\* A judge who has read the content before it was removed may still give his
\* verdict.
Judge(c, verdict) ==
  /\ review[c] \in {"queued", "dismissed"}
  /\ review' = [review EXCEPT ![c] = verdict]
  /\ display' = IF verdict = "hidden" /\ Present(c)
                THEN [display EXCEPT ![c] = "hidden"] ELSE display
  /\ UNCHANGED <<appealed, draft>>

Restore(c) ==
  /\ review[c] \in Verdicts /\ c \notin appealed
  /\ appealed' = appealed \cup {c}
  /\ display' = IF display[c] = "hidden"
                THEN [display EXCEPT ![c] = "published"] ELSE display
  /\ UNCHANGED <<review, draft>>

Next ==
  \/ \E c \in Contents :
       \/ Publish(c) \/ Remove(c) \/ OpenEdit(c) \/ SaveEdit(c)
       \/ Dismiss(c) \/ Restore(c)
       \/ \E verdict \in Verdicts : Judge(c, verdict)
  \/ \E cs \in SUBSET Contents : LoseEdits(cs) \/ Queue(cs)

Spec == Init /\ [][Next]_vars

\* Of what the author leaves alone, readers see what the verdict says, until
\* an appeal wins; and nothing of it is dismissed while it is there.
VerdictsRule ==
  \A c \in Messages \ appealed : Present(c) =>
    /\ review[c] # "dismissed"
    /\ display[c] = "hidden" <=> review[c] = "hidden"

=============================================================================

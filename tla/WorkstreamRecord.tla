--------------------------- MODULE WorkstreamRecord ---------------------------
(***************************************************************************)
(* The evidence record of a workstream (src/src/docsystem/workstream.py)    *)
(* and the command that validates it (`workstream-status`, cli.py). An      *)
(* agent writes the record beside the documents, one history entry after    *)
(* the other; the engine only reads it and may be asked at any time. What   *)
(* the agent may get wrong is bounded to a first illegal entry.             *)
(***************************************************************************)
EXTENDS Naturals, Sequences, FiniteSets, SequencesExt

CONSTANTS
  Required,    \* evidence a criterion requires
  MaxAttempts, \* attempts it allows
  Attempts,    \* attempt numbers that an agent writes
  Resolutions, \* attempts that findings name as resolving, or 0
  Evidence     \* what may stand in the record's evidence

\* Attempts are numbered.
Numbered == Attempts \subseteq Nat /\ Resolutions \subseteq Nat

VARIABLES
  history,  \* entries [state, attempt]
  sections, \* whether the mandate has the sections the criterion requires
  verdict   \* how the record was last judged, with the findings of a ready one

vars == <<history, sections, verdict>>

Transitions_ReviewAtOnce ==
  [mandated |-> {"planned", "blocked", "cancelled", "failed"},
   planned |-> {"implementing", "blocked", "cancelled", "failed"},
   implementing |-> {"validating", "blocked", "cancelled", "failed"},
   validating |-> {"reviewing", "correcting", "blocked", "failed"},
   reviewing |-> {"correcting", "accepted", "blocked", "failed"},
   correcting |-> {"validating", "reviewing", "blocked", "failed"},
   accepted |-> {"finishing", "correcting", "blocked", "failed"},
   finishing |-> {"completed", "correcting", "blocked", "failed"},
   blocked |-> {}, completed |-> {}, cancelled |-> {}, failed |-> {}]

Transitions ==
  [mandated |-> {"planned", "blocked", "cancelled", "failed"},
   planned |-> {"implementing", "blocked", "cancelled", "failed"},
   implementing |-> {"validating", "blocked", "cancelled", "failed"},
   validating |-> {"reviewing", "correcting", "blocked", "failed"},
   reviewing |-> {"correcting", "accepted", "blocked", "failed"},
   correcting |-> {"validating", "blocked", "failed"},
   accepted |-> {"finishing", "correcting", "blocked", "failed"},
   finishing |-> {"completed", "correcting", "blocked", "failed"},
   blocked |-> {}, completed |-> {}, cancelled |-> {}, failed |-> {}]

States == DOMAIN Transitions
Entries == [state : States, attempt : Attempts]

\* _history: the first entry, each transition, and a new attempt exactly when
\* a correction is left.
Follows(p, e) ==
  /\ e.state \in Transitions[p.state]
  /\ e.attempt = p.attempt + (IF p.state = "correcting" THEN 1 ELSE 0)
Legal(h) ==
  /\ h # <<>> /\ Head(h) = [state |-> "mandated", attempt |-> 1]
  /\ \A i \in 1 .. Len(h) - 1 : Follows(h[i], h[i + 1])

\* _findings: a finding is resolved in a later attempt, or not at all (0).
Findings == {f \in [attempt : Attempts, resolved : Resolutions \cup {0}] :
               f.resolved = 0 \/ f.resolved > f.attempt}

Used(h) == Last(h).attempt
Corrected(h) == {e.attempt : e \in {x \in ToSet(h) : x.state = "correcting"}}

\* evaluate_record, in its two parts: what any record must satisfy, and what a
\* completed one must satisfy besides.
Consistent(h, F) ==
  /\ Used(h) <= MaxAttempts
  /\ Corrected(h) \subseteq {f.attempt : f \in F}
  /\ \A f \in F : f.attempt <= Used(h) /\ f.resolved <= Used(h)
Satisfied(need, e) ==
  /\ need \in DOMAIN e
  /\ CASE need \in {"changes", "returns"} -> e[need] # {}
       [] need = "checks" -> e[need] # {} /\ e[need] \subseteq {"passed"}
       [] need = "review" -> e[need] = [status |-> "accepted", independent |-> TRUE]
       [] OTHER -> TRUE
Complete(F, e) ==
  /\ \A f \in F : f.resolved # 0
  /\ \A need \in Required : Satisfied(need, e)

Judge(h, F, e) ==
  IF ~sections \/ ~Consistent(h, F) THEN "invalid"
  ELSE IF Last(h).state # "completed" THEN "valid"
  ELSE IF Complete(F, e) THEN "ready" ELSE "invalid"

-----------------------------------------------------------------------------

Unjudged == [judged |-> "none"]

Init ==
  /\ history = <<>>
  /\ sections \in BOOLEAN
  /\ verdict = Unjudged

\* The agent goes on from a legal history; the next entry may be any.
Enter ==
  /\ history = <<>> \/ Legal(history)
  /\ \E e \in Entries : history' = Append(history, e)
  /\ verdict' = Unjudged
  /\ UNCHANGED sections

\* `workstream-status`, and `finish` that wants "ready", on what stands: a
\* history that does not load is refused, and the findings are kept of a record
\* that was found ready.
Refuse ==
  /\ ~Legal(history)
  /\ verdict' = [judged |-> "unreadable"]
  /\ UNCHANGED <<history, sections>>

Status ==
  /\ Legal(history)
  /\ \E F \in {S \in SUBSET Findings : Cardinality(S) <= 2}, e \in Evidence :
       LET judged == Judge(history, F, e) IN
         verdict' = IF judged = "ready" THEN [judged |-> judged, findings |-> F]
                                        ELSE [judged |-> judged]
  /\ UNCHANGED <<history, sections>>

Next == Enter \/ Refuse \/ Status

Spec == Init /\ [][Next]_vars

-----------------------------------------------------------------------------
(* Properties *)

\* A record is ready to finish only if the work as it stands at the end was
\* validated and then accepted: nothing was corrected after the last validation
\* and review. Every earlier attempt ended in one correction, for which a
\* finding of that attempt stands resolved in a later attempt that took place.
ReadyIsVerified ==
  verdict.judged = "ready" =>
    LET h == history IN
    /\ [i \in 1 .. 5 |-> h[Len(h) - 5 + i].state] =
         <<"validating", "reviewing", "accepted", "finishing", "completed">>
    /\ \A k \in 1 .. Used(h) - 1 :
         /\ Cardinality({i \in DOMAIN h : h[i].state = "correcting" /\ h[i].attempt = k}) = 1
         /\ \E f \in verdict.findings :
              f.attempt = k /\ \E i \in DOMAIN h : h[i].attempt = f.resolved
    /\ Used(h) <= MaxAttempts

=============================================================================

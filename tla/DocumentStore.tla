---------------------------- MODULE DocumentStore ----------------------------
(***************************************************************************)
(* What the journal promises its callers: a documentation tree on which a  *)
(* declared multi-file write takes effect at one moment or not at all, and *)
(* only if every path it edits or reads still holds the bytes it was       *)
(* declared for; and a write that was decided can be undone at one moment  *)
(* while all its paths hold the bytes it wrote or meant to write.          *)
(***************************************************************************)
EXTENDS Naturals

CONSTANTS Procs, Gens, Paths, Bytes, None

VARIABLES
  store,  \* bytes at each path
  want,   \* want[p]: the write that p has declared, or None
  log,    \* log[g]: the write committed or rejected as generation g, or None
  edited  \* how many edits authors have made

docVars == <<store, want, log, edited>>

\* A declared write: the paths it edits and reads, the bytes it was declared
\* for and the bytes it puts at the edited paths.
Write == [gen : Gens, edits : SUBSET Paths, guards : SUBSET Paths,
          view : [Paths -> Bytes], goal : [Paths -> Bytes]]

Agrees(S, content) == \A x \in S : store[x] = content[x]

Init ==
  /\ store \in [Paths -> Bytes]
  /\ want = [p \in Procs |-> None]
  /\ log = [g \in Gens |-> None]
  /\ edited = 0

\* A declaration is made for the bytes its caller has read, which need not
\* stand there any more and may never have been committed.
Declare(p) ==
  /\ want[p] = None
  /\ want'[p] \in Write
  /\ \A q \in Procs \ {p} : want'[q] = want[q]
  /\ UNCHANGED <<store, log, edited>>

Logged(w) == [view |-> [x \in w.edits |-> w.view[x]],
              goal |-> [x \in w.edits |-> w.goal[x]]]

Commit(p) ==
  LET w == want[p] IN
  /\ w # None
  /\ log[w.gen] = None
  /\ Agrees(w.edits \cup w.guards, w.view)
  /\ store' = [x \in Paths |-> IF x \in w.edits THEN w.goal[x] ELSE store[x]]
  /\ log' = [log EXCEPT ![w.gen] = Logged(w)]
  /\ want' = [want EXCEPT ![p] = None]
  /\ UNCHANGED edited

Abandon(p) ==
  /\ want[p] # None
  /\ want' = [want EXCEPT ![p] = None]
  /\ UNCHANGED <<store, log, edited>>

\* A write that was rejected after it had begun is logged like a committed
\* one, but its effect never shows.
Reject(g) ==
  /\ log[g] = None
  /\ \E E \in SUBSET Paths :
       log'[g] \in [view : [E -> Bytes], goal : [E -> Bytes]]
  /\ \A h \in Gens \ {g} : log'[h] = log[h]
  /\ UNCHANGED <<store, want, edited>>

Undo(g) ==
  LET w == log[g] IN
  /\ w # None
  /\ Agrees(DOMAIN w.goal, w.goal)
  /\ store' = [x \in Paths |-> IF x \in DOMAIN w.view THEN w.view[x]
                               ELSE store[x]]
  /\ UNCHANGED <<want, log, edited>>

AuthorEdit(x) ==
  /\ store' = [store EXCEPT ![x] = store'[x]]
  /\ store'[x] \in Bytes
  /\ edited' = edited + 1
  /\ UNCHANGED <<want, log>>

DocNext ==
  \/ \E p \in Procs : Declare(p) \/ Commit(p) \/ Abandon(p)
  \/ \E g \in Gens : Reject(g) \/ Undo(g)
  \/ \E x \in Paths : AuthorEdit(x)

DocSpec == Init /\ [][DocNext]_docVars
=============================================================================

-------------------------- MODULE MaintenanceProofs --------------------------
(* Theorems about the commands that write authored Markdown, for any number  *)
(* of sessions, generations, documents, edits and crashes: what is reported, *)
(* approved and published is true, and nothing else in a document changes.   *)
EXTENDS Maintenance, TLAPS

-----------------------------------------------------------------------------
(* The inductive invariant *)

Writing(j) == \/ j.pc = "replace" \/ j.pc = "validate"
              \/ j.pc = "publish" \/ j.pc = "restore"
Mechanical(j) == j.cmd = "write" \/ j.cmd = "migrate"
Recovering(j) == \/ j.cmd = "recover" \/ j.cmd = "interrupted"
                 \/ j.cmd = "migrate-interrupted"

\* What the proof needs of the types.
SessionTyped(j) ==
  /\ DOMAIN j = {"pc", "cmd", "selected", "managed", "man", "cfg", "sha", "ask",
                 "view", "plan", "guard", "todo", "gen", "result"}
  /\ j.view \in Partial /\ j.plan \in Partial
  /\ j.guard = None \/ j.guard \in Doc
  /\ j.todo \subseteq Files

\* Which commands reach which phases, and what they carry there.
Flow(j) ==
  /\ j.pc = "select" \/ j.pc = "load" =>
       j.cmd = "preview" \/ Mechanical(j) \/ Recovering(j)
  /\ j.pc = "view" => j.cmd = "preview" \/ Mechanical(j)
  /\ j.pc = "plansource" \/ j.pc = "plandoc" \/ j.pc = "hash" =>
       j.cmd = "preview" \/ j.cmd = "write"
  /\ j.pc = "planrelation" \/ j.pc = "scratch" => j.cmd = "migrate"
  /\ j.pc = "admit" \/ Writing(j) => Mechanical(j)
  /\ j.pc = "undo" \/ j.pc = "postvalidate" => Recovering(j)
  /\ j.pc = "view" \/ j.pc = "plansource" => j.cfg \in Configs
  /\ j.pc # "idle" /\ j.cmd = "migrate" => ~j.selected
  /\ j.pc # "idle" /\ Recovering(j) => j.gen \in Gens

\* A maintenance plan, as far as it goes: documents that own occurrences, with
\* the blocks that were classified, beside the canonical block as it was read.
Occurrences(j) ==
  \A f \in InUse(j.plan) :
    /\ f \in Docs /\ j.plan[f].block = j.view[f].block
    /\ j.guard \in Doc /\ j.guard.block = j.view[Src].block
Expected(j) == j.cmd = "write" => j.ask.view[Src].block = j.view[Src].block
Approved(j) ==
  j.cmd = "write" /\ j.selected =>
    /\ j.ask.view = j.view /\ j.ask.after = Rendered(j)
    /\ j.ask.man = j.man /\ j.ask.sha = j.sha

Planned(j) ==
  /\ \/ j.pc = "select" \/ j.pc = "load" \/ j.pc = "view" \/ j.pc = "plansource"
     => j.plan = Nothing
  /\ j.pc = "plandoc" =>
       /\ j.todo \subseteq Docs
       /\ j.guard \in Doc /\ j.guard.block = j.view[Src].block
  /\ j.cmd # "migrate" /\ (j.pc = "plandoc" \/ j.pc = "hash" \/ j.pc = "admit") =>
       Occurrences(j) /\ Expected(j)
  /\ j.pc = "admit" => Approved(j)

\* The evidence of a generation is of one bounded kind of change.
Bounded(e) ==
  /\ \A f \in Files : e.before[f] = None <=> e.after[f] = None
  /\ e.cmd = "write" => \A f \in InUse(e.before) :
       f \in Docs /\ e.after[f] = WithBlock(e.before[f], e.ask.view[Src].block)
  /\ e.cmd = "migrate" => \A f \in InUse(e.before) :
       e.after[f] = WithRelations(e.before[f])
Seen(e) ==
  e.cmd = "write" /\ e.sha # None =>
    /\ e.after = e.ask.after
    /\ \A f \in InUse(e.before) : e.before[f].block = e.ask.view[f].block
    /\ e.man = e.ask.man /\ e.sha = e.ask.sha
EvidenceFields == {"status", "undone", "cmd", "before", "after", "man", "sha", "ask"}
Sound(e) ==
  /\ DOMAIN e = EvidenceFields
  /\ e.before \in Partial /\ e.after \in Partial
  /\ e.cmd = "write" \/ e.cmd = "migrate"
  /\ e.cmd = "migrate" => e.sha = None
  /\ Bounded(e) /\ Seen(e)

\* A session that writes holds the lock, and the tree stands as its progress
\* says; the canonical block is the one it puts.
Standing(j, e) ==
  /\ j.pc = "replace" => \A f \in InUse(e.before) :
       doc[f] = IF f \in j.todo THEN e.before[f] ELSE e.after[f]
  /\ j.pc = "validate" \/ j.pc = "publish" =>
       \A f \in InUse(e.before) : doc[f] = e.after[f]
  /\ j.pc = "restore" => \A f \in InUse(e.before) :
       doc[f] = e.before[f] \/ (f \in j.todo /\ doc[f] = e.after[f])
  /\ j.pc = "publish" => Blockers(doc) = {}
Held(s, j, e) ==
  /\ lock = s /\ j.gen \in Gens
  /\ e # None /\ e.status = "open" /\ e.cmd = j.cmd
  /\ j.todo \subseteq InUse(e.before)
  /\ e.sha # None => j.selected /\ e.sha = j.sha /\ e.man = j.man
  /\ e.cmd = "write" /\ InUse(e.before) # {} =>
       doc[Src].block = e.ask.view[Src].block
  /\ Standing(j, e)

\* A session with something to report, and what has been reported.
Ending(j) == j.pc = "refresh" \/ j.pc = "postvalidate"
Backed(j) == j.gen \in Gens /\ Borne(gen[j.gen], j.result)
Truthful(g) == \A word \in told[g] : Borne(gen[g], word)

\* Whatever is true of the evidence e stays true of d.
Bears(e, d) == \A word : Borne(e, word) => Borne(d, word)

Typed ==
  /\ doc \in [Files -> Doc] /\ cfg \in Configs
  /\ DOMAIN sess = Sessions /\ DOMAIN gen = Gens /\ DOMAIN told = Gens
  /\ \A s \in Sessions : SessionTyped(sess[s])

CommandsInv ==
  /\ Typed
  /\ \A s \in Sessions : Flow(sess[s]) /\ Planned(sess[s])
  /\ \A s \in Sessions : Writing(sess[s]) => Held(s, sess[s], gen[sess[s].gen])
  /\ \A s \in Sessions : Ending(sess[s]) => Backed(sess[s])
  /\ \A g \in Gens : (gen[g] # None => Sound(gen[g])) /\ Truthful(g)

\* The only thing that is assumed beside the module's assumptions: None is not
\* a record of evidence.
NoneApart == DOMAIN None # EvidenceFields

-----------------------------------------------------------------------------
(* Facts about the helpers *)

LEMMA NothingInUse == InUse(Nothing) = {} /\ Nothing \in Partial
BY DEF InUse, Nothing, Partial

LEMMA InUseFiles == ASSUME NEW part PROVE InUse(part) \subseteq Files
BY DEF InUse

LEMMA PartInUse ==
  ASSUME NEW part \in Partial, NEW f \in InUse(part)
  PROVE  f \in Files /\ part[f] \in Doc /\ part[f] # None
BY DEF InUse, Partial

LEMMA DocFields ==
  ASSUME NEW d \in Doc
  PROVE  d.block \in Blocks \cup {Broken} /\ d.rest \in Rests
BY DEF Doc

LEMMA WithBlockDoc ==
  ASSUME NEW d \in Doc, NEW b \in Blocks \cup {Broken}
  PROVE  /\ WithBlock(d, b) \in Doc
         /\ WithBlock(d, b).block = b /\ WithBlock(d, b).rest = d.rest
BY DEF WithBlock, Doc

LEMMA WithRelationsDoc ==
  ASSUME NEW d \in Doc
  PROVE  /\ WithRelations(d) \in Doc
         /\ WithRelations(d).block = d.block /\ WithRelations(d).rest = "plain"
BY ValuesAssumption DEF WithRelations, Doc

\* Putting back the block that was replaced.
LEMMA BlockBack ==
  ASSUME NEW d \in Doc, NEW b \in Blocks \cup {Broken}
  PROVE  d = WithBlock(WithBlock(d, b), d.block)
BY DEF WithBlock, Doc

LEMMA LeastIn == ASSUME NEW S, NEW f, Least(S, f) PROVE f \in S
BY DEF Least

-----------------------------------------------------------------------------
(* The initial state *)

LEMMA IdleSession ==
  /\ SessionTyped(Idle) /\ Flow(Idle) /\ Planned(Idle)
  /\ ~Writing(Idle) /\ Idle.pc = "idle"
<1>1. Idle.pc = "idle" /\ Idle.plan = Nothing
  BY DEF Idle
<1>2. SessionTyped(Idle)
  BY NothingInUse DEF Idle, SessionTyped
<1> QED
  BY <1>1, <1>2 DEF Flow, Planned, Writing

LEMMA CommandsInit == Init => CommandsInv
<1> SUFFICES ASSUME Init PROVE CommandsInv
  OBVIOUS
<1>1. Typed
  <2>1. doc \in [Files -> Doc]
    BY DEF Init, Doc
  <2>2. \A s \in Sessions : sess[s] = Idle
    BY DEF Init
  <2> QED
    BY <2>1, <2>2, IdleSession DEF Init, Typed
<1>2. \A s \in Sessions : sess[s] = Idle
  BY DEF Init
<1>3. \A g \in Gens : gen[g] = None /\ told[g] = {}
  BY DEF Init
<1> QED
  BY <1>1, <1>2, <1>3, IdleSession DEF CommandsInv, Truthful, Ending


-----------------------------------------------------------------------------
(* Steps that change what one session knows, and not the tree *)

\* A session that knows something else, and does not write.
Private(j) ==
  /\ SessionTyped(j) /\ Flow(j) /\ Planned(j)
  /\ ~Writing(j)
  /\ j.pc = "refresh" \/ j.pc = "postvalidate" => Backed(j)

LEMMA ReportStep ==
  ASSUME CommandsInv, NEW s \in Sessions, NEW next, Private(next),
         sess' = [sess EXCEPT ![s] = next], UNCHANGED <<doc, cfg, lock, gen>>,
         DOMAIN told' = Gens, \A g \in Gens : Truthful(g)'
  PROVE  CommandsInv'
<1>1. \A r \in Sessions : sess'[r] = IF r = s THEN next ELSE sess[r]
  BY DEF CommandsInv, Typed
<1>2. Typed'
  BY <1>1 DEF CommandsInv, Typed, Private
<1>3. \A r \in Sessions : Flow(sess'[r]) /\ Planned(sess'[r])
  BY <1>1 DEF CommandsInv, Private
<1>4. ASSUME NEW r \in Sessions, Writing(sess'[r])
      PROVE  Held(r, sess[r], gen[sess[r].gen]) /\ sess'[r] = sess[r]
  BY <1>1, <1>4 DEF CommandsInv, Private
<1>5. ASSUME NEW r \in Sessions, Writing(sess'[r])
      PROVE  Held(r, sess[r], gen[sess[r].gen])'
  BY <1>4, <1>5 DEF Held, Standing
<1>6. ASSUME NEW r \in Sessions, Ending(sess'[r])
      PROVE  Backed(sess[r])'
  BY <1>1, <1>6 DEF CommandsInv, Private, Ending, Backed
<1>7. \A g \in Gens : (gen'[g] # None => Sound(gen'[g])) /\ Truthful(g)'
  BY DEF CommandsInv
<1> QED
  BY <1>2, <1>3, <1>5, <1>6, <1>7 DEF CommandsInv

LEMMA PrivateStep ==
  ASSUME CommandsInv, NEW s \in Sessions, NEW next, Private(next),
         sess' = [sess EXCEPT ![s] = next], UNCHANGED <<doc, cfg, lock, evidence>>
  PROVE  CommandsInv'
<1>1. DOMAIN told' = Gens /\ \A g \in Gens : Truthful(g)'
  BY DEF evidence, CommandsInv, Typed, Truthful
<1> QED
  BY <1>1, ReportStep DEF evidence

LEMMA ContinueStep ==
  ASSUME CommandsInv, NEW s \in Sessions, NEW next, Continue(s, next), Private(next)
  PROVE  CommandsInv'
BY PrivateStep DEF Continue, Become, project

LEMMA RefuseStep ==
  ASSUME CommandsInv, NEW s \in Sessions, Refuse(s) PROVE CommandsInv'
<1>1. Private(Idle)
  BY IdleSession DEF Private
<1> QED
  BY <1>1, ContinueStep DEF Refuse

\* What is known of a session before it moves.
LEMMA Known ==
  ASSUME CommandsInv, NEW s \in Sessions
  PROVE  SessionTyped(sess[s]) /\ Flow(sess[s]) /\ Planned(sess[s])
BY DEF CommandsInv, Typed

LEMMA StartStep ==
  ASSUME CommandsInv, NEW s \in Sessions, NEW cmd \in AllCommands,
         NEW selected \in BOOLEAN, NEW g \in Gens, Start(s, cmd, selected, g)
  PROVE  CommandsInv'
<1> DEFINE next == [Idle EXCEPT !.pc = IF selected THEN "select" ELSE "load",
                      !.cmd = cmd, !.selected = selected,
                      !.gen = IF cmd \in Recoveries THEN g ELSE None,
                      !.ask = IF cmd = "write" THEN approved ELSE None]
<1>1. sess' = [sess EXCEPT ![s] = next] /\ UNCHANGED <<doc, cfg, lock, evidence>>
  BY DEF Start, Become, project
<1>2. selected => cmd # "migrate"
  BY DEF Start
<1>3. /\ DOMAIN next = DOMAIN Idle
      /\ next.pc = IF selected THEN "select" ELSE "load"
      /\ next.cmd = cmd /\ next.view = Nothing /\ next.plan = Nothing
      /\ next.guard = None /\ next.todo = {}
      /\ next.gen = IF cmd \in Recoveries THEN g ELSE None
  BY DEF Idle
<1>4. next.selected => selected
  BY DEF Idle
<1>5. SessionTyped(next)
  BY <1>3, NothingInUse DEF SessionTyped, Idle
<1>6. cmd = "preview" \/ Mechanical(next) \/ Recovering(next)
  BY <1>3 DEF AllCommands, Recoveries, Mechanical, Recovering
<1>7. Recovering(next) => next.gen \in Gens
  BY <1>3 DEF Recovering, Recoveries
<1>8. Flow(next)
  BY <1>2, <1>3, <1>4, <1>6, <1>7 DEF Flow, Writing
<1>9. Planned(next)
  BY <1>3 DEF Planned
<1>10. Private(next)
  BY <1>3, <1>5, <1>8, <1>9 DEF Private, Writing
<1> HIDE DEF next
<1> QED
  BY <1>1, <1>10, PrivateStep


LEMMA SelectStep ==
  ASSUME CommandsInv, NEW s \in Sessions, Select(s) PROVE CommandsInv'
<1> DEFINE j == sess[s]
           known == man \in Managed
           next == [j EXCEPT !.pc = "load", !.managed = known]
<1>1. j.pc = "select" /\ Continue(s, next)
  BY DEF Select, At
<1>2. SessionTyped(j) /\ Flow(j) /\ Planned(j)
  BY Known
<1>3. /\ DOMAIN next = DOMAIN j /\ next.pc = "load" /\ next.cmd = j.cmd
      /\ next.selected = j.selected /\ next.gen = j.gen
      /\ next.view = j.view /\ next.plan = j.plan /\ next.guard = j.guard
      /\ next.todo = j.todo
  BY <1>2 DEF SessionTyped
<1> HIDE DEF next
<1>4. SessionTyped(next)
  BY <1>2, <1>3 DEF SessionTyped
<1>5. Flow(next)
  BY <1>1, <1>2, <1>3 DEF Flow, Mechanical, Recovering, Writing
<1>6. Planned(next)
  BY <1>1, <1>2, <1>3 DEF Planned
<1> QED
  BY <1>1, <1>3, <1>4, <1>5, <1>6, ContinueStep DEF Private, Writing

LEMMA LoadStep ==
  ASSUME CommandsInv, NEW s \in Sessions, Load(s) PROVE CommandsInv'
<1> DEFINE j == sess[s]
           recovering == j.cmd \in Recoveries
           next == [j EXCEPT
            !.pc = IF recovering THEN "undo" ELSE "view",
            !.cfg = cfg,
            !.man = IF j.selected THEN man ELSE None,
            !.sha = IF recovering THEN cfg ELSE None,
            !.todo = IF recovering THEN {} ELSE Files]
<1>1. CASE Refuse(s)
  BY <1>1, RefuseStep
<1>2. CASE Continue(s, next)
  <2>1. j.pc = "load"
    BY DEF Load, At
  <2>2. SessionTyped(j) /\ Flow(j) /\ Planned(j)
    BY Known
  <2>3. /\ DOMAIN next = DOMAIN j /\ next.cmd = j.cmd /\ next.cfg = cfg
        /\ next.selected = j.selected /\ next.gen = j.gen
        /\ next.view = j.view /\ next.plan = j.plan /\ next.guard = j.guard
        /\ next.todo \subseteq Files
        /\ next.pc = IF recovering THEN "undo" ELSE "view"
    BY <2>2 DEF SessionTyped
  <2>4. recovering <=> Recovering(j)
    BY DEF Recoveries, Recovering
  <2>5. cfg \in Configs
    BY DEF CommandsInv, Typed
  <2> HIDE DEF next, recovering
  <2>6. SessionTyped(next)
    BY <2>2, <2>3 DEF SessionTyped
  <2>7. Flow(next)
    BY <2>1, <2>2, <2>3, <2>4, <2>5 DEF Flow, Mechanical, Recovering, Writing
  <2>8. Planned(next)
    BY <2>1, <2>2, <2>3 DEF Planned
  <2> QED
    BY <1>2, <2>3, <2>6, <2>7, <2>8, ContinueStep DEF Private, Writing
<1> QED
  BY <1>1, <1>2 DEF Load

LEMMA ViewStep ==
  ASSUME CommandsInv, NEW s \in Sessions, View(s) PROVE CommandsInv'
<1> DEFINE j == sess[s]
<1>1. PICK f \in Files :
        /\ Least(j.todo, f)
        /\ Continue(s, [j EXCEPT !.view[f] = doc[f], !.todo = @ \ {f},
             !.pc = Then(j.todo, f, IF j.cmd = "migrate" THEN "planrelation"
                                    ELSE "plansource", "view")])
  BY DEF View
<1> DEFINE stage == Then(j.todo, f, IF j.cmd = "migrate" THEN "planrelation"
                                    ELSE "plansource", "view")
           next == [j EXCEPT !.view[f] = doc[f], !.todo = @ \ {f}, !.pc = stage]
<1>2. j.pc = "view" /\ SessionTyped(j) /\ Flow(j) /\ Planned(j)
  BY Known DEF View, At
<1>3. \/ stage = "view"
      \/ stage = "planrelation" /\ j.cmd = "migrate"
      \/ stage = "plansource" /\ j.cmd # "migrate"
  BY DEF Then
<1> HIDE DEF stage
<1>4. /\ DOMAIN next = DOMAIN j /\ next.cmd = j.cmd /\ next.cfg = j.cfg
      /\ next.selected = j.selected /\ next.gen = j.gen
      /\ next.plan = j.plan /\ next.guard = j.guard
      /\ next.todo = j.todo \ {f}
      /\ next.pc = stage /\ next.view = [j.view EXCEPT ![f] = doc[f]]
  BY <1>2 DEF SessionTyped
<1>5. doc[f] \in Doc
  BY DEF CommandsInv, Typed
<1>6. next.view \in Partial
  BY <1>2, <1>4, <1>5 DEF SessionTyped, Partial
<1>7. SessionTyped(next)
  BY <1>2, <1>4, <1>6 DEF SessionTyped
<1>8. Flow(next)
  BY <1>2, <1>3, <1>4 DEF Flow, Mechanical, Recovering, Writing
<1>9. Planned(next)
  BY <1>2, <1>3, <1>4 DEF Planned
<1>10. ~Writing(next) /\ next.pc # "refresh" /\ next.pc # "postvalidate"
  BY <1>3, <1>4 DEF Writing
<1>11. Continue(s, next)
  BY <1>1 DEF stage
<1> HIDE DEF next
<1> QED
  BY <1>7, <1>8, <1>9, <1>10, <1>11, ContinueStep DEF Private


LEMMA PlanSourceStep ==
  ASSUME CommandsInv, NEW s \in Sessions, PlanSource(s) PROVE CommandsInv'
<1> DEFINE j == sess[s]
           drifted == Drifted(j)
<1>1. j.pc = "plansource" /\ SessionTyped(j) /\ Flow(j) /\ Planned(j)
  BY Known DEF PlanSource, At
<1>2. j.plan = Nothing /\ (j.cmd = "preview" \/ j.cmd = "write") /\ j.cfg \in Configs
  BY <1>1 DEF Planned, Flow
<1>3. CASE Refuse(s)
  BY <1>3, RefuseStep
<1>4. CASE ~Rejected(j) /\ Continue(s, [j EXCEPT !.pc = "hash"])
  <2> DEFINE next == [j EXCEPT !.pc = "hash"]
  <2>1. /\ DOMAIN next = DOMAIN j /\ next.cmd = j.cmd /\ next.gen = j.gen
        /\ next.selected = j.selected /\ next.view = j.view /\ next.plan = j.plan
        /\ next.guard = j.guard /\ next.todo = j.todo /\ next.ask = j.ask
        /\ next.pc = "hash"
    BY <1>1 DEF SessionTyped
  <2>2. Expected(j)
    BY <1>4 DEF Expected, Rejected
  <2> HIDE DEF next
  <2>3. SessionTyped(next)
    BY <1>1, <2>1 DEF SessionTyped
  <2>4. Flow(next)
    BY <1>1, <1>2, <2>1 DEF Flow, Mechanical, Recovering, Writing
  <2>5. Occurrences(next) /\ Expected(next)
    BY <1>2, <2>1, <2>2, NothingInUse DEF Occurrences, Expected
  <2>6. Planned(next)
    BY <2>1, <2>5 DEF Planned
  <2> QED
    BY <1>4, <2>1, <2>3, <2>4, <2>6, ContinueStep DEF Private, Writing, next
<1>5. CASE /\ ~Rejected(j) /\ doc[Src].block = j.view[Src].block
           /\ Continue(s, [j EXCEPT !.pc = "plandoc", !.guard = doc[Src],
                                    !.todo = drifted])
  <2> DEFINE next == [j EXCEPT !.pc = "plandoc", !.guard = doc[Src], !.todo = drifted]
  <2>1. /\ DOMAIN next = DOMAIN j /\ next.cmd = j.cmd /\ next.gen = j.gen
        /\ next.selected = j.selected /\ next.view = j.view /\ next.plan = j.plan
        /\ next.guard = doc[Src] /\ next.todo = drifted /\ next.ask = j.ask
        /\ next.pc = "plandoc"
    BY <1>1 DEF SessionTyped
  <2>2. Expected(j)
    BY <1>5 DEF Expected, Rejected
  <2>3. drifted \subseteq Docs
    BY <1>2, ValuesAssumption DEF Drifted
  <2>4. doc[Src] \in Doc
    BY DEF CommandsInv, Typed, Files
  <2> HIDE DEF next, drifted
  <2>5. SessionTyped(next)
    BY <1>1, <2>1, <2>3, <2>4 DEF SessionTyped, Files
  <2>6. Flow(next)
    BY <1>1, <1>2, <2>1 DEF Flow, Mechanical, Recovering, Writing
  <2>7. Occurrences(next) /\ Expected(next)
    BY <1>2, <2>1, <2>2, NothingInUse DEF Occurrences, Expected
  <2>8. Planned(next)
    BY <1>5, <2>1, <2>3, <2>4, <2>7 DEF Planned
  <2> QED
    BY <1>5, <2>1, <2>5, <2>6, <2>8, ContinueStep DEF Private, Writing, next
<1> QED
  BY <1>3, <1>4, <1>5 DEF PlanSource

LEMMA PlanDocStep ==
  ASSUME CommandsInv, NEW s \in Sessions, PlanDoc(s) PROVE CommandsInv'
<1> DEFINE j == sess[s]
<1>1. j.pc = "plandoc" /\ SessionTyped(j) /\ Flow(j) /\ Planned(j)
  BY Known DEF PlanDoc, At
<1>2. PICK f \in Files :
        /\ Least(j.todo, f)
        /\ IF \/ doc[f].block # j.view[f].block
              \/ ~SameLine(doc[f], j.view[f])
           THEN Refuse(s)
           ELSE Continue(s, [j EXCEPT !.plan[f] = doc[f], !.todo = @ \ {f},
                  !.pc = Then(j.todo, f, "hash", "plandoc")])
  BY DEF PlanDoc
<1> DEFINE stage == Then(j.todo, f, "hash", "plandoc")
           next == [j EXCEPT !.plan[f] = doc[f], !.todo = @ \ {f}, !.pc = stage]
<1>3. CASE Refuse(s)
  BY <1>3, RefuseStep
<1>4. CASE doc[f].block = j.view[f].block /\ Continue(s, next)
  <2>1. stage = "plandoc" \/ stage = "hash"
    BY DEF Then
  <2>2. f \in Docs
    BY <1>1, <1>2, LeastIn DEF Planned
  <2>3. doc[f] \in Doc
    BY DEF CommandsInv, Typed
  <2> HIDE DEF stage
  <2>4. /\ DOMAIN next = DOMAIN j /\ next.cmd = j.cmd /\ next.gen = j.gen
        /\ next.selected = j.selected /\ next.view = j.view
        /\ next.guard = j.guard /\ next.todo = j.todo \ {f} /\ next.ask = j.ask
        /\ next.pc = stage /\ next.plan = [j.plan EXCEPT ![f] = doc[f]]
    BY <1>1 DEF SessionTyped
  <2> HIDE DEF next
  <2>5. next.plan \in Partial
    BY <1>1, <2>3, <2>4 DEF SessionTyped, Partial
  <2>6. SessionTyped(next)
    BY <1>1, <2>4, <2>5 DEF SessionTyped
  <2>7. j.cmd = "preview" \/ j.cmd = "write"
    BY <1>1 DEF Flow
  <2>8. Flow(next)
    BY <1>1, <2>1, <2>4, <2>7 DEF Flow, Mechanical, Recovering, Writing
  <2>9. Occurrences(j) /\ Expected(j)
    BY <1>1, <2>7 DEF Planned
  <2>10. Occurrences(next)
    <3>1. ASSUME NEW e \in InUse(next.plan)
          PROVE  e \in Docs /\ next.plan[e].block = next.view[e].block
      <4>1. CASE e = f
        BY <1>1, <1>4, <2>2, <2>4, <4>1 DEF SessionTyped, Partial
      <4>2. CASE e # f
        <5>1. e \in InUse(j.plan) /\ next.plan[e] = j.plan[e]
          BY <1>1, <2>4, <4>2 DEF InUse, SessionTyped, Partial
        <5> QED
          BY <2>4, <2>9, <5>1 DEF Occurrences
      <4> QED
        BY <4>1, <4>2
    <3> QED
      BY <1>1, <2>4, <3>1 DEF Occurrences, Planned
  <2>11. Expected(next)
    BY <2>4, <2>9 DEF Expected
  <2>12. Planned(next)
    BY <1>1, <2>1, <2>4, <2>10, <2>11 DEF Planned
  <2> QED
    BY <1>4, <2>1, <2>4, <2>6, <2>8, <2>12, ContinueStep DEF Private, Writing
<1> QED
  BY <1>2, <1>3, <1>4

\* The approval of a selected write is the preview of its own plan.
LEMMA HashStep ==
  ASSUME CommandsInv, NEW s \in Sessions, Hash(s) PROVE CommandsInv'
<1> DEFINE j == sess[s]
           next == [j EXCEPT !.pc = "admit", !.sha = cfg]
<1>1. j.pc = "hash" /\ SessionTyped(j) /\ Flow(j) /\ Planned(j)
  BY Known DEF Hash, At
<1>2. CASE j.cmd = "preview"
  <2>1. sess' = [sess EXCEPT ![s] = Idle] /\ UNCHANGED <<doc, cfg, lock, evidence>>
    BY <1>2 DEF Hash, Become, project
  <2>2. Private(Idle)
    BY IdleSession DEF Private
  <2> QED
    BY <2>1, <2>2, PrivateStep
<1>3. CASE Refuse(s)
  BY <1>3, RefuseStep
<1>4. CASE j.cmd # "preview" /\ ~(j.selected /\ Preview(j) # j.ask) /\ Continue(s, next)
  <2>1. /\ DOMAIN next = DOMAIN j /\ next.cmd = j.cmd /\ next.gen = j.gen
        /\ next.selected = j.selected /\ next.view = j.view /\ next.plan = j.plan
        /\ next.guard = j.guard /\ next.todo = j.todo /\ next.ask = j.ask
        /\ next.man = j.man /\ next.pc = "admit" /\ next.sha = cfg
    BY <1>1 DEF SessionTyped
  <2> HIDE DEF next
  <2>2. j.cmd = "write"
    BY <1>1, <1>4 DEF Flow
  <2>3. SessionTyped(next)
    BY <1>1, <2>1 DEF SessionTyped
  <2>4. Flow(next)
    BY <2>1, <2>2 DEF Flow, Mechanical, Recovering, Writing
  <2>5. Occurrences(j) /\ Expected(j)
    BY <1>1, <2>2 DEF Planned
  <2>6. Occurrences(next) /\ Expected(next)
    BY <2>1, <2>5 DEF Occurrences, Expected
  <2>7. Approved(next)
    <3> SUFFICES ASSUME next.selected
                 PROVE  /\ next.ask.view = next.view /\ next.ask.after = Rendered(next)
                        /\ next.ask.man = next.man /\ next.ask.sha = next.sha
      BY DEF Approved
    <3>1. j.ask = Preview(j)
      BY <1>4, <2>1
    <3>2. Rendered(next) = Rendered(j)
      BY <2>1 DEF Rendered
    <3>3. /\ j.ask.view = j.view /\ j.ask.after = Rendered(j)
          /\ j.ask.man = j.man /\ j.ask.sha = cfg
      BY <3>1 DEF Preview
    <3> QED
      BY <2>1, <3>2, <3>3
  <2>8. Planned(next)
    BY <2>1, <2>6, <2>7 DEF Planned
  <2> QED
    BY <1>4, <2>1, <2>3, <2>4, <2>8, ContinueStep DEF Private, Writing
<1> QED
  BY <1>2, <1>3, <1>4 DEF Hash


LEMMA PlanRelationStep ==
  ASSUME CommandsInv, NEW s \in Sessions, PlanRelation(s) PROVE CommandsInv'
<1> DEFINE j == sess[s]
           plan == [f \in Files |-> IF f \in Legacy(j.view) THEN doc[f] ELSE None]
           next == [j EXCEPT !.pc = "scratch", !.plan = plan]
<1>1. j.pc = "planrelation" /\ SessionTyped(j) /\ Flow(j) /\ Planned(j)
  BY Known DEF PlanRelation, At
<1>2. CASE Refuse(s)
  BY <1>2, RefuseStep
<1>3. CASE Continue(s, next)
  <2>1. plan \in Partial
    BY DEF CommandsInv, Typed, Partial
  <2> HIDE DEF plan
  <2>2. /\ DOMAIN next = DOMAIN j /\ next.cmd = j.cmd /\ next.gen = j.gen
        /\ next.selected = j.selected /\ next.view = j.view /\ next.plan = plan
        /\ next.guard = j.guard /\ next.todo = j.todo /\ next.pc = "scratch"
    BY <1>1 DEF SessionTyped
  <2> HIDE DEF next
  <2>3. SessionTyped(next)
    BY <1>1, <2>1, <2>2 DEF SessionTyped
  <2>4. Flow(next)
    BY <1>1, <2>2 DEF Flow, Mechanical, Recovering, Writing
  <2>5. Planned(next)
    BY <2>2 DEF Planned
  <2> QED
    BY <1>3, <2>2, <2>3, <2>4, <2>5, ContinueStep DEF Private, Writing
<1> QED
  BY <1>2, <1>3 DEF PlanRelation

LEMMA ScratchStep ==
  ASSUME CommandsInv, NEW s \in Sessions, Scratch(s) PROVE CommandsInv'
<1> DEFINE j == sess[s]
           next == [j EXCEPT !.pc = "admit"]
<1>1. j.pc = "scratch" /\ SessionTyped(j) /\ Flow(j) /\ Planned(j)
  BY Known DEF Scratch, At
<1>2. CASE Refuse(s)
  BY <1>2, RefuseStep
<1>3. CASE Continue(s, next)
  <2>1. /\ DOMAIN next = DOMAIN j /\ next.cmd = j.cmd /\ next.gen = j.gen
        /\ next.selected = j.selected /\ next.view = j.view /\ next.plan = j.plan
        /\ next.guard = j.guard /\ next.todo = j.todo /\ next.pc = "admit"
    BY <1>1 DEF SessionTyped
  <2> HIDE DEF next
  <2>2. SessionTyped(next)
    BY <1>1, <2>1 DEF SessionTyped
  <2>3. Flow(next)
    BY <1>1, <2>1 DEF Flow, Mechanical, Recovering, Writing
  <2>4. next.cmd = "migrate"
    BY <1>1, <2>1 DEF Flow
  <2>5. Planned(next)
    BY <2>1, <2>4 DEF Planned, Approved
  <2> QED
    BY <1>3, <2>1, <2>2, <2>3, <2>5, ContinueStep DEF Private, Writing
<1> QED
  BY <1>2, <1>3 DEF Scratch

LEMMA PostValidateStep ==
  ASSUME CommandsInv, NEW s \in Sessions, PostValidate(s) PROVE CommandsInv'
<1> DEFINE j == sess[s]
           next == [j EXCEPT !.pc = "refresh"]
<1>1. j.pc = "postvalidate" /\ SessionTyped(j) /\ Flow(j) /\ Planned(j)
  BY Known DEF PostValidate, At
<1>2. CASE Refuse(s)
  BY <1>2, RefuseStep
<1>3. CASE Continue(s, next)
  <2>1. /\ DOMAIN next = DOMAIN j /\ next.cmd = j.cmd /\ next.gen = j.gen
        /\ next.selected = j.selected /\ next.view = j.view /\ next.plan = j.plan
        /\ next.guard = j.guard /\ next.todo = j.todo /\ next.pc = "refresh"
        /\ next.result = j.result
    BY <1>1 DEF SessionTyped
  <2> HIDE DEF next
  <2>2. SessionTyped(next) /\ Planned(next)
    BY <1>1, <2>1 DEF SessionTyped, Planned
  <2>3. Flow(next)
    BY <1>1, <2>1 DEF Flow, Mechanical, Recovering, Writing
  <2>4. Backed(next)
    BY <1>1, <2>1 DEF CommandsInv, Ending, Backed
  <2> QED
    BY <1>3, <2>1, <2>2, <2>3, <2>4, ContinueStep DEF Private, Writing
<1> QED
  BY <1>2, <1>3 DEF PostValidate

-----------------------------------------------------------------------------
(* Steps of the session that holds the lock *)

\* Nobody writes while the lock is free, and one session at most otherwise.
LEMMA OnlyHolder ==
  ASSUME CommandsInv, NEW r \in Sessions, Writing(sess[r])
  PROVE  lock = r /\ lock # None
BY ValuesAssumption DEF CommandsInv, Held

\* The plan of a session as evidence.
LEMMA RenderedSound ==
  ASSUME NEW j, SessionTyped(j), Mechanical(j),
         j.cmd = "write" => Occurrences(j),
         NEW e, e = [status |-> "open", undone |-> FALSE, cmd |-> j.cmd, before |-> j.plan,
                     after |-> Rendered(j), man |-> j.man,
                     sha |-> IF j.selected THEN j.sha ELSE None, ask |-> j.ask],
         j.cmd = "migrate" => ~j.selected,
         j.cmd = "write" => Expected(j) /\ Approved(j)
  PROVE  Sound(e)
<1>1. /\ e.cmd = j.cmd /\ e.before = j.plan /\ e.after = Rendered(j) /\ e.ask = j.ask
      /\ e.man = j.man /\ (j.selected => e.sha = j.sha) /\ (~j.selected => e.sha = None)
      /\ DOMAIN e = EvidenceFields
  BY DEF EvidenceFields
<1>2. \A f \in Files :
        Rendered(j)[f] = IF j.plan[f] = None THEN None
                         ELSE IF j.cmd = "migrate" THEN WithRelations(j.plan[f])
                         ELSE WithBlock(j.plan[f], j.view[Src].block)
  BY DEF Rendered
<1>3. CASE j.cmd = "write"
  <2>1. \A f \in InUse(j.plan) :
          /\ f \in Docs /\ j.plan[f] \in Doc
          /\ Rendered(j)[f] = WithBlock(j.plan[f], j.view[Src].block)
          /\ j.view[Src].block \in Blocks \cup {Broken}
    BY <1>2, <1>3, PartInUse, DocFields DEF Occurrences, SessionTyped, InUse
  <2>2. \A f \in InUse(j.plan) : Rendered(j)[f] \in Doc
    BY <2>1, WithBlockDoc
  <2>3. \A f \in Files : Rendered(j)[f] = None <=> j.plan[f] = None
    BY <1>2, <2>2, NoDocAssumption DEF InUse
  <2>4. Rendered(j) \in Partial
    BY <2>2, <2>3 DEF Rendered, Partial, InUse
  <2>5. Bounded(e)
    BY <1>1, <1>3, <2>1, <2>3 DEF Bounded, Expected
  <2>6. Seen(e)
    BY <1>1, <1>3 DEF Seen, Occurrences, Approved
  <2> QED
    BY <1>1, <1>3, <2>4, <2>5, <2>6 DEF Sound, SessionTyped
<1>4. CASE j.cmd = "migrate"
  <2>1. \A f \in InUse(j.plan) :
          j.plan[f] \in Doc /\ Rendered(j)[f] = WithRelations(j.plan[f])
    BY <1>2, <1>4, PartInUse DEF SessionTyped, InUse
  <2>2. \A f \in InUse(j.plan) : Rendered(j)[f] \in Doc
    BY <2>1, WithRelationsDoc
  <2>3. \A f \in Files : Rendered(j)[f] = None <=> j.plan[f] = None
    BY <1>2, <2>2, NoDocAssumption DEF InUse
  <2>4. Rendered(j) \in Partial
    BY <2>2, <2>3 DEF Rendered, Partial, InUse
  <2>5. Bounded(e)
    BY <1>1, <1>4, <2>1, <2>3 DEF Bounded
  <2> QED
    BY <1>1, <1>4, <2>4, <2>5 DEF Sound, SessionTyped, Seen
<1> QED
  BY <1>3, <1>4 DEF Mechanical


\* A step of the only session that writes, in its next phase of writing, with
\* the evidence of its generation.
LEMMA WriterStep ==
  ASSUME CommandsInv, NEW s \in Sessions, NEW next, NEW e,
         \A r \in Sessions : r # s => ~Writing(sess[r]),
         sess' = [sess EXCEPT ![s] = next],
         SessionTyped(next), Flow(next), Planned(next), Writing(next),
         doc' \in [Files -> Doc], cfg' = cfg, told' = told,
         next.gen \in Gens, DOMAIN gen' = Gens,
         \A g \in Gens : gen'[g] = IF g = next.gen THEN e ELSE gen[g],
         gen[next.gen] = None \/ gen[next.gen] = e,
         Sound(e), Held(s, next, e)'
  PROVE  CommandsInv'
<1>1. \A r \in Sessions : sess'[r] = IF r = s THEN next ELSE sess[r]
  BY DEF CommandsInv, Typed
<1>2. Typed'
  BY <1>1 DEF CommandsInv, Typed
<1>3. \A r \in Sessions : Flow(sess'[r]) /\ Planned(sess'[r])
  BY <1>1 DEF CommandsInv
<1>4. ASSUME NEW r \in Sessions, Writing(sess'[r])
      PROVE  r = s /\ sess'[r] = next /\ gen'[sess'[r].gen] = e
  BY <1>1, <1>4
<1>5. \A r \in Sessions : Writing(sess'[r]) => Held(r, sess[r], gen[sess[r].gen])'
  BY <1>4 DEF Held, Standing
<1>6. \A g \in Gens : Bears(gen[g], gen'[g])
  BY DEF Bears, Borne
<1>7. ASSUME NEW r \in Sessions, Ending(sess'[r]) PROVE Backed(sess[r])'
  <2>1. r # s /\ sess'[r] = sess[r]
    BY <1>1, <1>7 DEF Writing, Ending
  <2>2. Backed(sess[r])
    BY <1>7, <2>1 DEF CommandsInv
  <2> QED
    BY <1>6, <2>1, <2>2 DEF Backed, Bears
<1>8. ASSUME NEW g \in Gens
      PROVE  (gen'[g] # None => Sound(gen'[g])) /\ Truthful(g)'
  <2>1. gen'[g] # None => Sound(gen'[g])
    BY DEF CommandsInv
  <2>2. Truthful(g)'
    BY <1>6 DEF CommandsInv, Truthful, Bears
  <2> QED
    BY <2>1, <2>2
<1> QED
  BY <1>2, <1>3, <1>5, <1>7, <1>8 DEF CommandsInv

\* A step after which nobody writes, with the evidence of one generation.
LEMMA ReleaseStep ==
  ASSUME CommandsInv, NEW s \in Sessions, NEW next, NEW g \in Gens, NEW e,
         \A r \in Sessions : r # s => ~Writing(sess[r]),
         sess' = [sess EXCEPT ![s] = next],
         SessionTyped(next), Flow(next), Planned(next), ~Writing(next),
         next.gen = g, Borne(e, next.result),
         doc' \in [Files -> Doc], cfg' = cfg,
         DOMAIN gen' = Gens, told' = told,
         \A h \in Gens : gen'[h] = IF h = g THEN e ELSE gen[h],
         Sound(e), Bears(gen[g], e)
  PROVE  CommandsInv'
<1>1. \A r \in Sessions : sess'[r] = IF r = s THEN next ELSE sess[r]
  BY DEF CommandsInv, Typed
<1>2. Typed'
  BY <1>1 DEF CommandsInv, Typed
<1>3. \A r \in Sessions : Flow(sess'[r]) /\ Planned(sess'[r])
  BY <1>1 DEF CommandsInv
<1>4. \A r \in Sessions : ~Writing(sess'[r])
  BY <1>1
<1>5. \A h \in Gens : Bears(gen[h], gen'[h])
  BY DEF Bears
<1>6. ASSUME NEW r \in Sessions, Ending(sess'[r]) PROVE Backed(sess[r])'
  <2>1. CASE r = s
    BY <1>1, <2>1 DEF Backed
  <2>2. CASE r # s
    BY <1>1, <1>5, <1>6, <2>2 DEF CommandsInv, Backed, Bears
  <2> QED
    BY <2>1, <2>2
<1>7. \A h \in Gens : (gen'[h] # None => Sound(gen'[h])) /\ Truthful(h)'
  BY <1>5 DEF CommandsInv, Truthful, Bears
<1> QED
  BY <1>2, <1>3, <1>4, <1>6, <1>7 DEF CommandsInv


LEMMA AdmitStep ==
  ASSUME NoneApart, CommandsInv, NEW s \in Sessions, Admit(s) PROVE CommandsInv'
<1> DEFINE j == sess[s]
<1>1. CASE Refuse(s)
  BY <1>1, RefuseStep
<1>2. CASE ~Refuse(s)
  <2>1. /\ j.pc = "admit" /\ Admissible(j) /\ lock' = s
        /\ UNCHANGED <<doc, project, told, approved, left>>
        /\ \E g \in Gens :
             /\ Free(g)
             /\ gen' = [gen EXCEPT ![g] =
                  [status |-> "open", undone |-> FALSE, cmd |-> j.cmd, before |-> j.plan,
                   after |-> Rendered(j), man |-> j.man,
                   sha |-> IF j.selected THEN j.sha ELSE None, ask |-> j.ask]]
             /\ Become(s, [j EXCEPT !.pc = "replace", !.gen = g,
                                    !.todo = InUse(j.plan)])
    BY <1>2 DEF Admit, At
  <2>2. PICK g \in Gens :
             /\ Free(g)
             /\ gen' = [gen EXCEPT ![g] =
                  [status |-> "open", undone |-> FALSE, cmd |-> j.cmd, before |-> j.plan,
                   after |-> Rendered(j), man |-> j.man,
                   sha |-> IF j.selected THEN j.sha ELSE None, ask |-> j.ask]]
             /\ Become(s, [j EXCEPT !.pc = "replace", !.gen = g,
                                    !.todo = InUse(j.plan)])
    BY <2>1
  <2>3. PICK next : next = [j EXCEPT !.pc = "replace", !.gen = g, !.todo = InUse(j.plan)]
    OBVIOUS
  <2>4. PICK e : e = [status |-> "open", undone |-> FALSE, cmd |-> j.cmd, before |-> j.plan,
                      after |-> Rendered(j), man |-> j.man,
                      sha |-> IF j.selected THEN j.sha ELSE None, ask |-> j.ask]
    OBVIOUS
  <2>5. SessionTyped(j) /\ Flow(j) /\ Planned(j)
    BY Known
  <2>6. Mechanical(j) /\ (j.cmd = "migrate" => ~j.selected)
    BY <2>1, <2>5 DEF Flow
  <2>7. j.cmd = "write" => Occurrences(j) /\ Expected(j) /\ Approved(j)
    BY <2>1, <2>5 DEF Planned
  <2>8. Sound(e)
    BY <2>4, <2>5, <2>6, <2>7, RenderedSound
  <2>9. /\ DOMAIN next = DOMAIN j /\ next.cmd = j.cmd /\ next.gen = g
        /\ next.selected = j.selected /\ next.view = j.view /\ next.plan = j.plan
        /\ next.guard = j.guard /\ next.todo = InUse(j.plan) /\ next.pc = "replace"
        /\ next.sha = j.sha /\ next.man = j.man
    BY <2>3, <2>5 DEF SessionTyped
  <2>10. SessionTyped(next)
    BY <2>5, <2>9, InUseFiles DEF SessionTyped
  <2>11. Flow(next) /\ Planned(next) /\ Writing(next)
    BY <2>6, <2>9 DEF Flow, Planned, Writing, Mechanical, Recovering
  <2>12. \A r \in Sessions : ~Writing(sess[r])
    BY <2>1, OnlyHolder DEF Admissible
  <2>13. /\ e # None /\ e.status = "open" /\ e.cmd = j.cmd /\ e.before = j.plan
         /\ e.ask = j.ask /\ e.man = j.man
         /\ (j.selected => e.sha = j.sha) /\ (~j.selected => e.sha = None)
    <3>1. e # None
      BY <2>8 DEF NoneApart, Sound
    <3> QED
      BY <2>4, <3>1
  <2>14. \A f \in InUse(j.plan) : doc[f] = j.plan[f]
    BY <2>1 DEF Admissible, Holds
  <2>15. e.cmd = "write" /\ InUse(e.before) # {} => doc[Src].block = e.ask.view[Src].block
    <3> SUFFICES ASSUME j.cmd = "write", InUse(j.plan) # {}
                 PROVE  doc[Src].block = j.ask.view[Src].block
      BY <2>13
    <3>1. j.guard \in Doc /\ j.guard.block = j.view[Src].block
      BY <2>7 DEF Occurrences
    <3>2. doc[Src] = j.guard
      BY <2>1, <3>1, NoDocAssumption DEF Admissible
    <3> QED
      BY <2>7, <3>1, <3>2 DEF Expected
  <2>16. Held(s, next, e)'
    <3>1. Standing(next, e)'
      BY <2>1, <2>9, <2>13, <2>14 DEF Standing
    <3> QED
      BY <2>1, <2>9, <2>13, <2>15, <3>1 DEF Held
  <2>17. sess' = [sess EXCEPT ![s] = next]
    BY <2>2, <2>3 DEF Become
  <2>18. DOMAIN gen' = Gens /\ \A h \in Gens : gen'[h] = IF h = next.gen THEN e ELSE gen[h]
    BY <2>2, <2>4, <2>9 DEF CommandsInv, Typed
  <2>19. gen[next.gen] = None
    BY <2>2, <2>9 DEF Free
  <2>20. doc' \in [Files -> Doc] /\ cfg' = cfg /\ told' = told
    BY <2>1 DEF project, CommandsInv, Typed
  <2> QED
    BY <2>8, <2>9, <2>10, <2>11, <2>12, <2>16, <2>17, <2>18, <2>19, <2>20, WriterStep
<1> QED
  BY <1>1, <1>2


\* What is known of the session that writes, and of its evidence.
LEMMA HolderKnown ==
  ASSUME CommandsInv, NEW s \in Sessions, Writing(sess[s])
  PROVE  /\ SessionTyped(sess[s]) /\ Flow(sess[s]) /\ Mechanical(sess[s])
         /\ Held(s, sess[s], gen[sess[s].gen])
         /\ sess[s].gen \in Gens /\ Sound(gen[sess[s].gen])
         /\ \A r \in Sessions : r # s => ~Writing(sess[r])
<1>1. SessionTyped(sess[s]) /\ Flow(sess[s])
  BY Known
<1>2. Held(s, sess[s], gen[sess[s].gen])
  BY DEF CommandsInv
<1>3. sess[s].gen \in Gens /\ gen[sess[s].gen] # None
  BY <1>2 DEF Held
<1>4. Sound(gen[sess[s].gen])
  BY <1>3 DEF CommandsInv
<1>5. \A r \in Sessions : r # s => ~Writing(sess[r])
  BY OnlyHolder
<1> QED
  BY <1>1, <1>2, <1>3, <1>4, <1>5 DEF Flow

\* The holder goes on: it changes at most one document that it may change.
LEMMA HolderMoves ==
  ASSUME CommandsInv, NEW s \in Sessions, Writing(sess[s]), NEW next,
         DOMAIN next = DOMAIN sess[s], next.cmd = sess[s].cmd,
         next.gen = sess[s].gen, next.selected = sess[s].selected,
         next.view = sess[s].view, next.plan = sess[s].plan,
         next.guard = sess[s].guard, next.sha = sess[s].sha, next.man = sess[s].man,
         next.todo \subseteq InUse(gen[next.gen].before), Writing(next),
         sess' = [sess EXCEPT ![s] = next], UNCHANGED <<cfg, lock, evidence>>,
         doc' \in [Files -> Doc],
         gen[next.gen].cmd = "write" => doc'[Src] = doc[Src],
         Standing(next, gen[next.gen])'
  PROVE  CommandsInv'
<1>1. PICK e : e = gen[next.gen]
  OBVIOUS
<1>2. /\ SessionTyped(sess[s]) /\ Flow(sess[s]) /\ Mechanical(sess[s])
      /\ Held(s, sess[s], e) /\ next.gen \in Gens /\ Sound(e)
      /\ \A r \in Sessions : r # s => ~Writing(sess[r])
  BY <1>1, HolderKnown
<1>3. SessionTyped(next)
  BY <1>1, <1>2, InUseFiles DEF SessionTyped
<1>4. Flow(next) /\ Planned(next)
  BY <1>2 DEF Flow, Planned, Writing, Mechanical, Recovering
<1>5. gen' = gen /\ told' = told /\ DOMAIN gen = Gens
  BY DEF evidence, CommandsInv, Typed
<1>6. Standing(next, e)'
  BY <1>1, <1>5
<1>7. Held(s, next, e)'
  BY <1>1, <1>2, <1>6 DEF Held
<1> QED
  BY <1>1, <1>2, <1>3, <1>4, <1>5, <1>7, WriterStep

LEMMA ReplaceStep ==
  ASSUME CommandsInv, NEW s \in Sessions, Replace(s) PROVE CommandsInv'
<1> DEFINE j == sess[s]
<1>1. PICK e : e = gen[j.gen]
  OBVIOUS
<1>2. j.pc = "replace" /\ Put(s, e.after, "validate")
  BY <1>1 DEF Replace, At
<1>3. /\ SessionTyped(j) /\ Mechanical(j) /\ Held(s, j, e) /\ Sound(e) /\ Writing(j)
  BY <1>1, <1>2, HolderKnown DEF Writing
<1>4. PICK f \in Files :
        /\ Least(j.todo, f)
        /\ doc' = [doc EXCEPT ![f] = e.after[f]]
        /\ Become(s, [j EXCEPT !.todo = @ \ {f},
                               !.pc = Then(j.todo, f, "validate", @)])
        /\ UNCHANGED <<project, lock, evidence, approved, left>>
  BY <1>2 DEF Put
<1>5. PICK next : next = [j EXCEPT !.todo = @ \ {f},
                                   !.pc = Then(j.todo, f, "validate", @)]
  OBVIOUS
<1>6. /\ DOMAIN next = DOMAIN j /\ next.cmd = j.cmd /\ next.gen = j.gen
      /\ next.selected = j.selected /\ next.view = j.view /\ next.plan = j.plan
      /\ next.guard = j.guard /\ next.sha = j.sha /\ next.man = j.man
      /\ next.todo = j.todo \ {f}
      /\ next.pc = IF j.todo = {f} THEN "validate" ELSE "replace"
  BY <1>2, <1>3, <1>5 DEF SessionTyped, Then
<1>7. f \in j.todo /\ f \in InUse(e.before)
  BY <1>3, <1>4, LeastIn DEF Held
<1>8. e.after[f] \in Doc
  BY <1>3, <1>7 DEF Sound, Bounded, Partial, InUse
<1>9. doc \in [Files -> Doc]
  BY DEF CommandsInv, Typed
<1>10. doc' \in [Files -> Doc]
  BY <1>4, <1>8, <1>9
<1>11. e.cmd = "write" => doc'[Src] = doc[Src]
  <2>1. e.cmd = "write" => f \in Docs
    BY <1>3, <1>7 DEF Sound, Bounded
  <2> QED
    BY <1>4, <1>9, <2>1, FilesAssumption DEF Files
<1>12. \A h \in InUse(e.before) :
         doc'[h] = IF h \in next.todo THEN e.before[h] ELSE e.after[h]
  <2>1. \A h \in InUse(e.before) :
          doc[h] = IF h \in j.todo THEN e.before[h] ELSE e.after[h]
    BY <1>2, <1>3 DEF Held, Standing
  <2> QED
    BY <1>4, <1>6, <1>7, <1>9, <2>1, InUseFiles
<1>13. Standing(next, e)'
  BY <1>6, <1>12 DEF Standing
<1>14. next.todo \subseteq InUse(e.before)
  BY <1>3, <1>6 DEF Held
<1>15. sess' = [sess EXCEPT ![s] = next] /\ UNCHANGED <<cfg, lock, evidence>>
  BY <1>4, <1>5 DEF Become, project
<1>16. gen' = gen
  BY <1>15 DEF evidence
<1> QED
  BY <1>1, <1>3, <1>6, <1>10, <1>11, <1>13, <1>14, <1>15, <1>16, HolderMoves DEF Writing

LEMMA RollbackStep ==
  ASSUME CommandsInv, NEW s \in Sessions, Rollback(s),
         sess[s].pc = "validate" \/ sess[s].pc = "publish"
  PROVE  CommandsInv'
<1> DEFINE j == sess[s]
<1>1. PICK e : e = gen[j.gen]
  OBVIOUS
<1>2. PICK next : next = [j EXCEPT !.pc = "restore", !.todo = InUse(e.before)]
  OBVIOUS
<1>3. SessionTyped(j) /\ Held(s, j, e) /\ Writing(j)
  BY <1>1, HolderKnown DEF Writing
<1>4. /\ DOMAIN next = DOMAIN j /\ next.cmd = j.cmd /\ next.gen = j.gen
      /\ next.selected = j.selected /\ next.view = j.view /\ next.plan = j.plan
      /\ next.guard = j.guard /\ next.sha = j.sha /\ next.man = j.man
      /\ next.todo = InUse(e.before) /\ next.pc = "restore"
  BY <1>2, <1>3 DEF SessionTyped
<1>5. /\ sess' = [sess EXCEPT ![s] = next] /\ doc' = doc
      /\ UNCHANGED <<cfg, lock, evidence>>
  BY <1>1, <1>2 DEF Rollback, Continue, Become, project
<1>6. \A h \in InUse(e.before) : doc[h] = e.after[h]
  BY <1>3 DEF Held, Standing
<1>7. Standing(next, e)'
  BY <1>4, <1>5, <1>6 DEF Standing
<1>8. doc' \in [Files -> Doc] /\ gen' = gen
  BY <1>5 DEF evidence, CommandsInv, Typed
<1> QED
  BY <1>1, <1>3, <1>4, <1>5, <1>7, <1>8, HolderMoves DEF Writing

LEMMA ValidateStep ==
  ASSUME CommandsInv, NEW s \in Sessions, Validate(s) PROVE CommandsInv'
<1> DEFINE j == sess[s]
<1>1. j.pc = "validate"
  BY DEF Validate, At
<1>2. CASE Rollback(s)
  BY <1>1, <1>2, RollbackStep
<1>3. CASE Blockers(doc) = {} /\ Continue(s, [j EXCEPT !.pc = "publish"])
  <2>1. PICK e : e = gen[j.gen]
    OBVIOUS
  <2>2. PICK next : next = [j EXCEPT !.pc = "publish"]
    OBVIOUS
  <2>3. SessionTyped(j) /\ Held(s, j, e) /\ Writing(j)
    BY <1>1, <2>1, HolderKnown DEF Writing
  <2>4. /\ DOMAIN next = DOMAIN j /\ next.cmd = j.cmd /\ next.gen = j.gen
        /\ next.selected = j.selected /\ next.view = j.view /\ next.plan = j.plan
        /\ next.guard = j.guard /\ next.sha = j.sha /\ next.man = j.man
        /\ next.todo = j.todo /\ next.pc = "publish"
    BY <2>2, <2>3 DEF SessionTyped
  <2>5. /\ sess' = [sess EXCEPT ![s] = next] /\ doc' = doc
        /\ UNCHANGED <<cfg, lock, evidence>>
    BY <1>3, <2>2 DEF Continue, Become, project
  <2>6. \A h \in InUse(e.before) : doc[h] = e.after[h]
    BY <1>1, <2>3 DEF Held, Standing
  <2>7. Blockers(doc') = {}
    BY <1>3, <2>5
  <2>8. Standing(next, e)'
    BY <2>4, <2>5, <2>6, <2>7 DEF Standing, Blockers
  <2>9. doc' \in [Files -> Doc] /\ gen' = gen /\ next.todo \subseteq InUse(e.before)
    BY <2>3, <2>4, <2>5 DEF evidence, CommandsInv, Typed, Held
  <2> QED
    BY <2>1, <2>3, <2>4, <2>5, <2>8, <2>9, HolderMoves DEF Writing
<1> QED
  BY <1>2, <1>3 DEF Validate


-----------------------------------------------------------------------------
(* Steps that end a write or undo one, and what remains *)

\* Another status, or a record of a recovery, is the same evidence.
LEMMA EndedSound ==
  ASSUME NoneApart, NEW e, Sound(e), NEW d,
         DOMAIN d = DOMAIN e, d.cmd = e.cmd, d.before = e.before, d.after = e.after,
         d.man = e.man, d.sha = e.sha, d.ask = e.ask
  PROVE  Sound(d) /\ d # None
BY DEF Sound, Bounded, Seen, NoneApart

LEMMA StatusSound ==
  ASSUME NoneApart, NEW e, Sound(e), NEW status
  PROVE  /\ Sound([e EXCEPT !.status = status])
         /\ [e EXCEPT !.status = status].status = status
         /\ [e EXCEPT !.status = status].undone = e.undone
         /\ [e EXCEPT !.status = status].before = e.before
         /\ [e EXCEPT !.status = status].after = e.after
         /\ [e EXCEPT !.status = status] # None
<1>1. PICK d : d = [e EXCEPT !.status = status]
  OBVIOUS
<1>2. /\ DOMAIN d = DOMAIN e /\ d.status = status /\ d.undone = e.undone
      /\ d.cmd = e.cmd /\ d.before = e.before /\ d.after = e.after
      /\ d.man = e.man /\ d.sha = e.sha /\ d.ask = e.ask
  BY <1>1 DEF Sound, EvidenceFields
<1> QED
  BY <1>1, <1>2, EndedSound

LEMMA UndoneSound ==
  ASSUME NoneApart, NEW e, Sound(e)
  PROVE  /\ Sound([e EXCEPT !.undone = TRUE])
         /\ [e EXCEPT !.undone = TRUE].undone
         /\ [e EXCEPT !.undone = TRUE].status = e.status
         /\ [e EXCEPT !.undone = TRUE].before = e.before
         /\ [e EXCEPT !.undone = TRUE].after = e.after
         /\ [e EXCEPT !.undone = TRUE] # None
<1>1. PICK d : d = [e EXCEPT !.undone = TRUE]
  OBVIOUS
<1>2. /\ DOMAIN d = DOMAIN e /\ d.undone = TRUE /\ d.status = e.status
      /\ d.cmd = e.cmd /\ d.before = e.before /\ d.after = e.after
      /\ d.man = e.man /\ d.sha = e.sha /\ d.ask = e.ask
  BY <1>1 DEF Sound, EvidenceFields
<1> QED
  BY <1>1, <1>2, EndedSound

\* A session whose command the journal has ended.
Ended(j, word, phase) == [j EXCEPT !.pc = phase, !.result = word]
LEMMA EndedSession ==
  ASSUME CommandsInv, NEW s \in Sessions, NEW word, NEW phase,
         phase = "refresh" \/ (phase = "postvalidate" /\ Recovering(sess[s])),
         sess[s].pc # "idle",
         NEW next, next = Ended(sess[s], word, phase)
  PROVE  /\ SessionTyped(next) /\ Flow(next) /\ Planned(next) /\ ~Writing(next)
         /\ next.pc = phase /\ next.gen = sess[s].gen /\ next.result = word
<1> DEFINE j == sess[s]
<1>1. SessionTyped(j) /\ Flow(j)
  BY Known
<1>2. /\ DOMAIN next = DOMAIN j /\ next.cmd = j.cmd /\ next.gen = j.gen
      /\ next.selected = j.selected /\ next.view = j.view /\ next.plan = j.plan
      /\ next.guard = j.guard /\ next.todo = j.todo /\ next.pc = phase
      /\ next.result = word
  BY <1>1 DEF SessionTyped, Ended
<1>3. SessionTyped(next) /\ Planned(next) /\ ~Writing(next)
  BY <1>1, <1>2 DEF SessionTyped, Planned, Writing
<1>4. Flow(next)
  BY <1>1, <1>2 DEF Flow, Writing, Mechanical, Recovering
<1> QED
  BY <1>2, <1>3, <1>4

\* The holder ends its generation, which was open.
LEMMA TerminalStep ==
  ASSUME NoneApart, CommandsInv, NEW s \in Sessions, Writing(sess[s]),
         NEW word \in {"applied", "rolled-back"},
         gen' = [gen EXCEPT ![sess[s].gen].status = word],
         Conclude(s, word, "refresh"), UNCHANGED <<doc, cfg, told>>
  PROVE  CommandsInv'
<1> DEFINE j == sess[s]
<1>1. PICK g : g = j.gen
  OBVIOUS
<1>2. PICK e : e = [gen[g] EXCEPT !.status = word]
  OBVIOUS
<1>3. PICK next : next = Ended(j, word, "refresh")
  OBVIOUS
<1>4. /\ g \in Gens /\ Sound(gen[g]) /\ gen[g].status = "open"
      /\ \A r \in Sessions : r # s => ~Writing(sess[r])
  BY <1>1, HolderKnown DEF Held
<1>5. Sound(e) /\ e.status = word /\ e.undone = gen[g].undone /\ e # None
  BY <1>2, <1>4, StatusSound
<1>6. Bears(gen[g], e)
  BY <1>4, <1>5 DEF Bears, Borne
<1>7. Borne(e, word)
  BY <1>5 DEF Borne
<1>8. j.pc # "idle"
  BY DEF Writing
<1>9. /\ SessionTyped(next) /\ Flow(next) /\ Planned(next) /\ ~Writing(next)
      /\ next.gen = g /\ next.result = word
  BY <1>1, <1>3, <1>8, EndedSession
<1>10. sess' = [sess EXCEPT ![s] = next]
  BY <1>3 DEF Conclude, Become, Ended
<1>11. DOMAIN gen' = Gens /\ \A h \in Gens : gen'[h] = IF h = g THEN e ELSE gen[h]
  BY <1>1, <1>2 DEF CommandsInv, Typed
<1>12. doc' \in [Files -> Doc] /\ cfg' = cfg /\ told' = told
  BY DEF CommandsInv, Typed
<1>13. Borne(e, next.result)
  BY <1>7, <1>9
<1>14. g \in Gens /\ Sound(e) /\ \A r \in Sessions : r # s => ~Writing(sess[r])
  BY <1>4, <1>5
<1>15. SessionTyped(next) /\ Flow(next) /\ Planned(next) /\ ~Writing(next) /\ next.gen = g
  BY <1>9
<1> HIDE DEF j
<1> QED
  BY <1>6, <1>10, <1>11, <1>12, <1>13, <1>14, <1>15, ReleaseStep

LEMMA PublishStep ==
  ASSUME NoneApart, CommandsInv, NEW s \in Sessions, Publish(s) PROVE CommandsInv'
<1>1. sess[s].pc = "publish"
  BY DEF Publish, At
<1>2. CASE Rollback(s)
  BY <1>1, <1>2, RollbackStep
<1>3. CASE /\ gen' = [gen EXCEPT ![sess[s].gen].status = "applied"]
           /\ lock' = None
           /\ Conclude(s, "applied", "refresh")
           /\ UNCHANGED <<doc, project, told, approved, left>>
  BY <1>1, <1>3, TerminalStep DEF Writing, project
<1> QED
  BY <1>2, <1>3 DEF Publish

LEMMA RestoreStep ==
  ASSUME NoneApart, CommandsInv, NEW s \in Sessions, Restore(s) PROVE CommandsInv'
<1> DEFINE j == sess[s]
<1>1. j.pc = "restore" /\ Writing(j)
  BY DEF Restore, At, Writing
<1>2. CASE RolledBack(s) /\ UNCHANGED <<doc, project, told, approved, left>>
  BY <1>1, <1>2, TerminalStep DEF RolledBack, project
<1>3. CASE Put(s, gen[j.gen].before, "restore")
  <2>1. PICK e : e = gen[j.gen]
    OBVIOUS
  <2>2. PICK f \in Files :
        /\ Least(j.todo, f)
        /\ doc' = [doc EXCEPT ![f] = e.before[f]]
        /\ Become(s, [j EXCEPT !.todo = @ \ {f},
                               !.pc = Then(j.todo, f, "restore", @)])
        /\ UNCHANGED <<project, lock, evidence, approved, left>>
    BY <1>3, <2>1 DEF Put
  <2>3. PICK next : next = [j EXCEPT !.todo = @ \ {f},
                                     !.pc = Then(j.todo, f, "restore", @)]
    OBVIOUS
  <2>4. SessionTyped(j) /\ Held(s, j, e) /\ Sound(e)
    BY <1>1, <2>1, HolderKnown
  <2>5. /\ DOMAIN next = DOMAIN j /\ next.cmd = j.cmd /\ next.gen = j.gen
        /\ next.selected = j.selected /\ next.view = j.view /\ next.plan = j.plan
        /\ next.guard = j.guard /\ next.sha = j.sha /\ next.man = j.man
        /\ next.todo = j.todo \ {f} /\ next.pc = "restore"
    BY <1>1, <2>3, <2>4 DEF SessionTyped, Then
  <2>6. f \in InUse(e.before)
    BY <2>2, <2>4, LeastIn DEF Held
  <2>7. e.before[f] \in Doc
    BY <2>4, <2>6, PartInUse DEF Sound
  <2>8. doc \in [Files -> Doc]
    BY DEF CommandsInv, Typed
  <2>9. doc' \in [Files -> Doc]
    BY <2>2, <2>7, <2>8
  <2>10. e.cmd = "write" => doc'[Src] = doc[Src]
    <3>1. e.cmd = "write" => f \in Docs
      BY <2>4, <2>6 DEF Sound, Bounded
    <3> QED
      BY <2>2, <2>8, <3>1, FilesAssumption DEF Files
  <2>11. \A h \in InUse(e.before) :
           doc'[h] = e.before[h] \/ (h \in next.todo /\ doc'[h] = e.after[h])
    <3>1. \A h \in InUse(e.before) :
            doc[h] = e.before[h] \/ (h \in j.todo /\ doc[h] = e.after[h])
      BY <1>1, <2>4 DEF Held, Standing
    <3> QED
      BY <2>2, <2>5, <2>8, <3>1, InUseFiles
  <2>12. Standing(next, e)'
    BY <2>5, <2>11 DEF Standing
  <2>13. sess' = [sess EXCEPT ![s] = next] /\ UNCHANGED <<cfg, lock, evidence>>
    BY <2>2, <2>3 DEF Become, project
  <2>14. gen' = gen /\ next.todo \subseteq InUse(e.before)
    BY <2>4, <2>5, <2>13 DEF evidence, Held
  <2> QED
    BY <1>1, <2>1, <2>5, <2>9, <2>10, <2>12, <2>13, <2>14, HolderMoves DEF Writing
<1> QED
  BY <1>2, <1>3 DEF Restore

LEMMA RefreshStep ==
  ASSUME CommandsInv, NEW s \in Sessions, Refresh(s) PROVE CommandsInv'
<1> DEFINE j == sess[s]
<1>1. /\ j.pc = "refresh" /\ sess' = [sess EXCEPT ![s] = Idle]
      /\ UNCHANGED <<doc, cfg, lock, gen>>
      /\ told' = [told EXCEPT ![j.gen] = @ \cup {j.result}]
  BY DEF Refresh, At, Become, project
<1>2. DOMAIN told' = Gens
  BY <1>1 DEF CommandsInv, Typed
<1>3. j.gen \in Gens /\ Borne(gen[j.gen], j.result)
  BY <1>1 DEF CommandsInv, Ending, Backed
<1>4. ASSUME NEW g \in Gens PROVE Truthful(g)'
  <2>1. told'[g] \subseteq told[g] \cup (IF g = j.gen THEN {j.result} ELSE {})
    BY <1>1 DEF CommandsInv, Typed
  <2>2. Truthful(g)
    BY DEF CommandsInv
  <2> QED
    BY <1>1, <1>3, <2>1, <2>2 DEF Truthful
<1>5. Private(Idle)
  BY IdleSession DEF Private
<1> QED
  BY <1>1, <1>2, <1>4, <1>5, ReportStep


\* What is known of a session that recovers a generation it may recover.
LEMMA AddressedKnown ==
  ASSUME CommandsInv, NEW s \in Sessions, At(s, "undo"), Addressed(sess[s])
  PROVE  /\ sess[s].gen \in Gens /\ Sound(gen[sess[s].gen]) /\ gen[sess[s].gen] # None
         /\ Recovering(sess[s])
         /\ \A r \in Sessions : ~Writing(sess[r])
<1>1. Recovering(sess[s]) /\ sess[s].gen \in Gens
  BY Known DEF Flow, At
<1>2. gen[sess[s].gen] # None /\ lock = None
  BY DEF Addressed
<1>3. Sound(gen[sess[s].gen])
  BY <1>1, <1>2 DEF CommandsInv
<1> QED
  BY <1>1, <1>2, <1>3, OnlyHolder

LEMMA UndoStep ==
  ASSUME NoneApart, CommandsInv, NEW s \in Sessions, Undo(s) PROVE CommandsInv'
<1> DEFINE j == sess[s]
           phase == IF j.cmd = "migrate-interrupted" THEN "refresh" ELSE "postvalidate"
<1>1. j.pc = "undo"
  BY DEF Undo, At
<1>2. PICK g : g = j.gen
  OBVIOUS
<1>3. CASE Refuse(s)
  BY <1>3, RefuseStep
<1>4. CASE /\ Recoverable(j)
           /\ doc' = Overlay(gen[g].before)
           /\ gen' = [gen EXCEPT ![g].undone = TRUE]
           /\ Recovered(s, "recovered")
           /\ UNCHANGED <<project, lock, told, approved, left>>
  <2>1. PICK e : e = [gen[g] EXCEPT !.undone = TRUE]
    OBVIOUS
  <2>2. PICK next : next = Ended(j, "recovered", phase)
    OBVIOUS
  <2>3. /\ g \in Gens /\ Sound(gen[g]) /\ Recovering(j)
        /\ \A r \in Sessions : ~Writing(sess[r])
    BY <1>1, <1>2, <1>4, AddressedKnown DEF Recoverable, At
  <2>4. Sound(e) /\ e.undone /\ e.status = gen[g].status /\ e # None
    BY <2>1, <2>3, UndoneSound
  <2>5. Bears(gen[g], e)
    BY <2>4 DEF Bears, Borne
  <2>6. Borne(e, "recovered")
    BY <2>4 DEF Borne
  <2>7. /\ SessionTyped(next) /\ Flow(next) /\ Planned(next) /\ ~Writing(next)
        /\ next.gen = g /\ next.result = "recovered"
    BY <1>1, <1>2, <2>2, <2>3, EndedSession
  <2>8. doc' \in [Files -> Doc]
    <3>1. doc \in [Files -> Doc]
      BY DEF CommandsInv, Typed
    <3>2. gen[g].before \in Partial
      BY <2>3 DEF Sound
    <3> QED
      BY <1>4, <3>1, <3>2 DEF Overlay, Partial
  <2>9. /\ DOMAIN gen' = Gens /\ told' = told /\ cfg' = cfg
        /\ \A h \in Gens : gen'[h] = IF h = g THEN e ELSE gen[h]
    BY <1>4, <2>1 DEF project, CommandsInv, Typed
  <2>10. sess' = [sess EXCEPT ![s] = next]
    BY <1>4, <2>2 DEF Recovered, Conclude, Become, Ended
  <2>11. Borne(e, next.result)
    BY <2>6, <2>7
  <2> QED
    BY <2>3, <2>4, <2>5, <2>7, <2>8, <2>9, <2>10, <2>11, ReleaseStep
<1>5. CASE /\ AlreadyRecovered(j)
           /\ Recovered(s, "already-recovered")
           /\ UNCHANGED <<doc, project, lock, evidence, approved, left>>
  <2>1. PICK next : next = Ended(j, "already-recovered", phase)
    OBVIOUS
  <2>2. g \in Gens /\ gen[g] # None /\ Recovering(j)
    BY <1>1, <1>2, <1>5, AddressedKnown DEF AlreadyRecovered, At
  <2>3. gen[g].status # "open" \/ gen[g].undone
    BY <1>2, <1>5 DEF AlreadyRecovered, Addressed
  <2>4. /\ SessionTyped(next) /\ Flow(next) /\ Planned(next) /\ ~Writing(next)
        /\ next.gen = g /\ next.result = "already-recovered"
    BY <1>1, <1>2, <2>1, <2>2, EndedSession
  <2>5. Backed(next)
    BY <2>2, <2>3, <2>4 DEF Backed, Borne
  <2>6. sess' = [sess EXCEPT ![s] = next] /\ UNCHANGED <<doc, cfg, lock, evidence>>
    BY <1>5, <2>1 DEF Recovered, Conclude, Become, Ended, project
  <2> QED
    BY <2>4, <2>5, <2>6, PrivateStep DEF Private
<1> QED
  BY <1>2, <1>3, <1>4, <1>5 DEF Undo

\* A session that dies leaves its evidence, its documents and a free lock.
LEMMA CrashStep ==
  ASSUME CommandsInv, NEW s \in Sessions, Crash(s) PROVE CommandsInv'
<1>1. /\ sess' = [sess EXCEPT ![s] = Idle] /\ UNCHANGED <<doc, cfg, gen, told>>
      /\ lock' = IF lock = s THEN None ELSE lock
  BY DEF Crash, Become, project, evidence
<1>2. \A r \in Sessions : sess'[r] = IF r = s THEN Idle ELSE sess[r]
  BY <1>1 DEF CommandsInv, Typed
<1>3. Typed'
  BY <1>1, <1>2, IdleSession DEF CommandsInv, Typed
<1>4. \A r \in Sessions : Flow(sess'[r]) /\ Planned(sess'[r])
  BY <1>2, IdleSession DEF CommandsInv
<1>5. ASSUME NEW r \in Sessions, Writing(sess'[r])
      PROVE  Held(r, sess[r], gen[sess[r].gen])'
  <2>1. r # s /\ sess'[r] = sess[r]
    BY <1>2, <1>5, IdleSession
  <2>2. Held(r, sess[r], gen[sess[r].gen])
    BY <1>5, <2>1 DEF CommandsInv
  <2>3. lock' = lock
    BY <1>1, <2>1, <2>2 DEF Held
  <2> QED
    BY <1>1, <2>1, <2>2, <2>3 DEF Held, Standing
<1>6. ASSUME NEW r \in Sessions, Ending(sess'[r]) PROVE Backed(sess[r])'
  <2>1. r # s /\ sess'[r] = sess[r]
    BY <1>2, <1>6, IdleSession DEF Ending
  <2> QED
    BY <1>1, <1>6, <2>1 DEF CommandsInv, Backed
<1>7. \A g \in Gens : (gen'[g] # None => Sound(gen'[g])) /\ Truthful(g)'
  BY <1>1 DEF CommandsInv, Truthful
<1> QED
  BY <1>3, <1>4, <1>5, <1>6, <1>7 DEF CommandsInv

LEMMA AuthorStep ==
  ASSUME CommandsInv, NEW f \in Files, AuthorEdit(f) PROVE CommandsInv'
<1>1. /\ lock = None /\ UNCHANGED <<cfg, lock, gen, told, sess>>
      /\ \E d \in Doc : doc' = [doc EXCEPT ![f] = d]
  BY DEF AuthorEdit, project, evidence
<1>2. doc' \in [Files -> Doc]
  BY <1>1 DEF CommandsInv, Typed
<1>3. \A r \in Sessions : ~Writing(sess[r])
  BY <1>1, OnlyHolder
<1>4. Typed'
  BY <1>1, <1>2 DEF CommandsInv, Typed
<1> QED
  BY <1>1, <1>3, <1>4 DEF CommandsInv, Truthful, Backed

LEMMA AuthorityStep == ASSUME CommandsInv, AuthorityEdit PROVE CommandsInv'
<1>1. cfg' \in Configs /\ UNCHANGED <<doc, lock, gen, told, sess>>
  BY DEF AuthorityEdit, evidence, CommandsInv, Typed
<1>2. Typed'
  BY <1>1 DEF CommandsInv, Typed
<1>3. \A r \in Sessions : Writing(sess'[r]) => Held(r, sess[r], gen[sess[r].gen])'
  BY <1>1 DEF CommandsInv, Held, Standing
<1> QED
  BY <1>1, <1>2, <1>3 DEF CommandsInv, Truthful, Backed

LEMMA StutterStep == ASSUME CommandsInv, UNCHANGED vars PROVE CommandsInv'
<1>1. UNCHANGED <<doc, cfg, lock, gen, told, sess>>
  BY DEF vars, project, evidence
<1>2. \A r \in Sessions : Writing(sess'[r]) => Held(r, sess[r], gen[sess[r].gen])'
  BY <1>1 DEF CommandsInv, Held, Standing
<1> QED
  BY <1>1, <1>2 DEF CommandsInv, Typed, Truthful, Backed

LEMMA CommandsStep ==
  ASSUME NoneApart, CommandsInv, [Next]_vars PROVE CommandsInv'
<1>1. CASE \E s \in Sessions, cmd \in AllCommands, selected \in BOOLEAN, g \in Gens :
             Start(s, cmd, selected, g)
  BY <1>1, StartStep
<1>2. ASSUME NEW s \in Sessions, Run(s) PROVE CommandsInv'
  <2>1. CASE Select(s) \/ Load(s) \/ View(s)
    BY <2>1, SelectStep, LoadStep, ViewStep
  <2>2. CASE PlanSource(s) \/ PlanDoc(s) \/ Hash(s)
    BY <2>2, PlanSourceStep, PlanDocStep, HashStep
  <2>3. CASE PlanRelation(s) \/ Scratch(s) \/ PostValidate(s)
    BY <2>3, PlanRelationStep, ScratchStep, PostValidateStep
  <2>4. CASE Admit(s) \/ Replace(s) \/ Validate(s)
    BY <2>4, AdmitStep, ReplaceStep, ValidateStep
  <2>5. CASE Publish(s) \/ Restore(s) \/ Refresh(s) \/ Undo(s)
    BY <2>5, PublishStep, RestoreStep, RefreshStep, UndoStep
  <2> QED
    BY <1>2, <2>1, <2>2, <2>3, <2>4, <2>5 DEF Run
<1>3. CASE \E f \in Files : AuthorEdit(f)
  BY <1>3, AuthorStep
<1>4. CASE AuthorityEdit
  BY <1>4, AuthorityStep
<1>5. CASE \E s \in Sessions : Crash(s)
  BY <1>5, CrashStep
<1>6. CASE UNCHANGED vars
  BY <1>6, StutterStep
<1> QED
  BY <1>1, <1>2, <1>3, <1>4, <1>5, <1>6 DEF Next, Environment

LEMMA CommandsInvariant == ASSUME NoneApart PROVE Spec => []CommandsInv
<1>1. CommandsInv /\ [Next]_vars => CommandsInv'
  BY CommandsStep
<1> QED
  BY <1>1, CommandsInit, PTL DEF Spec

-----------------------------------------------------------------------------
(* The theorems *)

\* Whatever sessions, authors, crashes and the projection do, what a command has
\* reported of a generation is what the evidence of it says, also of one that
\* was undone after a rollback, or more than once (maintenance, migrate and the
\* recoveries).
THEOREM ReportsTrue == ASSUME NoneApart PROVE Spec => []ReportsTruly
<1>1. CommandsInv => ReportsTruly
  BY DEF CommandsInv, Truthful, ReportsTruly
<1> QED
  BY <1>1, CommandsInvariant, PTL

\* Every write is the one an operator has seen, for any number of edits between
\* the readings of the preview, of the write and of the journal.
THEOREM WritesApproved == ASSUME NoneApart PROVE Spec => []AppliedAsApproved
<1>1. ASSUME CommandsInv PROVE AppliedAsApproved
  <2> SUFFICES ASSUME NEW g \in Gens, gen[g] # None, gen[g].cmd = "write"
               PROVE
    LET seen == gen[g].ask IN
    /\ \A f \in Involved(g) : gen[g].after[f].block = seen.view[Src].block
    /\ gen[g].sha # None =>
         /\ gen[g].after = seen.after
         /\ \A f \in Involved(g) :
              gen[g].before[f] = WithBlock(seen.after[f], seen.view[f].block)
         /\ gen[g].man = seen.man /\ gen[g].sha = seen.sha
    BY DEF AppliedAsApproved
  <2>1. PICK e : e = gen[g]
    OBVIOUS
  <2>2. Sound(e) /\ e.cmd = "write"
    BY <1>1, <2>1 DEF CommandsInv
  <2>3. ASSUME NEW f \in Involved(g)
        PROVE  /\ f \in InUse(e.before) /\ e.before[f] \in Doc /\ e.after[f] \in Doc
               /\ e.after[f] = WithBlock(e.before[f], e.ask.view[Src].block)
    BY <2>1, <2>2 DEF Involved, InUse, Sound, Bounded, Partial
  <2>4. ASSUME NEW f \in Involved(g)
        PROVE  e.after[f].block = e.ask.view[Src].block
    BY <2>3 DEF WithBlock, Doc
  <2>5. ASSUME NEW f \in Involved(g), e.sha # None
        PROVE  e.before[f] = WithBlock(e.ask.after[f], e.ask.view[f].block)
    <3>1. e.after = e.ask.after /\ e.before[f].block = e.ask.view[f].block
      BY <2>2, <2>3, <2>5 DEF Sound, Seen
    <3>2. e.before[f] = WithBlock(e.after[f], e.before[f].block)
      BY <2>3 DEF WithBlock, Doc
    <3> QED
      BY <3>1, <3>2
  <2>6. e.sha # None => e.after = e.ask.after /\ e.man = e.ask.man /\ e.sha = e.ask.sha
    BY <2>2 DEF Sound, Seen
  <2> QED
    BY <2>1, <2>4, <2>5, <2>6
<1> QED
  BY <1>1, CommandsInvariant, PTL


\* The step that publishes a generation finds all as it should be.
LEMMA PublishRight ==
  ASSUME CommandsInv, NEW s \in Sessions, Publish(s), NEW g \in Gens, Applies(g)
  PROVE  /\ Blockers(doc) = {}
         /\ \A f \in Involved(g) : doc[f] = gen[g].after[f]
         /\ IF gen[g].cmd = "migrate" THEN Legacy(gen[g].after) = {}
            ELSE \A f \in Involved(g) : doc[f].block = doc[Src].block
         /\ gen[g].sha # None => gen[g].sha = cfg /\ gen[g].man = man
<1> DEFINE j == sess[s]
<1>1. PICK e : e = gen[g]
  OBVIOUS
<1>2. e # None /\ e.status = "open" /\ gen' # gen
  BY <1>1 DEF Applies
<1>3. /\ j.pc = "publish" /\ AuthorityOk(j)
      /\ gen' = [gen EXCEPT ![j.gen].status = "applied"]
  BY <1>2 DEF Publish, At, Rollback, Continue, evidence
<1>4. g = j.gen
  BY <1>1, <1>2, <1>3 DEF Applies, CommandsInv, Typed
<1>5. Held(s, j, e) /\ Sound(e)
  BY <1>1, <1>3, <1>4, HolderKnown DEF Writing
<1>6. Involved(g) = InUse(e.before)
  BY <1>1, <1>5 DEF Involved, InUse, Sound, Bounded
<1>7. Blockers(doc) = {} /\ \A f \in InUse(e.before) : doc[f] = e.after[f]
  BY <1>3, <1>5 DEF Held, Standing
<1>8. e.sha # None => e.sha = cfg /\ e.man = man
  BY <1>3, <1>5 DEF Held, AuthorityOk
<1>9. \A f \in InUse(e.before) : e.before[f] \in Doc
  BY <1>5, PartInUse DEF Sound
<1>10. CASE e.cmd = "migrate"
  <2>1. \A f \in InUse(e.before) : e.after[f].rest = "plain"
    BY <1>5, <1>9, <1>10, WithRelationsDoc DEF Sound, Bounded
  <2>2. InUse(e.after) = InUse(e.before)
    BY <1>5 DEF InUse, Sound, Bounded
  <2>3. Legacy(e.after) = {}
    BY <2>1, <2>2 DEF Legacy
  <2> QED
    BY <1>1, <1>6, <1>7, <1>8, <1>10, <2>3
<1>11. CASE e.cmd = "write"
  <2>1. ASSUME NEW f \in InUse(e.before) PROVE doc[f].block = doc[Src].block
    <3>1. e.after[f] = WithBlock(e.before[f], e.ask.view[Src].block)
      BY <1>5, <1>11, <2>1 DEF Sound, Bounded
    <3>2. e.after[f].block = e.ask.view[Src].block
      BY <1>9, <2>1, <3>1 DEF WithBlock, Doc
    <3>3. doc[Src].block = e.ask.view[Src].block
      BY <1>5, <1>11, <2>1 DEF Held
    <3> QED
      BY <1>7, <2>1, <3>2, <3>3
  <2> QED
    BY <1>1, <1>6, <1>7, <1>8, <1>11, <2>1
<1> QED
  BY <1>5, <1>10, <1>11 DEF Sound

\* No other step makes a generation applied.
LEMMA OnlyPublishApplies ==
  ASSUME CommandsInv, [Next]_vars, NEW g \in Gens, Applies(g)
  PROVE  \E s \in Sessions : Publish(s)
<1>1. gen' # gen
  BY DEF Applies
<1>2. ASSUME NEW s \in Sessions, Admit(s) PROVE FALSE
  <2>1. \E h \in Gens : Free(h) /\ \E e : gen' = [gen EXCEPT ![h] = e]
    BY <1>1, <1>2 DEF Admit, Refuse, Continue, evidence
  <2> QED
    BY <2>1 DEF Free, Applies, CommandsInv, Typed
<1>3. ASSUME NEW s \in Sessions, Restore(s) PROVE FALSE
  <2>1. gen' = [gen EXCEPT ![sess[s].gen].status = "rolled-back"]
    BY <1>1, <1>3 DEF Restore, RolledBack, Put, evidence
  <2>2. g = sess[s].gen
    BY <2>1 DEF Applies, CommandsInv, Typed
  <2>3. DOMAIN gen[g] = EvidenceFields
    BY DEF Applies, CommandsInv, Sound
  <2>4. gen'[g].status = "rolled-back"
    BY <2>1, <2>2, <2>3 DEF EvidenceFields, CommandsInv, Typed
  <2> QED
    BY <2>4 DEF Applies
<1>4. ASSUME NEW s \in Sessions, Undo(s) PROVE FALSE
  <2>1. gen' = [gen EXCEPT ![sess[s].gen].undone = TRUE]
    BY <1>1, <1>4 DEF Undo, Refuse, Continue, evidence
  <2>2. DOMAIN gen[g] = EvidenceFields
    BY DEF Applies, CommandsInv, Sound
  <2>3. gen'[g].status = gen[g].status
    BY <2>1, <2>2 DEF EvidenceFields, CommandsInv, Typed
  <2> QED
    BY <2>3 DEF Applies
<1>5. ASSUME NEW s \in Sessions, Run(s), ~Publish(s) PROVE FALSE
  <2>1. ~(Select(s) \/ Load(s) \/ View(s) \/ PlanSource(s) \/ PlanDoc(s))
    BY <1>1 DEF Select, Load, View, PlanSource, PlanDoc, Refuse, Continue, evidence
  <2>2. ~(Hash(s) \/ PlanRelation(s) \/ Scratch(s) \/ PostValidate(s))
    BY <1>1 DEF Hash, PlanRelation, Scratch, PostValidate, Refuse, Continue, evidence
  <2>3. ~(Replace(s) \/ Validate(s) \/ Refresh(s))
    BY <1>1 DEF Replace, Put, Validate, Rollback, Refresh, Continue, evidence
  <2> QED
    BY <1>2, <1>3, <1>4, <1>5, <2>1, <2>2, <2>3 DEF Run
<1>6. ~(\E s \in Sessions, cmd \in AllCommands, selected \in BOOLEAN, h \in Gens :
          Start(s, cmd, selected, h))
  BY <1>1 DEF Start, evidence
<1>7. ~Environment
  BY <1>1 DEF Environment, AuthorEdit, AuthorityEdit, Crash, evidence
<1>8. ~UNCHANGED vars
  BY <1>1 DEF vars, evidence
<1> QED
  BY <1>5, <1>6, <1>7, <1>8 DEF Next

\* What is published is right at that moment, for any number of sessions and
\* edits (run_bounded_transaction as used by maintenance and
\* apply_migration_plan).
THEOREM PublishesCurrent == ASSUME NoneApart PROVE Spec => PublishedCurrent
<1>1. CommandsInv /\ [Next]_vars => [PublishesRight]_vars
  <2> SUFFICES ASSUME CommandsInv, [Next]_vars PROVE PublishesRight
    OBVIOUS
  <2>1. ASSUME NEW g \in Gens, Applies(g) PROVE \E s \in Sessions : Publish(s)
    BY <2>1, OnlyPublishApplies
  <2> QED
    BY <2>1, PublishRight DEF PublishesRight
<1> QED
  BY <1>1, CommandsInvariant, PTL DEF Spec, PublishedCurrent


-----------------------------------------------------------------------------
(* What the journal concludes *)

\* A session that ends or goes on with the result it had concludes nothing.
Silent(s) ==
  /\ \A r \in Sessions \ {s} : sess'[r] = sess[r]
  /\ sess'[s].result = sess[s].result \/ sess'[s].result = None

LEMMA Inconclusive ==
  ASSUME NEW s \in Sessions, NEW r \in Sessions, Silent(s) PROVE ~Concludes(r)
BY DEF Silent, Concludes

LEMMA IdleSilent ==
  ASSUME CommandsInv, NEW s \in Sessions, Become(s, Idle) PROVE Silent(s)
<1>1. Idle.result = None
  BY DEF Idle
<1>2. \A r \in Sessions : sess'[r] = IF r = s THEN Idle ELSE sess[r]
  BY DEF Become, CommandsInv, Typed
<1> QED
  BY <1>1, <1>2 DEF Silent

LEMMA NextSilent ==
  ASSUME CommandsInv, NEW s \in Sessions, NEW next, Become(s, next),
         next.result = sess[s].result
  PROVE  Silent(s)
<1>1. \A r \in Sessions : sess'[r] = IF r = s THEN next ELSE sess[r]
  BY DEF Become, CommandsInv, Typed
<1> QED
  BY <1>1 DEF Silent

\* Reading and planning conclude nothing, nor does the writing of a document.
LEMMA ReadingSilent ==
  ASSUME CommandsInv, NEW s \in Sessions,
         Select(s) \/ Load(s) \/ View(s) \/ PlanSource(s) \/ PlanDoc(s) \/ Hash(s)
  PROVE  Silent(s)
<1> DEFINE j == sess[s]
<1>1. SessionTyped(j)
  BY Known
<1>2. CASE Become(s, Idle)
  BY <1>2, IdleSilent
<1>3. CASE Select(s)
  <2> DEFINE next == [j EXCEPT !.pc = "load", !.managed = man \in Managed]
  <2>1. next.result = j.result /\ Become(s, next)
    BY <1>1, <1>3 DEF Select, Continue, SessionTyped
  <2> HIDE DEF next
  <2> QED
    BY <2>1, NextSilent
<1>4. CASE Load(s) /\ ~Become(s, Idle)
  <2> DEFINE recovering == j.cmd \in Recoveries
             next == [j EXCEPT
               !.pc = IF recovering THEN "undo" ELSE "view",
               !.cfg = cfg,
               !.man = IF j.selected THEN man ELSE None,
               !.sha = IF recovering THEN cfg ELSE None,
               !.todo = IF recovering THEN {} ELSE Files]
  <2>1. Become(s, next)
    BY <1>4 DEF Load, Refuse, Continue
  <2>2. next.result = j.result
    BY <1>1 DEF SessionTyped
  <2> HIDE DEF next
  <2> QED
    BY <2>1, <2>2, NextSilent
<1>5. CASE View(s)
  <2> DEFINE stage(f) == Then(j.todo, f, IF j.cmd = "migrate" THEN "planrelation"
                                         ELSE "plansource", "view")
             next(f) == [j EXCEPT !.view[f] = doc[f], !.todo = @ \ {f}, !.pc = stage(f)]
  <2>1. PICK f \in Files : Become(s, next(f))
    BY <1>5 DEF View, Continue
  <2> HIDE DEF stage
  <2>2. next(f).result = j.result
    BY <1>1 DEF SessionTyped
  <2> HIDE DEF next
  <2> QED
    BY <2>1, <2>2, NextSilent
<1>6. CASE PlanSource(s) /\ ~Become(s, Idle)
  <2> DEFINE hash == [j EXCEPT !.pc = "hash"]
             plan == [j EXCEPT !.pc = "plandoc", !.guard = doc[Src], !.todo = Drifted(j)]
  <2>1. Become(s, hash) \/ Become(s, plan)
    BY <1>6 DEF PlanSource, Refuse, Continue
  <2>2. hash.result = j.result /\ plan.result = j.result
    BY <1>1 DEF SessionTyped
  <2> HIDE DEF hash, plan
  <2> QED
    BY <2>1, <2>2, NextSilent
<1>7. CASE PlanDoc(s) /\ ~Become(s, Idle)
  <2> DEFINE stage(f) == Then(j.todo, f, "hash", "plandoc")
             next(f) == [j EXCEPT !.plan[f] = doc[f], !.todo = @ \ {f}, !.pc = stage(f)]
  <2>1. PICK f \in Files : Become(s, next(f))
    BY <1>7 DEF PlanDoc, Refuse, Continue
  <2> HIDE DEF stage
  <2>2. next(f).result = j.result
    BY <1>1 DEF SessionTyped
  <2> HIDE DEF next
  <2> QED
    BY <2>1, <2>2, NextSilent
<1>8. CASE Hash(s) /\ ~Become(s, Idle)
  <2> DEFINE next == [j EXCEPT !.pc = "admit", !.sha = cfg]
  <2>1. next.result = j.result /\ Become(s, next)
    BY <1>1, <1>8 DEF Hash, Refuse, Continue, SessionTyped
  <2> HIDE DEF next
  <2> QED
    BY <2>1, NextSilent
<1> QED
  BY <1>2, <1>3, <1>4, <1>5, <1>6, <1>7, <1>8

LEMMA PutSilent ==
  ASSUME CommandsInv, NEW s \in Sessions, NEW content, NEW phase, Put(s, content, phase)
  PROVE  Silent(s)
<1> DEFINE j == sess[s]
           next(f) == [j EXCEPT !.todo = @ \ {f}, !.pc = Then(j.todo, f, phase, @)]
<1>1. PICK f \in Files : Become(s, next(f))
  BY DEF Put
<1>2. next(f).result = j.result
  BY Known DEF SessionTyped
<1> HIDE DEF next
<1> QED
  BY <1>1, <1>2, NextSilent

LEMMA RollbackSilent ==
  ASSUME CommandsInv, NEW s \in Sessions, Rollback(s) PROVE Silent(s)
<1> DEFINE next == [sess[s] EXCEPT !.pc = "restore",
                                   !.todo = InUse(gen[sess[s].gen].before)]
<1>1. next.result = sess[s].result
  BY Known DEF SessionTyped
<1>2. Become(s, next)
  BY DEF Rollback, Continue
<1> HIDE DEF next
<1> QED
  BY <1>1, <1>2, NextSilent

LEMMA WritingSilent ==
  ASSUME CommandsInv, NEW s \in Sessions,
         \/ PlanRelation(s) \/ Scratch(s) \/ Admit(s) \/ Replace(s) \/ Validate(s)
         \/ PostValidate(s) \/ Refresh(s)
  PROVE  Silent(s)
<1> DEFINE j == sess[s]
           at(phase) == [j EXCEPT !.pc = phase]
<1>1. SessionTyped(j)
  BY Known
<1>2. CASE Become(s, Idle)
  BY <1>2, IdleSilent
<1>3. CASE PlanRelation(s) /\ ~Become(s, Idle)
  <2> DEFINE next == [j EXCEPT !.pc = "scratch",
               !.plan = [f \in Files |-> IF f \in Legacy(j.view) THEN doc[f] ELSE None]]
  <2>1. next.result = j.result /\ Become(s, next)
    BY <1>1, <1>3 DEF PlanRelation, Refuse, Continue, SessionTyped
  <2> HIDE DEF next
  <2> QED
    BY <2>1, NextSilent
<1>4. CASE (Scratch(s) \/ PostValidate(s) \/ Validate(s)) /\ ~Become(s, Idle) /\ ~Rollback(s)
  <2>1. \E phase \in {"admit", "refresh", "publish"} : Become(s, at(phase))
    BY <1>4 DEF Scratch, PostValidate, Validate, Refuse, Continue
  <2>2. \A phase : at(phase).result = j.result
    BY <1>1 DEF SessionTyped
  <2> HIDE DEF at
  <2> QED
    BY <2>1, <2>2, NextSilent
<1>5. CASE Admit(s) /\ ~Become(s, Idle)
  <2> DEFINE next(g) == [j EXCEPT !.pc = "replace", !.gen = g, !.todo = InUse(j.plan)]
  <2>1. PICK g \in Gens : Become(s, next(g))
    BY <1>5 DEF Admit, Refuse, Continue
  <2>2. next(g).result = j.result
    BY <1>1 DEF SessionTyped
  <2> HIDE DEF next
  <2> QED
    BY <2>1, <2>2, NextSilent
<1>6. CASE Replace(s)
  BY <1>6, PutSilent DEF Replace
<1>7. CASE Rollback(s)
  BY <1>7, RollbackSilent
<1>8. CASE Refresh(s)
  BY <1>2, <1>8 DEF Refresh
<1> QED
  BY <1>2, <1>3, <1>4, <1>5, <1>6, <1>7, <1>8

\* The bytes that a result speaks of.
Speaks(e, word) ==
  \A f \in InUse(e.after) :
    doc'[f] = IF word = "applied" THEN e.after[f] ELSE e.before[f]

\* The one session that concludes does so with this result.
LEMMA OneConcludes ==
  ASSUME CommandsInv, NEW s \in Sessions, NEW r \in Sessions, NEW word, NEW phase,
         Conclude(s, word, phase), Concludes(r)
  PROVE  r = s /\ sess'[r].gen = sess[s].gen /\ sess'[r].result = word
<1>1. SessionTyped(sess[s])
  BY Known
<1>2. PICK next : next = [sess[s] EXCEPT !.pc = phase, !.result = word]
  OBVIOUS
<1>3. next.gen = sess[s].gen /\ next.result = word
  BY <1>1, <1>2 DEF SessionTyped
<1>4. sess' = [sess EXCEPT ![s] = next]
  BY <1>2 DEF Conclude, Become
<1> QED
  BY <1>3, <1>4 DEF CommandsInv, Typed, Concludes

LEMMA EndRight ==
  ASSUME NoneApart, CommandsInv, NEW s \in Sessions, NEW r \in Sessions,
         Publish(s) \/ Restore(s), Concludes(r)
  PROVE  Speaks(gen'[sess'[r].gen], sess'[r].result)
<1> DEFINE j == sess[s]
<1>1. Writing(j)
  BY DEF Publish, Restore, At, Writing
<1>2. PICK g : g = j.gen
  OBVIOUS
<1>3. Held(s, j, gen[g]) /\ Sound(gen[g]) /\ g \in Gens
  BY <1>1, <1>2, HolderKnown
<1>4. InUse(gen[g].after) = InUse(gen[g].before)
  BY <1>3 DEF InUse, Sound, Bounded
<1>5. ~Rollback(s) /\ ~Put(s, gen[j.gen].before, "restore")
  BY RollbackSilent, PutSilent, Inconclusive
<1>6. PICK word \in {"applied", "rolled-back"} :
        /\ gen' = [gen EXCEPT ![g].status = word]
        /\ Conclude(s, word, "refresh") /\ doc' = doc
        /\ word = "applied" => j.pc = "publish"
        /\ word = "rolled-back" => j.pc = "restore" /\ j.todo = {}
  BY <1>2, <1>5 DEF Publish, Restore, RolledBack, At
<1>7. sess'[r].gen = g /\ sess'[r].result = word
  BY <1>2, <1>6, OneConcludes
<1>8. gen'[g].before = gen[g].before /\ gen'[g].after = gen[g].after
  BY <1>3, <1>6, StatusSound DEF CommandsInv, Typed
<1>9. \A f \in InUse(gen[g].before) :
        doc[f] = IF word = "applied" THEN gen[g].after[f] ELSE gen[g].before[f]
  BY <1>3, <1>6 DEF Held, Standing
<1> QED
  BY <1>4, <1>6, <1>7, <1>8, <1>9 DEF Speaks

LEMMA UndoRight ==
  ASSUME NoneApart, CommandsInv, NEW s \in Sessions, NEW r \in Sessions,
         Undo(s), Concludes(r)
  PROVE  Speaks(gen'[sess'[r].gen], sess'[r].result)
<1> DEFINE j == sess[s]
           phase == IF j.cmd = "migrate-interrupted" THEN "refresh" ELSE "postvalidate"
<1>1. ~Refuse(s)
  BY IdleSilent, Inconclusive DEF Refuse, Continue
<1>2. PICK g : g = j.gen
  OBVIOUS
<1>3. At(s, "undo")
  BY DEF Undo
<1>4. CASE /\ Recoverable(j)
           /\ doc' = Overlay(gen[g].before)
           /\ gen' = [gen EXCEPT ![g].undone = TRUE]
           /\ Recovered(s, "recovered")
  <2>1. g \in Gens /\ Sound(gen[g])
    BY <1>2, <1>3, <1>4, AddressedKnown DEF Recoverable
  <2>2. Conclude(s, "recovered", phase)
    BY <1>4 DEF Recovered
  <2>3. sess'[r].gen = g /\ sess'[r].result = "recovered"
    BY <1>2, <2>2, OneConcludes
  <2>4. gen'[g].before = gen[g].before /\ gen'[g].after = gen[g].after
    BY <1>4, <2>1, UndoneSound DEF CommandsInv, Typed
  <2>5. \A f \in InUse(gen[g].after) : doc'[f] = gen[g].before[f]
    BY <1>4, <2>1 DEF Overlay, InUse, Sound, Bounded
  <2> QED
    BY <2>3, <2>4, <2>5 DEF Speaks
<1>5. CASE /\ AlreadyRecovered(j)
           /\ Recovered(s, "already-recovered")
           /\ UNCHANGED <<doc, evidence>>
  <2>1. g \in Gens /\ Sound(gen[g])
    BY <1>2, <1>3, <1>5, AddressedKnown DEF AlreadyRecovered
  <2>2. Conclude(s, "already-recovered", phase)
    BY <1>5 DEF Recovered
  <2>3. sess'[r].gen = g /\ sess'[r].result = "already-recovered"
    BY <1>2, <2>2, OneConcludes
  <2>4. \A f \in InUse(gen[g].after) : doc[f] = gen[g].before[f]
    BY <1>2, <1>5, <2>1 DEF AlreadyRecovered, Holds, InUse, Sound, Bounded
  <2> QED
    BY <1>5, <2>3, <2>4 DEF Speaks, evidence
<1> QED
  BY <1>1, <1>2, <1>4, <1>5 DEF Undo

\* When the journal concludes, every document of the generation holds what the
\* result says, for any number of sessions, and whether the generation was
\* applied, rolled back, interrupted or undone before (run_bounded_transaction,
\* recover_generation, recover_interrupted_generation).
THEOREM ConclusionsRight == ASSUME NoneApart PROVE Spec => ConclusionsHold
<1>1. CommandsInv /\ [Next]_vars => [EndsAsReported]_vars
  <2> SUFFICES ASSUME CommandsInv, [Next]_vars, NEW r \in Sessions, Concludes(r)
               PROVE  Speaks(gen'[sess'[r].gen], sess'[r].result)
    BY DEF EndsAsReported, Speaks
  <2>1. sess' # sess
    BY DEF Concludes
  <2>2. ASSUME NEW s \in Sessions, NEW cmd \in AllCommands, NEW selected \in BOOLEAN,
               NEW g \in Gens, Start(s, cmd, selected, g)
        PROVE  FALSE
    <3> DEFINE next == [Idle EXCEPT !.pc = IF selected THEN "select" ELSE "load",
                          !.cmd = cmd, !.selected = selected,
                          !.gen = IF cmd \in Recoveries THEN g ELSE None,
                          !.ask = IF cmd = "write" THEN approved ELSE None]
    <3>1. next.result = None
      BY DEF Idle
    <3>2. Become(s, next)
      BY <2>2 DEF Start
    <3> HIDE DEF next
    <3>3. \A q \in Sessions : sess'[q] = IF q = s THEN next ELSE sess[q]
      BY <3>2 DEF Become, CommandsInv, Typed
    <3> QED
      BY <3>1, <3>3 DEF Concludes
  <2>3. ~Environment
    BY <2>1, IdleSilent, Inconclusive DEF Environment, AuthorEdit, AuthorityEdit, Crash
  <2>4. PICK s \in Sessions : Run(s)
    BY <2>1, <2>2, <2>3 DEF Next, vars
  <2>5. Publish(s) \/ Restore(s) \/ Undo(s)
    BY <2>4, ReadingSilent, WritingSilent, Inconclusive DEF Run
  <2> QED
    BY <2>5, EndRight, UndoRight
<1> QED
  BY <1>1, CommandsInvariant, PTL DEF Spec, ConclusionsHold

-----------------------------------------------------------------------------
(* Nothing else in a document changes *)

\* One of the two parts of a document stays, the canonical block always.
Kept ==
  /\ doc'[Src].block = doc[Src].block
  /\ \A d \in Docs : doc'[d].block = doc[d].block \/ doc'[d].rest = doc[d].rest

\* A change between the before and the after image is of one part.
LEMMA BoundedChange ==
  ASSUME NEW e, Sound(e), NEW f \in InUse(e.before)
  PROVE  \/ e.after[f].block = e.before[f].block
         \/ f \in Docs /\ e.after[f].rest = e.before[f].rest
<1>1. e.before[f] \in Doc
  BY PartInUse DEF Sound
<1>2. CASE e.cmd = "write"
  <2>1. f \in Docs /\ e.after[f] = WithBlock(e.before[f], e.ask.view[Src].block)
    BY <1>2 DEF Sound, Bounded
  <2> QED
    BY <1>1, <2>1 DEF WithBlock, Doc
<1>3. CASE e.cmd = "migrate"
  BY <1>1, <1>3, WithRelationsDoc DEF Sound, Bounded
<1> QED
  BY <1>2, <1>3 DEF Sound

\* Every document stays, or goes from one image of a generation to the other.
LEMMA ImagesKept ==
  ASSUME NEW e, Sound(e),
         \A f \in Files :
           \/ doc'[f] = doc[f]
           \/ /\ f \in InUse(e.before)
              /\ doc[f] = e.before[f] \/ doc[f] = e.after[f]
              /\ doc'[f] = e.before[f] \/ doc'[f] = e.after[f]
  PROVE  Kept
<1>1. ASSUME NEW f \in Files
      PROVE  \/ doc'[f].block = doc[f].block
             \/ f \in Docs /\ doc'[f].rest = doc[f].rest
  BY <1>1, BoundedChange
<1>2. Src \in Files /\ Src \notin Docs /\ Docs \subseteq Files
  BY FilesAssumption DEF Files
<1> QED
  BY <1>1, <1>2 DEF Kept

LEMMA PutKeeps ==
  ASSUME CommandsInv, NEW s \in Sessions, Replace(s) \/ Restore(s) PROVE Kept
<1> DEFINE j == sess[s]
<1>1. Writing(j)
  BY DEF Replace, Restore, At, Writing
<1>2. PICK e : e = gen[j.gen]
  OBVIOUS
<1>3. Held(s, j, e) /\ Sound(e)
  BY <1>1, <1>2, HolderKnown
<1>4. \A f \in j.todo : f \in InUse(e.before) /\ (doc[f] = e.before[f] \/ doc[f] = e.after[f])
  BY <1>3 DEF Replace, Restore, At, Held, Standing
<1>5. CASE doc' = doc
  BY <1>5 DEF Kept
<1>6. CASE doc' # doc
  <2>1. \E content \in {e.before, e.after}, phase \in {"validate", "restore"} :
          Put(s, content, phase)
    BY <1>2, <1>6 DEF Replace, Restore
  <2>2. PICK content \in {e.before, e.after}, f \in Files :
          Least(j.todo, f) /\ doc' = [doc EXCEPT ![f] = content[f]]
    BY <2>1 DEF Put
  <2>3. f \in j.todo
    BY <2>2, LeastIn
  <2>4. DOMAIN doc = Files
    BY DEF CommandsInv, Typed
  <2> QED
    BY <1>3, <1>4, <2>2, <2>3, <2>4, ImagesKept
<1> QED
  BY <1>5, <1>6

LEMMA UndoKeeps ==
  ASSUME CommandsInv, NEW s \in Sessions, Undo(s) PROVE Kept
<1>1. CASE doc' = doc
  BY <1>1 DEF Kept
<1>2. CASE doc' # doc
  <2>1. PICK g : g = sess[s].gen
    OBVIOUS
  <2>2. Recoverable(sess[s]) /\ doc' = Overlay(gen[g].before) /\ sess[s].pc = "undo"
    BY <1>2, <2>1 DEF Undo, Refuse, Continue, At
  <2>4. PICK e : e = gen[g]
    OBVIOUS
  <2>5. Sound(e)
    BY <2>1, <2>2, <2>4, AddressedKnown DEF Recoverable, At
  <2>6. \A f \in InUse(e.after) : doc[f] = e.before[f] \/ doc[f] = e.after[f]
    BY <2>1, <2>2, <2>4 DEF Recoverable, Holds
  <2>7. InUse(e.before) = InUse(e.after)
    BY <2>5 DEF InUse, Sound, Bounded
  <2>8. \A f \in Files : doc'[f] = IF f \in InUse(e.before) THEN e.before[f] ELSE doc[f]
    BY <2>2, <2>4 DEF Overlay, InUse
  <2> QED
    BY <2>5, <2>6, <2>7, <2>8, ImagesKept
<1> QED
  BY <1>1, <1>2

\* Only authors spend the edits.
Counted == left \in [Bounds -> Nat]

LEMMA CountedStep ==
  ASSUME Counted, [Next]_vars PROVE Counted'
<1>1. ASSUME NEW k \in Bounds, Spend(k) PROVE Counted'
  <2>1. left[k] - 1 \in Nat
    BY <1>1 DEF Spend, Counted
  <2> QED
    BY <1>1, <2>1 DEF Spend, Counted
<1>2. CASE left' = left
  BY <1>2 DEF Counted
<1>3. \A k \in {"start", "edit", "auth", "crash"} : k \in Bounds
  BY DEF Bounds
<1>4. CASE \E s \in Sessions, cmd \in AllCommands, selected \in BOOLEAN, g \in Gens :
             Start(s, cmd, selected, g)
  BY <1>1, <1>3, <1>4 DEF Start
<1>5. CASE Environment
  BY <1>1, <1>3, <1>5 DEF Environment, AuthorEdit, AuthorityEdit, Crash
<1>6. ASSUME NEW s \in Sessions, Run(s) PROVE left' = left
  <2>1. CASE Select(s) \/ Load(s) \/ View(s) \/ PlanSource(s) \/ PlanDoc(s)
    BY <2>1 DEF Select, Load, View, PlanSource, PlanDoc, Refuse, Continue
  <2>2. CASE Hash(s) \/ PlanRelation(s) \/ Scratch(s) \/ PostValidate(s)
    BY <2>2 DEF Hash, PlanRelation, Scratch, PostValidate, Refuse, Continue
  <2>3. CASE Admit(s) \/ Replace(s) \/ Validate(s) \/ Publish(s)
    BY <2>3 DEF Admit, Refuse, Replace, Put, Validate, Publish, Rollback, Continue
  <2>4. CASE Restore(s) \/ Refresh(s) \/ Undo(s)
    BY <2>4 DEF Restore, Put, Refresh, Undo, Refuse, Continue
  <2> QED
    BY <1>6, <2>1, <2>2, <2>3, <2>4 DEF Run
<1> QED
  BY <1>2, <1>4, <1>5, <1>6 DEF Next, vars

LEMMA CountedInit == Init => Counted
<1> SUFFICES ASSUME Init PROVE Counted
  OBVIOUS
<1>1. \A k \in Bounds : left[k] \in Nat
  BY ValuesAssumption DEF Init, Bounds
<1> QED
  BY <1>1 DEF Init, Counted

LEMMA StepKeeps ==
  ASSUME CommandsInv, Counted, [Next]_vars, left'["edit"] = left["edit"]
  PROVE  Kept
<1>1. CASE doc' = doc
  BY <1>1 DEF Kept
<1>2. CASE \E s \in Sessions : Replace(s) \/ Restore(s)
  BY <1>2, PutKeeps
<1>3. CASE \E s \in Sessions : Undo(s)
  BY <1>3, UndoKeeps
<1>4. ~(\E f \in Files : AuthorEdit(f))
  <2> SUFFICES ASSUME Spend("edit") PROVE FALSE
    BY DEF AuthorEdit
  <2>1. left'["edit"] = left["edit"] - 1 /\ left["edit"] \in Nat
    BY DEF Spend, Counted, Bounds
  <2> QED
    BY <2>1
<1>5. ASSUME NEW s \in Sessions, Run(s), ~(Replace(s) \/ Restore(s) \/ Undo(s))
      PROVE  doc' = doc
  <2>1. CASE Select(s) \/ Load(s) \/ View(s) \/ PlanSource(s) \/ PlanDoc(s)
    BY <2>1 DEF Select, Load, View, PlanSource, PlanDoc, Refuse, Continue
  <2>2. CASE Hash(s) \/ PlanRelation(s) \/ Scratch(s) \/ PostValidate(s)
    BY <2>2 DEF Hash, PlanRelation, Scratch, PostValidate, Refuse, Continue
  <2>3. CASE Admit(s) \/ Validate(s) \/ Publish(s) \/ Refresh(s)
    BY <2>3 DEF Admit, Refuse, Validate, Publish, Rollback, Refresh, Continue
  <2> QED
    BY <1>5, <2>1, <2>2, <2>3 DEF Run
<1>6. CASE \E s \in Sessions, cmd \in AllCommands, selected \in BOOLEAN, g \in Gens :
             Start(s, cmd, selected, g)
  BY <1>1, <1>6 DEF Start
<1>7. CASE AuthorityEdit \/ \E s \in Sessions : Crash(s)
  BY <1>1, <1>7 DEF AuthorityEdit, Crash
<1>8. CASE UNCHANGED vars
  BY <1>1, <1>8 DEF vars
<1> QED
  BY <1>1, <1>2, <1>3, <1>4, <1>5, <1>6, <1>7, <1>8 DEF Next, Environment

\* No command, recovery or crash changes what an author put beside the interior
\* it owns, whatever else happens to the document meanwhile
\* (FileEdit ranges of _maintenance_write_plan, _migration_edits).
THEOREM RestKept == ASSUME NoneApart PROVE Spec => KeepsTheRest
<1>1. Counted /\ [Next]_vars => Counted'
  BY CountedStep
<1>2. Spec => []Counted
  BY <1>1, CountedInit, PTL DEF Spec
<1>3. CommandsInv /\ Counted /\ [Next]_vars =>
        [left'["edit"] = left["edit"] =>
           /\ doc'[Src].block = doc[Src].block
           /\ \A d \in Docs : doc'[d].block = doc[d].block \/ doc'[d].rest = doc[d].rest]_vars
  BY StepKeeps DEF Kept
<1> QED
  BY <1>2, <1>3, CommandsInvariant, PTL DEF Spec, KeepsTheRest

=============================================================================

--------------------------- MODULE ProjectionProofs ---------------------------
(* Theorems about the projection cache: what readers are served is true for   *)
(* any number of writers, readers, documents and generations and whatever     *)
(* happens to the cache; and a single writer never takes an intact selected   *)
(* generation away from them, leaves the one it built, and keeps the window   *)
(* of generations that retention promises.                                    *)
EXTENDS Projection, FiniteSetTheorems, WellFoundedInduction, TLAPS

-----------------------------------------------------------------------------
(* What a read knows *)

Current(j) == j.kind \in {"live", "targeted"}
Shards(g) == {d \in Docs : g.view[d] # Missing}
Started(j) == j.pc \in {"pointer", "manifest", "list", "sources"}
Serving(j) == j.pc \in {"shards", "served"}

\* The history of a read holds what stands in the sources.
Follows(j, held) == j.pc # "idle" => \A d \in Docs : held[d] \in j.seen[d]

\* The generation is selected, and from the manifest on bound to the
\* configuration of the read.
Selected(j) ==
  /\ j.pc = "pointer" => Current(j)
  /\ j.pc = "manifest" => j.gen \in Gens
  /\ j.pc \in {"list", "sources", "shards", "served"} =>
       j.gen \in Gens /\ (j.kind # "pinned" => j.gen.cfg = j.cfg)

\* Every source that is not still to be read held what the generation holds.
Compared(j) ==
  /\ j.pc = "list" => Current(j) /\ j.todo = Shards(j.gen)
  /\ j.pc = "sources" =>
       Current(j) /\ \A d \in Docs \ j.todo : j.gen.view[d] \in j.seen[d]
  /\ Serving(j) /\ Current(j) => \A d \in Docs : j.gen.view[d] \in j.seen[d]

\* What is returned was verified; all that was asked for is, or is still to be.
Verified(j) ==
  /\ Started(j) => \A d \in Docs : j.got[d] = "gone"
  /\ Serving(j) => \A d \in Docs : j.got[d] # "bad"
  /\ Serving(j) /\ j.kind # "targeted" =>
       \A d \in Shards(j.gen) : d \in j.todo \/ j.got[d] = "ok"
  /\ j.pc = "served" => j.todo = {}

Knows(j, held) == Follows(j, held) /\ Selected(j) /\ Compared(j) /\ Verified(j)

World == source \in [Docs -> Bytes] /\ config \in Configs
ReadInv ==
  /\ World
  /\ reader \in [Readers -> Reader]
  /\ \A r \in Readers : Knows(reader[r], source)

LEMMA WholeIs ==
  ASSUME NEW g \in Gens
  PROVE  Whole(g) \ {Manifest} = Shards(g) /\ Shards(g) \subseteq Docs
BY DocsAssumption DEF Whole, Shards

LEMMA IdleKnows ==
  ASSUME NEW held
  PROVE  Knows(ReaderIdle, held) /\ ReaderIdle \in Reader
<1>1. ReaderIdle \in Reader
  BY DEF ReaderIdle, Reader, ReaderPhases, AllKinds
<1>2. ReaderIdle.pc = "idle"
  BY DEF ReaderIdle
<1> QED
  BY <1>1, <1>2 DEF Knows, Follows, Selected, Compared, Verified, Started, Serving

LEMMA ReadInit == ASSUME Init PROVE ReadInv
<1>1. World /\ reader = [r \in Readers |-> ReaderIdle]
  BY DEF Init, World
<1> QED
  BY <1>1, IdleKnows DEF ReadInv

\* A step that gives one read a new state, and leaves the world alone.
LEMMA OneRead ==
  ASSUME ReadInv, UNCHANGED world, NEW r \in Readers, NEW j \in Reader,
         reader' = [reader EXCEPT ![r] = j], Knows(j, source)
  PROVE  ReadInv'
<1>1. source' = source /\ World'
  BY DEF world, ReadInv, World
<1>2. reader' \in [Readers -> Reader]
  BY DEF ReadInv
<1>3. ASSUME NEW q \in Readers PROVE Knows(reader'[q], source)
  BY <1>3 DEF ReadInv
<1> QED
  BY <1>1, <1>2, <1>3 DEF ReadInv

LEMMA Opening ==
  ASSUME ReadInv, NEW r \in Readers, ROpen(r) PROVE ReadInv'
<1>1. PICK kind \in Kinds, g \in Made \cup {NoGen} :
        /\ kind \in {"live", "targeted"} <=> g = NoGen
        /\ reader' = [reader EXCEPT ![r] =
             [ReaderIdle EXCEPT
                !.pc = IF g = NoGen THEN "pointer" ELSE "manifest",
                !.kind = kind, !.cfg = config, !.gen = g,
                !.seen = [d \in Docs |-> {source[d]}],
                !.calm = /\ g = NoGen
                         /\ pointer = [view |-> source, cfg |-> config]
                         /\ pointer \in Gens /\ Intact(pointer)]]
  BY DEF ROpen
<1> DEFINE calm == /\ g = NoGen
                   /\ pointer = [view |-> source, cfg |-> config]
                   /\ pointer \in Gens /\ Intact(pointer)
           pc == IF g = NoGen THEN "pointer" ELSE "manifest"
           seen == [d \in Docs |-> {source[d]}]
           j == [ReaderIdle EXCEPT !.pc = pc, !.kind = kind, !.cfg = config,
                                   !.gen = g, !.seen = seen, !.calm = calm]
<1>2. reader' = [reader EXCEPT ![r] = j]
  BY <1>1, Zenon
<1>3. calm \in BOOLEAN
  BY Zenon
<1> HIDE DEF calm
<1>4. /\ j \in Reader /\ j.todo = {} /\ j.got = [d \in Docs |-> "gone"]
      /\ j.pc = pc /\ j.kind = kind /\ j.cfg = config /\ j.gen = g /\ j.seen = seen
  <2>1. g \in Gens \cup {NoGen} /\ kind \in AllKinds
    BY BoundAssumption DEF Made
  <2>2. seen \in [Docs -> SUBSET Bytes] /\ config \in Configs
    BY DEF ReadInv, World
  <2>3. pc \in ReaderPhases
    BY DEF ReaderPhases
  <2>4. ReaderIdle \in Reader
    BY IdleKnows
  <2>5. ReaderIdle.todo = {} /\ ReaderIdle.got = [d \in Docs |-> "gone"]
    BY DEF ReaderIdle
  <2> HIDE DEF pc, seen
  <2> QED
    BY <1>3, <2>1, <2>2, <2>3, <2>4, <2>5 DEF Reader
<1>5. Knows(j, source)
  <2> HIDE DEF j
  <2>1. pc = "pointer" => kind \in {"live", "targeted"}
    BY <1>1
  <2>2. pc = "manifest" => g \in Gens
    BY DEF Made
  <2> QED
    BY <1>4, <2>1, <2>2 DEF Knows, Follows, Selected, Compared, Verified, Started,
                            Serving, Current
<1>6. UNCHANGED world
  BY DEF ROpen
<1> HIDE DEF j
<1> QED
  BY <1>2, <1>4, <1>5, <1>6, OneRead

\* Steps of a read that has started. One that falls back knows less.
LEMMA FallingBack ==
  ASSUME ReadInv, UNCHANGED world, NEW r \in Readers, RGoto(r, "fallback"),
         reader[r].pc # "idle"
  PROVE  ReadInv'
<1> DEFINE j == reader[r]
           k == [j EXCEPT !.pc = "fallback"]
<1>1. j \in Reader /\ Knows(j, source)
  BY DEF ReadInv
<1>2. reader' = [reader EXCEPT ![r] = k]
  BY DEF RGoto, ReadInv
<1>3. k \in Reader
  BY <1>1 DEF Reader, ReaderPhases
<1>4. Knows(k, source)
  BY <1>1 DEF Reader, Knows, Follows, Selected, Compared, Verified, Started, Serving
<1> HIDE DEF k
<1> QED
  BY <1>2, <1>3, <1>4, OneRead

LEMMA Pointing ==
  ASSUME ReadInv, NEW r \in Readers, RPointer(r) PROVE ReadInv'
<1> DEFINE j == reader[r]
           k == [j EXCEPT !.pc = "manifest", !.gen = pointer]
<1>1. j \in Reader /\ Knows(j, source) /\ UNCHANGED world /\ j.pc = "pointer"
  BY DEF ReadInv, RPointer, RAt
<1>2. CASE pointer \in Gens
  <2>1. reader' = [reader EXCEPT ![r] = k]
    BY <1>2 DEF RPointer, ReadInv
  <2>2. k \in Reader
    BY <1>1, <1>2 DEF Reader, ReaderPhases
  <2>3. Knows(k, source)
    BY <1>1, <1>2 DEF Reader, Knows, Follows, Selected, Compared, Verified, Started,
                      Serving, Current
  <2> HIDE DEF k
  <2> QED
    BY <1>1, <2>1, <2>2, <2>3, OneRead
<1>3. CASE pointer \notin Gens
  BY <1>1, <1>3, FallingBack DEF RPointer
<1> QED
  BY <1>2, <1>3

LEMMA Binding ==
  ASSUME ReadInv, NEW r \in Readers, RManifest(r) PROVE ReadInv'
<1> DEFINE j == reader[r]
           bound == /\ dir[j.gen].file[Manifest] = "ok"
                    /\ j.kind = "pinned" \/ j.gen.cfg = j.cfg
           pc == IF j.kind \in {"live", "targeted"} THEN "list" ELSE "shards"
           k == [j EXCEPT !.pc = pc, !.todo = Shards(j.gen)]
<1>1. j \in Reader /\ Knows(j, source) /\ UNCHANGED world /\ j.pc = "manifest"
  BY DEF ReadInv, RManifest, RAt
<1>2. j.gen \in Gens
  BY <1>1 DEF Knows, Selected
<1>3. Whole(j.gen) \ {Manifest} = Shards(j.gen) /\ Shards(j.gen) \subseteq Docs
  BY <1>2, WholeIs
<1>4. CASE bound
  <2>1. reader' = [reader EXCEPT ![r] = k]
    BY <1>3, <1>4 DEF RManifest, ReadInv
  <2>2. k \in Reader
    BY <1>1, <1>3 DEF Reader, ReaderPhases
  <2>3. Knows(k, source)
    BY <1>1, <1>2, <1>4 DEF Reader, Knows, Follows, Selected, Compared, Verified,
                            Started, Serving, Current
  <2> HIDE DEF k
  <2> QED
    BY <1>1, <2>1, <2>2, <2>3, OneRead
<1>5. CASE ~bound
  BY <1>1, <1>5, FallingBack DEF RManifest
<1> QED
  BY <1>4, <1>5

LEMMA Listing ==
  ASSUME ReadInv, NEW r \in Readers, RList(r) PROVE ReadInv'
<1> DEFINE j == reader[r]
           k == [j EXCEPT !.pc = "sources"]
<1>1. j \in Reader /\ Knows(j, source) /\ UNCHANGED world /\ j.pc = "list"
  BY DEF ReadInv, RList, RAt
<1>2. CASE {d \in Docs : source[d] # Missing} = j.todo
  <2>1. reader' = [reader EXCEPT ![r] = k]
    BY <1>2 DEF RList, RGoto, ReadInv
  <2>2. k \in Reader
    BY <1>1 DEF Reader, ReaderPhases
  <2>3. \A d \in Docs \ j.todo : j.gen.view[d] = source[d]
    BY <1>1, <1>2 DEF Knows, Compared, Shards
  <2>4. Knows(k, source)
    BY <1>1, <2>3 DEF Reader, Knows, Follows, Selected, Compared, Verified, Started,
                      Serving, Current
  <2> HIDE DEF k
  <2> QED
    BY <1>1, <2>1, <2>2, <2>4, OneRead
<1>3. CASE {d \in Docs : source[d] # Missing} # j.todo
  BY <1>1, <1>3, FallingBack DEF RList
<1> QED
  BY <1>2, <1>3

LEMMA Comparing ==
  ASSUME ReadInv, NEW r \in Readers, RSource(r) PROVE ReadInv'
<1> DEFINE j == reader[r]
<1>1. j \in Reader /\ Knows(j, source) /\ UNCHANGED world /\ j.pc = "sources"
  BY DEF ReadInv, RSource, RAt
<1>2. j.gen \in Gens /\ (j.kind # "pinned" => j.gen.cfg = j.cfg) /\ Current(j)
  BY <1>1 DEF Knows, Selected, Compared
<1>3. ASSUME NEW d \in Docs, Least(j.todo, d),
             IF source[d] = j.gen.view[d]
               THEN reader' = [reader EXCEPT ![r].todo = @ \ {d}]
               ELSE RGoto(r, "fallback")
      PROVE  ReadInv'
  <2> DEFINE k == [j EXCEPT !.todo = @ \ {d}]
  <2>1. CASE source[d] = j.gen.view[d]
    <3>1. reader' = [reader EXCEPT ![r] = k]
      BY <1>3, <2>1 DEF ReadInv
    <3>2. k \in Reader
      BY <1>1 DEF Reader
    <3>3. j.gen.view[d] \in j.seen[d]
      BY <1>1, <2>1 DEF Knows, Follows
    <3>4. Knows(k, source)
      BY <1>1, <3>3 DEF Reader, Knows, Follows, Selected, Compared, Verified, Started,
                        Serving, Current
    <3> HIDE DEF k
    <3> QED
      BY <1>1, <3>1, <3>2, <3>4, OneRead
  <2>2. CASE source[d] # j.gen.view[d]
    BY <1>1, <1>3, <2>2, FallingBack
  <2> QED
    BY <2>1, <2>2
<1>4. ASSUME j.todo = {}, NEW touched \in SUBSET (Whole(j.gen) \ {Manifest}),
             j.kind = "live" => touched = Whole(j.gen) \ {Manifest},
             reader' = [reader EXCEPT ![r].pc = "shards", ![r].todo = touched]
      PROVE  ReadInv'
  <2> DEFINE k == [j EXCEPT !.pc = "shards", !.todo = touched]
  <2>1. reader' = [reader EXCEPT ![r] = k]
    BY <1>4 DEF ReadInv
  <2>2. touched \subseteq Docs /\ (j.kind = "live" => touched = Shards(j.gen))
    BY <1>2, <1>4, WholeIs
  <2>3. k \in Reader
    BY <1>1, <2>2 DEF Reader, ReaderPhases
  <2>4. Knows(k, source)
    BY <1>1, <1>2, <1>4, <2>2 DEF Reader, Knows, Follows, Selected, Compared, Verified,
                                  Started, Serving, Current
  <2> HIDE DEF k
  <2> QED
    BY <1>1, <2>1, <2>3, <2>4, OneRead
<1> QED
  BY <1>3, <1>4 DEF RSource

LEMMA Loading ==
  ASSUME ReadInv, NEW r \in Readers, RShard(r) PROVE ReadInv'
<1> DEFINE j == reader[r]
<1>1. j \in Reader /\ Knows(j, source) /\ UNCHANGED world /\ j.pc = "shards"
  BY DEF ReadInv, RShard, RAt
<1>2. CASE j.todo = {} /\ RGoto(r, "served")
  <2> DEFINE k == [j EXCEPT !.pc = "served"]
  <2>1. reader' = [reader EXCEPT ![r] = k]
    BY <1>2 DEF RGoto, ReadInv
  <2>2. k \in Reader
    BY <1>1 DEF Reader, ReaderPhases
  <2>3. Knows(k, source)
    BY <1>1, <1>2 DEF Reader, Knows, Follows, Selected, Compared, Verified, Started,
                      Serving, Current
  <2> HIDE DEF k
  <2> QED
    BY <1>1, <2>1, <2>2, <2>3, OneRead
<1>3. ASSUME NEW d \in Docs, Least(j.todo, d),
             IF dir[j.gen].file[d] = "ok"
               THEN reader' = [reader EXCEPT ![r].got[d] = "ok", ![r].todo = @ \ {d}]
               ELSE RGoto(r, "fallback")
      PROVE  ReadInv'
  <2> DEFINE k == [j EXCEPT !.got = [@ EXCEPT ![d] = "ok"], !.todo = @ \ {d}]
  <2>1. CASE dir[j.gen].file[d] = "ok"
    <3>1. reader' = [reader EXCEPT ![r] = k]
      BY <1>3, <2>1 DEF ReadInv
    <3>2. k \in Reader
      BY <1>1 DEF Reader
    <3>3. Knows(k, source)
      BY <1>1 DEF Reader, Knows, Follows, Selected, Compared, Verified, Started,
                  Serving, Current
    <3> HIDE DEF k
    <3> QED
      BY <1>1, <3>1, <3>2, <3>3, OneRead
  <2>2. CASE dir[j.gen].file[d] # "ok"
    BY <1>1, <1>3, <2>2, FallingBack
  <2> QED
    BY <2>1, <2>2
<1> QED
  BY <1>2, <1>3 DEF RShard

LEMMA Closing ==
  ASSUME ReadInv, NEW r \in Readers, RClose(r) PROVE ReadInv'
BY IdleKnows, OneRead DEF RClose

\* Steps of others: a read sees its history grow, or loses its calm.
LEMMA Elsewhere ==
  ASSUME ReadInv, World',
         \A d \in Docs, r \in Readers :
           reader[r].pc # "idle" => source'[d] \in {source[d]} \cup reader'[r].seen[d],
         reader' \in [Readers -> Reader],
         \A r \in Readers :
           /\ \A x \in {"pc", "kind", "cfg", "gen", "todo", "got"} :
                reader'[r][x] = reader[r][x]
           /\ \A d \in Docs : reader[r].seen[d] \subseteq reader'[r].seen[d]
  PROVE  ReadInv'
<1>1. ASSUME NEW r \in Readers PROVE Knows(reader'[r], source')
  <2>1. /\ reader'[r].pc = reader[r].pc /\ reader'[r].kind = reader[r].kind
        /\ reader'[r].cfg = reader[r].cfg /\ reader'[r].gen = reader[r].gen
        /\ reader'[r].todo = reader[r].todo /\ reader'[r].got = reader[r].got
        /\ \A d \in Docs : reader[r].seen[d] \subseteq reader'[r].seen[d]
    BY <1>1
  <2>2. Knows(reader[r], source)
    BY <1>1 DEF ReadInv
  <2>3. Follows(reader'[r], source')
    BY <1>1, <2>1, <2>2 DEF Knows, Follows
  <2> QED
    BY <2>1, <2>2, <2>3 DEF Knows, Selected, Compared, Verified, Started, Serving,
                            Current
<1> QED
  BY <1>1 DEF ReadInv

LEMMA Disturbing ==
  ASSUME ReadInv, World', source' = source, NEW moved \in BOOLEAN, Disturb(moved)
  PROVE  ReadInv'
<1>1. reader' \in [Readers -> Reader]
  BY DEF ReadInv, Disturb, Reader
<1>2. ASSUME NEW r \in Readers
      PROVE  /\ \A x \in {"pc", "kind", "cfg", "gen", "todo", "got"} :
                  reader'[r][x] = reader[r][x]
             /\ reader'[r].seen = reader[r].seen
  BY <1>2 DEF ReadInv, Disturb, Reader
<1>3. \A d \in Docs : source'[d] \in {source[d]}
  OBVIOUS
<1> QED
  BY <1>1, <1>2, <1>3, Elsewhere

LEMMA Editing ==
  ASSUME ReadInv, NEW d \in Docs, NEW content \in Bytes, Edit(d, content)
  PROVE  ReadInv'
<1>1. World'
  BY DEF ReadInv, World, Edit
<1>2. reader' = [r \in Readers |->
         IF RAt(r, "idle") THEN reader[r]
         ELSE [reader[r] EXCEPT !.seen[d] = @ \cup {content}, !.calm = FALSE]]
  BY DEF Edit
<1>3. ASSUME NEW r \in Readers
      PROVE  /\ reader'[r] \in Reader
             /\ \A x \in {"pc", "kind", "cfg", "gen", "todo", "got"} :
                  reader'[r][x] = reader[r][x]
             /\ \A e \in Docs : reader[r].seen[e] \subseteq reader'[r].seen[e]
             /\ reader[r].pc # "idle" => content \in reader'[r].seen[d]
  <2> DEFINE seen == [reader[r].seen EXCEPT ![d] = @ \cup {content}]
             k == [reader[r] EXCEPT !.seen = seen, !.calm = FALSE]
  <2>1. reader[r] \in Reader
    BY DEF ReadInv
  <2>2. seen \in [Docs -> SUBSET Bytes] /\ content \in seen[d]
        /\ \A e \in Docs : reader[r].seen[e] \subseteq seen[e]
    BY <2>1 DEF Reader
  <2>3. CASE RAt(r, "idle")
    BY <1>2, <2>1, <2>3 DEF RAt
  <2>4. CASE ~RAt(r, "idle")
    <3>1. reader'[r] = k
      BY <1>2, <2>1, <2>4 DEF Reader
    <3> HIDE DEF seen
    <3> QED
      BY <2>1, <2>2, <3>1 DEF Reader
  <2> QED
    BY <2>3, <2>4
<1>4. reader' \in [Readers -> Reader]
  BY <1>2, <1>3
<1>5. ASSUME NEW e \in Docs, NEW r \in Readers, reader[r].pc # "idle"
      PROVE  source'[e] \in {source[e]} \cup reader'[r].seen[e]
  BY <1>3, <1>5 DEF ReadInv, World, Edit
<1> QED
  BY <1>1, <1>3, <1>4, <1>5, Elsewhere

LEMMA ReadNext == ASSUME ReadInv, [Next]_vars PROVE ReadInv'
<1>1. CASE UNCHANGED <<source, config, reader>>
  BY <1>1 DEF ReadInv, World
<1>2. ASSUME NEW w \in Writers, Write(w) \/ WCrash(w) PROVE ReadInv'
  <2>1. CASE Point(w)
    <3>1. UNCHANGED world
      BY <2>1 DEF Point
    <3>2. UNCHANGED reader \/ Disturb(pointer # Target(w))
      BY <2>1 DEF Point
    <3>3. World' /\ source' = source /\ (pointer # Target(w)) \in BOOLEAN
      BY <3>1 DEF ReadInv, World, world
    <3> QED
      BY <1>1, <3>1, <3>2, <3>3, Disturbing DEF world
  <2>2. CASE ~Point(w)
    <3>1. UNCHANGED <<source, config, reader>>
      BY <1>2, <2>2 DEF Write, WStart, Scan, Probe, Aside, WStage, Publish, Clean,
                        Prune, Status, WCrash, world
    <3> QED
      BY <1>1, <3>1
  <2> QED
    BY <2>1, <2>2
<1>3. ASSUME NEW r \in Readers, Read(r) PROVE ReadInv'
  BY <1>3, Opening, Pointing, Binding, Listing, Comparing, Loading, Closing DEF Read
<1>4. ASSUME NEW d \in Docs, NEW content \in Bytes, Edit(d, content) PROVE ReadInv'
  BY <1>4, Editing
<1>5. ASSUME NEW c \in Configs, Configure(c) PROVE ReadInv'
  BY <1>5, Disturbing DEF Configure, ReadInv, World
<1>6. CASE Damage
  BY <1>6, Disturbing DEF Damage, ReadInv, World, world
<1> QED
  BY <1>1, <1>2, <1>3, <1>4, <1>5, <1>6 DEF Next, vars

LEMMA ReadInvariant == Spec => []ReadInv
<1>1. Init => ReadInv
  BY ReadInit
<1>2. ReadInv /\ [Next]_vars => ReadInv'
  BY ReadNext
<1> QED
  BY <1>1, <1>2, PTL DEF Spec

\* Whatever writers, retention, damage and authors do meanwhile, a read that is
\* served returns verified shards of one generation, bound to its configuration
\* and equal to what its sources held during the read
\* (load_verified_projection, TargetedProjection, load_pinned_projection).
THEOREM ServedTrue == Spec => []ServedIsTrue
<1>1. ReadInv => ServedIsTrue
  BY DEF ReadInv, Knows, Selected, Compared, Verified, Serving, Current, Shards,
         ServedIsTrue, RAt, Reader, AllKinds
<1> QED
  BY <1>1, ReadInvariant, PTL

-----------------------------------------------------------------------------
(* What a single writer knows *)

Alone == \A v, w \in Writers : v = w

Selects == pointer \in Gens /\ Intact(pointer)

\* A generation that is moved aside is not intact; one that is about to be
\* selected is, as long as nobody damages the cache; and the selected one is not
\* among those that retention removes.
Works(w) ==
  LET j == writer[w] IN
  /\ j.pc # "idle" => j.cfg \in Configs
  /\ j.pc = "aside" => ~Intact(Target(w))
  /\ j.pc = "point" /\ Undamaged => Intact(Target(w))
  /\ j.pc \in {"clean", "prune", "status"} => pointer \in {Target(w), BadPointer}
  /\ j.pc = "prune" => Target(w) \notin j.victims

Shape ==
  /\ World
  /\ dir \in [Gens -> Dir]
  /\ writer \in [Writers -> Writer]
  /\ left \in [Events -> Nat] /\ left["damage"] <= MaxDamage

CacheInv ==
  /\ Shape
  /\ \A w \in Writers : Works(w)
  /\ Undamaged /\ pointer \in Gens => Intact(pointer)

\* A step leaves the selected generation intact, or selects another.
Kept == Selects /\ pointer' = pointer => Selects'

LEMMA CacheInit == ASSUME Init PROVE CacheInv
<1>1. World /\ pointer = NoGen /\ writer = [w \in Writers |-> WriterIdle]
      /\ dir = [g \in Gens |-> NoDir]
  BY DEF Init, World
<1>2. NoDir \in Dir
  BY DEF NoDir, Dir
<1>3. WriterIdle \in Writer /\ WriterIdle.pc = "idle"
  BY <1>2 DEF WriterIdle, Writer, WriterPhases, Nobody, Bytes
<1>4. left \in [Events -> Nat] /\ left["damage"] <= MaxDamage
  BY BoundAssumption DEF Init, Events
<1> QED
  BY <1>1, <1>2, <1>3, <1>4, PointerAssumption DEF CacheInv, Shape, Works

LEMMA WriterIdleIs == WriterIdle \in Writer /\ WriterIdle.pc = "idle"
<1>1. NoDir \in Dir
  BY DEF NoDir, Dir
<1> QED
  BY <1>1 DEF WriterIdle, Writer, WriterPhases, Nobody, Bytes

LEMMA TargetIs ==
  ASSUME Shape, NEW w \in Writers, writer[w].cfg \in Configs
  PROVE  Target(w) \in Gens
BY DEF Shape, Target, Writer, Gens

LEMMA Spending ==
  ASSUME Shape, NEW k \in Events \ {"damage", "all"}, Spend(k)
  PROVE  left' \in [Events -> Nat] /\ left'["damage"] = left["damage"]
BY DEF Shape, Spend, Events

\* A step of the only writer.
LEMMA OneWrite ==
  ASSUME Alone, CacheInv, NEW w \in Writers, UNCHANGED world, dir' \in [Gens -> Dir],
         left' \in [Events -> Nat], left'["damage"] = left["damage"],
         NEW j \in Writer, writer' = [writer EXCEPT ![w] = j], Works(w)', Kept,
         pointer' # pointer => (Undamaged /\ pointer' \in Gens => Intact(pointer)')
  PROVE  CacheInv' /\ Kept
<1>1. Shape'
  BY DEF CacheInv, Shape, World, world
<1>2. \A v \in Writers : Works(v)'
  <2>1. \A v \in Writers : v = w
    BY DEF Alone
  <2> QED
    BY <2>1
<1>3. Undamaged' = Undamaged
  BY DEF Undamaged
<1>4. Undamaged' /\ pointer' \in Gens => Intact(pointer)'
  BY <1>3 DEF CacheInv, Kept, Selects
<1> QED
  BY <1>1, <1>2, <1>4 DEF CacheInv

\* It ends, or dies, before it has touched the cache.
LEMMA Ending ==
  ASSUME Alone, CacheInv, NEW w \in Writers, WEnd(w), UNCHANGED <<world, dir, pointer>>,
         left' \in [Events -> Nat], left'["damage"] = left["damage"]
  PROVE  CacheInv' /\ Kept
<1>1. writer' = [writer EXCEPT ![w] = WriterIdle]
  BY DEF WEnd
<1>2. writer'[w].pc = "idle"
  BY <1>1, WriterIdleIs DEF CacheInv, Shape
<1>3. Works(w)'
  BY <1>2 DEF Works
<1>4. Kept
  BY DEF Kept, Selects, Intact
<1> QED
  BY <1>1, <1>3, <1>4, WriterIdleIs, OneWrite DEF CacheInv, Shape

\* A step that changes only what the writer itself holds.
LEMMA Turning ==
  ASSUME Alone, CacheInv, NEW w \in Writers, UNCHANGED <<world, dir, pointer, left>>,
         NEW j \in Writer, writer' = [writer EXCEPT ![w] = j], Works(w)'
  PROVE  CacheInv' /\ Kept
<1>1. Kept
  BY DEF Kept, Selects, Intact
<1> QED
  BY <1>1, OneWrite DEF CacheInv, Shape

LEMMA Starting ==
  ASSUME Alone, CacheInv, NEW w \in Writers, WStart(w) PROVE CacheInv' /\ Kept
<1> DEFINE todo == {d \in Docs : source[d] # Missing}
           j == [WriterIdle EXCEPT !.pc = "scan", !.cfg = config, !.todo = todo]
<1>1. writer' = [writer EXCEPT ![w] = j] /\ UNCHANGED <<world, dir, pointer, left>>
  BY DEF WStart, cache
<1>2. j \in Writer /\ j.pc = "scan" /\ j.cfg \in Configs
  BY WriterIdleIs DEF Writer, WriterPhases, CacheInv, Shape, World
<1>3. Works(w)'
  BY <1>1, <1>2 DEF Works, CacheInv, Shape
<1> HIDE DEF j
<1> QED
  BY <1>1, <1>2, <1>3, Turning

LEMMA Scanning ==
  ASSUME Alone, CacheInv, NEW w \in Writers, Scan(w) PROVE CacheInv' /\ Kept
<1>1. UNCHANGED <<world, dir, pointer, left>> /\ writer[w] \in Writer
      /\ writer[w].pc = "scan" /\ writer[w].cfg \in Configs
  BY DEF Scan, cache, WAt, CacheInv, Shape, Works
<1>2. CASE WEnd(w)
  BY <1>1, <1>2, Ending DEF CacheInv, Shape
<1>3. CASE WGoto(w, "probe")
  <2> DEFINE j == [writer[w] EXCEPT !.pc = "probe"]
  <2>1. writer' = [writer EXCEPT ![w] = j] /\ j \in Writer
    BY <1>1, <1>3 DEF WGoto, CacheInv, Shape, Writer, WriterPhases
  <2>2. Works(w)'
    BY <1>1, <2>1 DEF Works, CacheInv, Shape, Writer
  <2> HIDE DEF j
  <2> QED
    BY <1>1, <2>1, <2>2, Turning
<1>4. ASSUME NEW d \in Docs,
             writer' = [writer EXCEPT ![w].view[d] = source[d], ![w].todo = @ \ {d}]
      PROVE  CacheInv' /\ Kept
  <2> DEFINE j == [writer[w] EXCEPT !.view = [@ EXCEPT ![d] = source[d]],
                                    !.todo = @ \ {d}]
  <2>1. writer' = [writer EXCEPT ![w] = j]
    BY <1>1, <1>4 DEF CacheInv, Shape
  <2>2. j \in Writer /\ j.pc = "scan" /\ j.cfg \in Configs
    BY <1>1 DEF Writer, CacheInv, Shape, World
  <2>3. Works(w)'
    BY <2>1, <2>2 DEF Works, CacheInv, Shape
  <2> HIDE DEF j
  <2> QED
    BY <1>1, <2>1, <2>2, <2>3, Turning
<1> QED
  BY <1>2, <1>3, <1>4 DEF Scan

LEMMA Probing ==
  ASSUME Alone, CacheInv, NEW w \in Writers, Probe(w) PROVE CacheInv' /\ Kept
<1> DEFINE pc == IF Intact(Target(w)) THEN "point"
                 ELSE IF dir[Target(w)].made THEN "aside" ELSE "stage"
           j == [writer[w] EXCEPT !.pc = pc]
<1>1. UNCHANGED <<world, dir, pointer, left>> /\ writer[w] \in Writer
      /\ writer[w].cfg \in Configs
  BY DEF Probe, cache, WAt, CacheInv, Shape, Works
<1>2. writer' = [writer EXCEPT ![w] = j] /\ j \in Writer
  BY <1>1 DEF Probe, WGoto, CacheInv, Shape, Writer, WriterPhases
<1>3. Target(w)' = Target(w)
  BY <1>1, <1>2 DEF Target, CacheInv, Shape, Writer
<1>4. Intact(Target(w))' = Intact(Target(w))
  BY <1>1, <1>3 DEF Intact
<1>5. writer'[w].pc = pc /\ writer'[w].cfg = writer[w].cfg
  BY <1>1, <1>2 DEF CacheInv, Shape, Writer
<1>6. Works(w)'
  BY <1>1, <1>4, <1>5 DEF Works
<1> HIDE DEF j
<1> QED
  BY <1>1, <1>2, <1>6, Turning

\* What is moved aside was not intact, hence not what readers are served from.
LEMMA SettingAside ==
  ASSUME Alone, CacheInv, NEW w \in Writers, Aside(w) PROVE CacheInv' /\ Kept
<1> DEFINE g == Target(w)
           j == [writer[w] EXCEPT !.pc = "stage", !.quar = dir[g]]
<1>1. UNCHANGED <<world, pointer>> /\ writer[w] \in Writer /\ Shape
      /\ writer[w].cfg \in Configs /\ ~Intact(g)
  BY DEF Aside, WAt, CacheInv, Shape, Works
<1>2. CASE WLeave(w) /\ UNCHANGED dir /\ (Spend("fault") \/ UNCHANGED left)
  BY <1>1, <1>2, Spending, Ending DEF WLeave, Shape, Events
<1>3. CASE /\ dir[g].made /\ UNCHANGED left
           /\ writer' = [writer EXCEPT ![w].pc = "stage", ![w].quar = dir[g]]
           /\ dir' = [dir EXCEPT ![g] = NoDir]
  <2>1. writer' = [writer EXCEPT ![w] = j]
    BY <1>1, <1>3 DEF Shape
  <2>2. j \in Writer /\ j.pc = "stage" /\ j.cfg = writer[w].cfg
    BY <1>1, TargetIs DEF Writer, WriterPhases, Shape
  <2>3. dir' \in [Gens -> Dir]
    BY <1>1, <1>3 DEF Shape, NoDir, Dir
  <2>4. Works(w)'
    BY <1>1, <2>1, <2>2 DEF Works, Shape
  <2>5. Kept
    BY <1>1, <1>3 DEF Kept, Selects, Intact, Shape
  <2> HIDE DEF j
  <2> QED
    BY <1>1, <1>3, <2>1, <2>2, <2>3, <2>4, <2>5, OneWrite DEF Shape
<1> QED
  BY <1>2, <1>3 DEF Aside

LEMMA PuttingBack ==
  ASSUME Alone, CacheInv, NEW w \in Writers, PutBack(w), UNCHANGED <<world, pointer>>,
         writer[w].cfg \in Configs,
         left' \in [Events -> Nat], left'["damage"] = left["damage"]
  PROVE  CacheInv' /\ Kept
<1> DEFINE g == Target(w)
<1>1. CASE UNCHANGED dir
  BY <1>1, Ending DEF PutBack
<1>2. CASE ~dir[g].made /\ dir' = [dir EXCEPT ![g] = writer[w].quar]
  <2>1. writer' = [writer EXCEPT ![w] = WriterIdle]
    BY DEF PutBack, WEnd
  <2>2. dir' \in [Gens -> Dir]
    BY <1>2 DEF CacheInv, Shape, Writer
  <2>3. Works(w)'
    BY <2>1, WriterIdleIs DEF Works, CacheInv, Shape
  <2>4. Kept
    BY <1>2 DEF Kept, Selects, Intact, CacheInv, Shape
  <2> QED
    BY <2>1, <2>2, <2>3, <2>4, WriterIdleIs, OneWrite
<1> QED
  BY <1>1, <1>2 DEF PutBack

LEMMA Staging ==
  ASSUME Alone, CacheInv, NEW w \in Writers, WStage(w) PROVE CacheInv' /\ Kept
<1>1. UNCHANGED <<world, pointer>> /\ writer[w] \in Writer /\ Shape
      /\ writer[w].cfg \in Configs
  BY DEF WStage, WAt, CacheInv, Shape, Works
<1>2. CASE Spend("fault") /\ PutBack(w)
  BY <1>1, <1>2, Spending, PuttingBack DEF Events
<1>3. CASE Spend("fault") /\ WLeave(w) /\ UNCHANGED dir
  BY <1>1, <1>3, Spending, Ending DEF Events, WLeave
<1>4. CASE WGoto(w, "publish") /\ UNCHANGED <<dir, left>>
  <2> DEFINE j == [writer[w] EXCEPT !.pc = "publish"]
  <2>1. writer' = [writer EXCEPT ![w] = j] /\ j \in Writer
    BY <1>1, <1>4 DEF WGoto, Shape, Writer, WriterPhases
  <2>2. Works(w)'
    BY <1>1, <2>1 DEF Works, Shape, Writer
  <2> HIDE DEF j
  <2> QED
    BY <1>1, <1>4, <2>1, <2>2, Turning
<1> QED
  BY <1>2, <1>3, <1>4 DEF WStage

\* A generation appears in its place whole.
LEMMA WrittenIsWhole ==
  ASSUME NEW g \in Gens
  PROVE  /\ Written(g) \in Dir /\ Written(g).made
         /\ \A x \in Whole(g) : Written(g).file[x] = "ok"
BY DEF Written, Dir, Whole, Parts

LEMMA Publishing ==
  ASSUME Alone, CacheInv, NEW w \in Writers, Publish(w) PROVE CacheInv' /\ Kept
<1> DEFINE g == Target(w)
           j == [writer[w] EXCEPT !.pc = "point"]
<1>1. UNCHANGED <<world, pointer>> /\ writer[w] \in Writer /\ Shape
      /\ writer[w].cfg \in Configs
  BY DEF Publish, WAt, CacheInv, Shape, Works
<1>2. CASE PutBack(w) /\ (Spend("fault") \/ UNCHANGED left)
  BY <1>1, <1>2, Spending, PuttingBack DEF Events, Shape
<1>3. CASE dir' = [dir EXCEPT ![g] = Written(g)] /\ WGoto(w, "point") /\ UNCHANGED left
  <2>1. writer' = [writer EXCEPT ![w] = j] /\ j \in Writer
    BY <1>1, <1>3 DEF WGoto, Shape, Writer, WriterPhases
  <2>2. g \in Gens
    BY <1>1, TargetIs
  <2>3. dir' \in [Gens -> Dir]
    BY <1>1, <1>3, <2>2, WrittenIsWhole DEF Shape
  <2>4. Target(w)' = g
    BY <1>1, <2>1 DEF Target, Shape, Writer
  <2>5. Intact(Target(w))'
    BY <1>1, <1>3, <2>2, <2>4, WrittenIsWhole DEF Intact, Shape
  <2>6. Works(w)'
    BY <1>1, <2>1, <2>5 DEF Works, Shape, Writer
  <2>7. Kept
    BY <1>1, <1>3, <2>2, WrittenIsWhole DEF Kept, Selects, Intact, Shape
  <2> HIDE DEF j
  <2> QED
    BY <1>1, <1>3, <2>1, <2>3, <2>6, <2>7, OneWrite DEF Shape
<1> QED
  BY <1>2, <1>3 DEF Publish

LEMMA Selecting ==
  ASSUME Alone, CacheInv, NEW w \in Writers, Point(w) PROVE CacheInv' /\ Kept
<1> DEFINE g == Target(w)
           j == [writer[w] EXCEPT !.pc = "clean"]
<1>1. UNCHANGED <<world, dir>> /\ writer[w] \in Writer /\ Shape
      /\ writer[w].cfg \in Configs /\ (Undamaged => Intact(g))
  BY DEF Point, WAt, CacheInv, Shape, Works
<1>2. CASE Spend("fault") /\ WLeave(w) /\ UNCHANGED pointer
  BY <1>1, <1>2, Spending, Ending DEF Events, WLeave
<1>3. CASE pointer' = g /\ WGoto(w, "clean") /\ UNCHANGED left
  <2>1. writer' = [writer EXCEPT ![w] = j] /\ j \in Writer
    BY <1>1, <1>3 DEF WGoto, Shape, Writer, WriterPhases
  <2>2. Target(w)' = g
    BY <1>1, <2>1 DEF Target, Shape, Writer
  <2>3. Works(w)'
    BY <1>1, <1>3, <2>1, <2>2 DEF Works, Shape, Writer
  <2>4. Kept
    BY <1>1 DEF Kept, Selects, Intact
  <2>5. Undamaged => Intact(pointer)'
    BY <1>1, <1>3 DEF Intact
  <2> HIDE DEF j
  <2> QED
    BY <1>1, <1>3, <2>1, <2>3, <2>4, <2>5, OneWrite DEF Shape
<1> QED
  BY <1>2, <1>3 DEF Point

LEMMA Cleaning ==
  ASSUME Alone, CacheInv, NEW w \in Writers, Clean(w) PROVE CacheInv' /\ Kept
<1> DEFINE victims == Obsolete(Target(w))
           j == [writer[w] EXCEPT !.pc = "prune", !.quar = NoDir, !.victims = victims]
<1>1. UNCHANGED <<world, dir, pointer>> /\ writer[w] \in Writer /\ Shape
      /\ writer[w].cfg \in Configs /\ pointer \in {Target(w), BadPointer}
  BY DEF Clean, WAt, CacheInv, Shape, Works
<1>2. CASE Spend("fault") /\ WLeave(w)
  BY <1>1, <1>2, Spending, Ending DEF Events, WLeave
<1>3. CASE writer' = [writer EXCEPT ![w].pc = "prune", ![w].quar = NoDir,
                                    ![w].victims = victims]
           /\ UNCHANGED left
  <2>1. victims \subseteq Gens /\ Target(w) \notin victims
    BY DEF Obsolete, Made
  <2> HIDE DEF victims
  <2>2. writer' = [writer EXCEPT ![w] = j]
    BY <1>1, <1>3 DEF Shape
  <2>3. j \in Writer /\ j.pc = "prune" /\ j.cfg = writer[w].cfg
        /\ j.view = writer[w].view /\ j.victims = victims
    BY <1>1, <2>1 DEF Writer, WriterPhases, NoDir, Dir
  <2> HIDE DEF j
  <2>4. Target(w)' = Target(w)
    BY <1>1, <2>2, <2>3 DEF Target, Shape
  <2>5. Works(w)'
    BY <1>1, <2>1, <2>2, <2>3, <2>4 DEF Works, Shape
  <2> QED
    BY <1>1, <1>3, <2>2, <2>3, <2>5, Turning
<1> QED
  BY <1>2, <1>3 DEF Clean

\* What retention removes, file by file, is not what is selected.
LEMMA Removing ==
  ASSUME Shape, NEW h \in Gens, pointer # h, UNCHANGED pointer,
         NEW e \in Dir, dir' = [dir EXCEPT ![h] = e]
  PROVE  Kept /\ dir' \in [Gens -> Dir]
BY DEF Shape, Kept, Selects, Intact

LEMMA Pruning ==
  ASSUME Alone, CacheInv, NEW w \in Writers, Prune(w) PROVE CacheInv' /\ Kept
<1>1. UNCHANGED <<world, pointer>> /\ writer[w] \in Writer /\ Shape
      /\ writer[w].cfg \in Configs /\ pointer \in {Target(w), BadPointer}
      /\ Target(w) \notin writer[w].victims /\ writer[w].pc = "prune"
  BY DEF Prune, WAt, CacheInv, Shape, Works
<1>2. CASE WGoto(w, "status") /\ UNCHANGED <<dir, left>>
  <2> DEFINE j == [writer[w] EXCEPT !.pc = "status"]
  <2>1. writer' = [writer EXCEPT ![w] = j] /\ j \in Writer
    BY <1>1, <1>2 DEF WGoto, Shape, Writer, WriterPhases
  <2>2. Target(w)' = Target(w)
    BY <1>1, <2>1 DEF Target, Shape, Writer
  <2>3. Works(w)'
    BY <1>1, <2>1, <2>2 DEF Works, Shape, Writer
  <2> HIDE DEF j
  <2> QED
    BY <1>1, <1>2, <2>1, <2>3, Turning
<1>3. CASE Spend("fault") /\ WEnd(w) /\ UNCHANGED dir
  BY <1>1, <1>3, Spending, Ending DEF Events
<1>4. ASSUME NEW h \in writer[w].victims PROVE h \in Gens /\ pointer # h
  <2>1. h \in Gens /\ h # BadPointer
    BY <1>1, PointerAssumption DEF Writer
  <2> QED
    BY <1>1, <2>1
<1>5. ASSUME NEW h \in writer[w].victims, NEW x \in Parts,
             dir' = [dir EXCEPT ![h].file[x] = "gone"], UNCHANGED <<writer, left>>
      PROVE  CacheInv' /\ Kept
  <2> DEFINE e == [dir[h] EXCEPT !.file = [@ EXCEPT ![x] = "gone"]]
  <2>1. e \in Dir /\ dir' = [dir EXCEPT ![h] = e]
    BY <1>1, <1>4, <1>5 DEF Shape, Dir
  <2>2. Kept /\ dir' \in [Gens -> Dir]
    BY <1>1, <1>4, <2>1, Removing
  <2>3. Target(w)' = Target(w)
    BY <1>5 DEF Target
  <2>4. Works(w)'
    BY <1>1, <1>5, <2>3 DEF Works
  <2>5. writer' = [writer EXCEPT ![w] = writer[w]]
    BY <1>1, <1>5 DEF Shape
  <2> QED
    BY <1>1, <1>5, <2>2, <2>4, <2>5, OneWrite DEF Shape
<1>6. ASSUME NEW h \in writer[w].victims, dir' = [dir EXCEPT ![h] = NoDir],
             writer' = [writer EXCEPT ![w].victims = @ \ {h}], UNCHANGED left
      PROVE  CacheInv' /\ Kept
  <2> DEFINE j == [writer[w] EXCEPT !.victims = @ \ {h}]
  <2>1. writer' = [writer EXCEPT ![w] = j] /\ j \in Writer
    BY <1>1, <1>6 DEF Shape, Writer
  <2>2. NoDir \in Dir
    BY DEF NoDir, Dir
  <2>3. Kept /\ dir' \in [Gens -> Dir]
    BY <1>1, <1>4, <1>6, <2>2, Removing
  <2>4. Target(w)' = Target(w)
    BY <1>1, <2>1 DEF Target, Shape, Writer
  <2>5. Works(w)'
    BY <1>1, <2>1, <2>4 DEF Works, Shape, Writer
  <2> HIDE DEF j
  <2> QED
    BY <1>1, <1>6, <2>1, <2>3, <2>5, OneWrite DEF Shape
<1> QED
  BY <1>2, <1>3, <1>5, <1>6 DEF Prune

LEMMA Writing ==
  ASSUME Alone, CacheInv, NEW w \in Writers, Write(w) \/ WCrash(w)
  PROVE  CacheInv' /\ Kept
<1>1. CASE Status(w)
  BY <1>1, Ending DEF Status, cache, CacheInv, Shape
<1>2. CASE WCrash(w)
  <2>1. Shape
    BY DEF CacheInv
  <2> QED
    BY <1>2, <2>1, Spending, Ending DEF WCrash, WLeave, Events
<1> QED
  BY <1>1, <1>2, Starting, Scanning, Probing, SettingAside, Staging, Publishing,
     Selecting, Cleaning, Pruning DEF Write

\* Steps of others leave the writer's knowledge true: they do not touch the
\* cache, or they damage it.
LEMMA Outside ==
  ASSUME CacheInv, World', UNCHANGED <<dir, pointer, writer>>,
         left' \in [Events -> Nat], left'["damage"] = left["damage"]
  PROVE  CacheInv' /\ Kept
<1>1. Undamaged' = Undamaged
  BY DEF Undamaged
<1>2. \A g \in Gens : Intact(g)' = Intact(g)
  BY DEF Intact
<1>3. \A w \in Writers : Works(w)' /\ Target(w)' = Target(w)
  BY <1>1 DEF CacheInv, Works, Target, Intact
<1> QED
  BY <1>1, <1>2, <1>3 DEF CacheInv, Shape, Kept, Selects

LEMMA Damaging ==
  ASSUME CacheInv, Damage PROVE CacheInv'
<1>1. World' /\ Shape /\ UNCHANGED world
  BY DEF Damage, CacheInv, Shape, World, world
<1>2. left' \in [Events -> Nat] /\ left'["damage"] <= MaxDamage
      /\ left'["damage"] # MaxDamage
  BY BoundAssumption DEF Damage, Spend, CacheInv, Shape, Events
<1>3. ~Undamaged'
  BY <1>2 DEF Undamaged
<1>4. dir' \in [Gens -> Dir] /\ \A g \in Gens : Intact(g)' => Intact(g)
  <2>1. CASE UNCHANGED dir
    BY <1>1, <2>1 DEF Shape, Intact
  <2>2. ASSUME NEW g \in Gens, NEW x \in Whole(g), dir[g].file[x] = "ok",
               dir' = [dir EXCEPT ![g].file[x] = "bad"]
        PROVE  dir' \in [Gens -> Dir] /\ \A h \in Gens : Intact(h)' => Intact(h)
    <3>1. x \in Parts
      BY DEF Whole, Parts
    <3> DEFINE e == [dir[g] EXCEPT !.file = [@ EXCEPT ![x] = "bad"]]
    <3>2. e \in Dir /\ dir' = [dir EXCEPT ![g] = e]
      BY <1>1, <2>2, <3>1 DEF Shape, Dir
    <3>3. e.made = dir[g].made /\ e.file[x] = "bad"
      BY <1>1, <3>1 DEF Shape, Dir
    <3> HIDE DEF e
    <3> QED
      BY <1>1, <2>2, <3>2, <3>3 DEF Shape, Intact
  <2> QED
    BY <2>1, <2>2 DEF Damage, Made
<1>5. writer' \in [Writers -> Writer] /\ \A w \in Writers :
        /\ writer'[w].pc = writer[w].pc /\ writer'[w].cfg = writer[w].cfg
        /\ writer'[w].view = writer[w].view /\ writer'[w].victims = writer[w].victims
  BY <1>1 DEF Damage, Shape, Writer
<1>6. \A w \in Writers : Target(w)' = Target(w)
  BY <1>5 DEF Target
<1>7. pointer' = pointer \/ pointer' = BadPointer
  BY DEF Damage
<1>8. ASSUME NEW w \in Writers PROVE Works(w)'
  <2>1. writer[w].pc = "aside" => Target(w) \in Gens
    BY <1>1, TargetIs DEF CacheInv, Works
  <2> QED
    BY <1>3, <1>4, <1>5, <1>6, <1>7, <1>8, <2>1 DEF CacheInv, Works
<1>9. Shape'
  BY <1>1, <1>2, <1>4, <1>5 DEF Shape
<1> QED
  BY <1>3, <1>8, <1>9 DEF CacheInv

LEMMA CacheNext == ASSUME Alone, CacheInv, [Next]_vars PROVE CacheInv'
<1>1. Shape /\ left \in [Events -> Nat] /\ World
  BY DEF CacheInv, Shape
<1>2. ASSUME NEW w \in Writers, Write(w) \/ WCrash(w) PROVE CacheInv'
  BY <1>2, Writing
<1>3. ASSUME NEW r \in Readers, Read(r) PROVE CacheInv'
  <2>1. UNCHANGED <<source, config, dir, pointer, writer, left>>
    BY <1>3 DEF Read, ROpen, RPointer, RManifest, RList, RSource, RShard, RClose,
                world, cache
  <2>2. World'
    BY <1>1, <2>1 DEF World
  <2> QED
    BY <1>1, <2>1, <2>2, Outside
<1>4. ASSUME NEW d \in Docs, NEW content \in Bytes, Edit(d, content) PROVE CacheInv'
  <2>1. World' /\ UNCHANGED <<dir, pointer, writer>>
    BY <1>1, <1>4 DEF Edit, World, cache
  <2> QED
    BY <1>1, <1>4, <2>1, Spending, Outside DEF Edit, Events
<1>5. ASSUME NEW c \in Configs, Configure(c) PROVE CacheInv'
  <2>1. World' /\ UNCHANGED <<dir, pointer, writer>>
    BY <1>1, <1>5 DEF Configure, World, cache
  <2> QED
    BY <1>1, <1>5, <2>1, Spending, Outside DEF Configure, Events
<1>6. CASE Damage
  BY <1>6, Damaging
<1>7. CASE UNCHANGED vars
  BY <1>1, <1>7, Outside DEF vars, World
<1> QED
  BY <1>2, <1>3, <1>4, <1>5, <1>6, <1>7 DEF Next

LEMMA CacheInvariant == ASSUME Alone PROVE Spec => []CacheInv
<1>1. Init => CacheInv
  BY CacheInit
<1>2. CacheInv /\ [Next]_vars => CacheInv'
  BY CacheNext
<1> QED
  BY <1>1, <1>2, PTL DEF Spec

\* A single writer that publishes, fails, retains and dies anywhere never leaves
\* the pointer of an undamaged cache on a generation that is not wholly there
\* (write_projection).
THEOREM PointerIntact == ASSUME Alone PROVE Spec => []PointerSelectsIntact
<1>1. CacheInv => PointerSelectsIntact
  BY DEF CacheInv, PointerSelectsIntact
<1> QED
  BY <1>1, CacheInvariant, PTL

-----------------------------------------------------------------------------
(* What a read that nothing disturbs knows *)

Calm(j) ==
  j.calm =>
    /\ Selects /\ pointer = [view |-> source, cfg |-> config]
    /\ Current(j) /\ (Started(j) \/ Serving(j))
    /\ j.cfg = config /\ (j.pc # "pointer" => j.gen = pointer)
    /\ j.todo \subseteq Shards(pointer) \/ j.pc \in {"pointer", "manifest"}

CalmInv == \A r \in Readers : Calm(reader[r])

LEMMA CalmInit == ASSUME Init PROVE CalmInv
<1>1. \A r \in Readers : reader[r] = ReaderIdle
  BY DEF Init
<1>2. ~ReaderIdle.calm
  BY DEF ReaderIdle
<1> QED
  BY <1>1, <1>2 DEF CalmInv, Calm

\* A step of one read.
LEMMA OneCalm ==
  ASSUME ReadInv, CalmInv, UNCHANGED <<world, dir, pointer>>, NEW r \in Readers,
         NEW j, reader' = [reader EXCEPT ![r] = j], Calm(j)
  PROVE  CalmInv'
<1>1. Selects' = Selects /\ source' = source /\ config' = config
  BY DEF Selects, Intact, world
<1>2. ASSUME NEW q \in Readers PROVE Calm(reader'[q])
  BY <1>2 DEF ReadInv, CalmInv
<1>3. ASSUME NEW q \in Readers PROVE Calm(reader[q])'
  BY <1>1, <1>2 DEF Calm
<1> QED
  BY <1>3 DEF CalmInv

LEMMA CalmOpening ==
  ASSUME ReadInv, CalmInv, NEW r \in Readers, ROpen(r) PROVE CalmInv'
<1>1. PICK kind \in Kinds, g \in Made \cup {NoGen} :
        /\ kind \in {"live", "targeted"} <=> g = NoGen
        /\ reader' = [reader EXCEPT ![r] =
             [ReaderIdle EXCEPT
                !.pc = IF g = NoGen THEN "pointer" ELSE "manifest",
                !.kind = kind, !.cfg = config, !.gen = g,
                !.seen = [d \in Docs |-> {source[d]}],
                !.calm = /\ g = NoGen
                         /\ pointer = [view |-> source, cfg |-> config]
                         /\ pointer \in Gens /\ Intact(pointer)]]
  BY DEF ROpen
<1> DEFINE calm == /\ g = NoGen
                   /\ pointer = [view |-> source, cfg |-> config]
                   /\ pointer \in Gens /\ Intact(pointer)
           pc == IF g = NoGen THEN "pointer" ELSE "manifest"
           seen == [d \in Docs |-> {source[d]}]
           j == [ReaderIdle EXCEPT !.pc = pc, !.kind = kind, !.cfg = config,
                                   !.gen = g, !.seen = seen, !.calm = calm]
<1>2. reader' = [reader EXCEPT ![r] = j]
  BY <1>1, Zenon
<1>3. calm => g = NoGen /\ pointer = [view |-> source, cfg |-> config] /\ Selects
  BY Zenon DEF Selects
<1> HIDE DEF calm, seen
<1>4. j.pc = pc /\ j.kind = kind /\ j.cfg = config /\ j.calm = calm
  BY IdleKnows DEF Reader
<1>5. Calm(j)
  <2> HIDE DEF j
  <2> QED
    BY <1>1, <1>3, <1>4 DEF Calm, Current, Started
<1>6. UNCHANGED <<world, dir, pointer>>
  BY DEF ROpen, cache
<1> HIDE DEF j
<1> QED
  BY <1>2, <1>5, <1>6, OneCalm

\* The checks of a calm read succeed.
LEMMA CalmReading ==
  ASSUME ReadInv, CalmInv, NEW r \in Readers,
         \/ RPointer(r) \/ RManifest(r) \/ RList(r) \/ RSource(r) \/ RShard(r)
  PROVE  CalmInv'
<1> DEFINE j == reader[r]
           pc == reader'[r].pc
<1>1. UNCHANGED <<world, dir, pointer>> /\ j \in Reader /\ Knows(j, source) /\ Calm(j)
  BY DEF ReadInv, CalmInv, RPointer, RManifest, RList, RSource, RShard, cache
<1>2. reader' = [reader EXCEPT ![r] = reader'[r]] /\ reader'[r].calm = j.calm
      /\ reader'[r].kind = j.kind /\ reader'[r].cfg = j.cfg
  <2>1. CASE RPointer(r)
    BY <1>1, <2>1 DEF ReadInv, RPointer, RGoto, Reader
  <2>2. CASE RManifest(r)
    BY <1>1, <2>2 DEF ReadInv, RManifest, RGoto, Reader
  <2>3. CASE RList(r)
    BY <1>1, <2>3 DEF ReadInv, RList, RGoto, Reader
  <2>4. CASE RSource(r)
    BY <1>1, <2>4 DEF ReadInv, RSource, RGoto, Reader
  <2>5. CASE RShard(r)
    <3>1. CASE RGoto(r, "served") \/ RGoto(r, "fallback")
      BY <1>1, <3>1 DEF ReadInv, RGoto, Reader
    <3>2. ASSUME NEW d \in Docs,
                 reader' = [reader EXCEPT ![r].got[d] = "ok", ![r].todo = @ \ {d}]
          PROVE  /\ reader' = [reader EXCEPT ![r] = reader'[r]]
                 /\ reader'[r].calm = j.calm
                 /\ reader'[r].kind = j.kind /\ reader'[r].cfg = j.cfg
      BY <1>1, <3>2 DEF ReadInv, Reader
    <3> QED
      BY <2>5, <3>1, <3>2 DEF RShard
  <2> QED
    BY <2>1, <2>2, <2>3, <2>4, <2>5
<1>3. CASE ~j.calm
  BY <1>1, <1>2, <1>3, OneCalm DEF Calm
<1>4. CASE j.calm
  <2>1. /\ Selects /\ pointer = [view |-> source, cfg |-> config] /\ j.cfg = config
        /\ Current(j) /\ (j.pc # "pointer" => j.gen = pointer)
        /\ j.todo \subseteq Shards(pointer) \/ j.pc \in {"pointer", "manifest"}
    BY <1>1, <1>4 DEF Calm
  <2>2. pointer \in Gens /\ pointer.view = source /\ pointer.cfg = config
        /\ \A x \in Whole(pointer) : dir[pointer].file[x] = "ok"
    BY <2>1 DEF Selects, Intact
  <2>3. Whole(pointer) \ {Manifest} = Shards(pointer)
        /\ Manifest \in Whole(pointer) /\ Shards(pointer) \subseteq Docs
    BY <2>2, WholeIs DEF Whole
  <2>4. /\ pc \in {"manifest", "list", "sources", "shards", "served"}
        /\ reader'[r].gen = pointer
        /\ reader'[r].todo \subseteq Shards(pointer) \/ pc = "manifest"
    <3>1. CASE RPointer(r)
      BY <1>1, <2>2, <3>1 DEF RPointer, ReadInv, Reader
    <3>2. CASE RManifest(r)
      <4>1. j.pc = "manifest" /\ j.gen = pointer
        BY <2>1, <3>2 DEF RManifest, RAt
      <4>2. reader' = [reader EXCEPT ![r].pc = IF j.kind \in {"live", "targeted"}
                                                 THEN "list" ELSE "shards",
                                     ![r].todo = Shards(pointer)]
        BY <2>1, <2>2, <2>3, <3>2, <4>1 DEF RManifest
      <4> QED
        BY <1>1, <2>3, <4>1, <4>2 DEF ReadInv, Reader
    <3>3. CASE RList(r)
      <4>1. j.pc = "list" /\ j.gen = pointer /\ j.todo = Shards(pointer)
        BY <1>1, <2>1, <3>3 DEF RList, RAt, Knows, Compared
      <4>2. {d \in Docs : source[d] # Missing} = j.todo
        BY <2>2, <4>1 DEF Shards
      <4> QED
        BY <1>1, <3>3, <4>1, <4>2 DEF RList, RGoto, ReadInv, Reader
    <3>4. CASE RSource(r)
      <4>1. j.pc = "sources" /\ j.gen = pointer /\ j.todo \subseteq Shards(pointer)
        BY <2>1, <3>4 DEF RSource, RAt
      <4>2. ASSUME NEW d \in Docs,
                   IF source[d] = j.gen.view[d]
                     THEN reader' = [reader EXCEPT ![r].todo = @ \ {d}]
                     ELSE RGoto(r, "fallback")
            PROVE  pc = "sources" /\ reader'[r].gen = pointer
                   /\ reader'[r].todo \subseteq Shards(pointer)
        BY <1>1, <2>2, <4>1, <4>2 DEF ReadInv, Reader
      <4>3. ASSUME NEW touched \in SUBSET (Whole(j.gen) \ {Manifest}),
                   reader' = [reader EXCEPT ![r].pc = "shards", ![r].todo = touched]
            PROVE  pc = "shards" /\ reader'[r].gen = pointer
                   /\ reader'[r].todo \subseteq Shards(pointer)
        BY <1>1, <2>3, <4>1, <4>3 DEF ReadInv, Reader
      <4> QED
        BY <3>4, <4>2, <4>3 DEF RSource
    <3>5. CASE RShard(r)
      <4>1. j.pc = "shards" /\ j.gen = pointer /\ j.todo \subseteq Shards(pointer)
        BY <2>1, <3>5 DEF RShard, RAt
      <4>2. CASE RGoto(r, "served")
        BY <1>1, <4>1, <4>2 DEF RGoto, ReadInv, Reader
      <4>3. ASSUME NEW d \in Docs, Least(j.todo, d),
                   IF dir[j.gen].file[d] = "ok"
                     THEN reader' = [reader EXCEPT ![r].got[d] = "ok",
                                                   ![r].todo = @ \ {d}]
                     ELSE RGoto(r, "fallback")
            PROVE  pc = "shards" /\ reader'[r].gen = pointer
                   /\ reader'[r].todo \subseteq Shards(pointer)
        <5>1. dir[j.gen].file[d] = "ok"
          BY <2>2, <2>3, <4>1, <4>3 DEF Least
        <5> QED
          BY <1>1, <4>1, <4>3, <5>1 DEF ReadInv, Reader
      <4> QED
        BY <3>5, <4>2, <4>3 DEF RShard
    <3> QED
      BY <3>1, <3>2, <3>3, <3>4, <3>5
  <2>5. Calm(reader'[r])
    BY <1>2, <2>1, <2>4 DEF Calm, Current, Started, Serving
  <2> QED
    BY <1>1, <1>2, <2>5, OneCalm
<1> QED
  BY <1>3, <1>4

\* Others leave a calm read its generation, or disturb it.
LEMMA CalmElsewhere ==
  ASSUME ReadInv, CalmInv, Kept, UNCHANGED <<source, config, pointer, reader>>
  PROVE  CalmInv'
BY DEF CalmInv, Calm, Kept

LEMMA NoneCalm ==
  ASSUME \A r \in Readers : ~reader'[r].calm
  PROVE  CalmInv'
BY DEF CalmInv, Calm

LEMMA CalmNext ==
  ASSUME Alone, ReadInv, CacheInv, CalmInv, [Next]_vars PROVE CalmInv'
<1>1. ASSUME NEW w \in Writers, Write(w) \/ WCrash(w) PROVE CalmInv'
  <2>1. Kept
    BY <1>1, Writing
  <2>2. CASE Point(w) /\ pointer # Target(w) /\ Disturb(pointer # Target(w))
    BY <2>2, NoneCalm DEF Disturb, ReadInv, Reader
  <2>3. CASE Point(w) /\ pointer = Target(w) /\ Disturb(pointer # Target(w))
    <3>1. ASSUME NEW r \in Readers PROVE reader'[r] = reader[r]
      <4>1. reader'[r] = [reader[r] EXCEPT !.calm = @ /\ TRUE]
        BY <2>3 DEF Disturb
      <4> QED
        BY <3>1, <4>1 DEF ReadInv, Reader
    <3>2. reader' = reader
      BY <2>3, <3>1 DEF ReadInv, Disturb
    <3>3. UNCHANGED <<source, config, pointer>>
      BY <2>3 DEF Point, world
    <3> QED
      BY <2>1, <3>2, <3>3, CalmElsewhere
  <2>4. CASE UNCHANGED <<world, pointer, reader>>
    BY <2>1, <2>4, CalmElsewhere DEF world
  <2> QED
    BY <1>1, <2>2, <2>3, <2>4 DEF Write, WStart, Scan, Probe, Aside, WStage, Publish,
                                  Point, Clean, Prune, Status, WCrash, cache, world
<1>2. ASSUME NEW r \in Readers, Read(r) PROVE CalmInv'
  <2>1. CASE RClose(r)
    <3>1. ~ReaderIdle.calm
      BY DEF ReaderIdle
    <3> QED
      BY <2>1, <3>1, OneCalm DEF RClose, Calm, cache
  <2> QED
    BY <1>2, <2>1, CalmOpening, CalmReading DEF Read
<1>3. ASSUME NEW d \in Docs, NEW content \in Bytes, Edit(d, content) PROVE CalmInv'
  <2>1. ASSUME NEW r \in Readers PROVE ~reader'[r].calm
    BY <1>3, <2>1 DEF Edit, RAt, ReadInv, Reader, CalmInv, Calm, Started, Serving
  <2> QED
    BY <2>1, NoneCalm
<1>4. CASE Damage \/ \E c \in Configs : Configure(c)
  BY <1>4, NoneCalm DEF Damage, Configure, Disturb, ReadInv, Reader
<1>5. CASE UNCHANGED vars
  BY <1>5 DEF vars, CalmInv, Calm, Selects, Intact
<1> QED
  BY <1>1, <1>2, <1>3, <1>4, <1>5 DEF Next

\* With a single writer, a read that opens on an intact and current generation
\* and falls back has seen the sources, the configuration, the cache or the
\* pointer change: retention and publication alone cause no fallback
\* (load_verified_projection).
THEOREM FallbackCaused == ASSUME Alone PROVE Spec => []FallbackHasCause
<1>1. Init => CalmInv
  BY CalmInit
<1>2. ReadInv /\ CacheInv /\ CalmInv /\ [Next]_vars => CalmInv'
  BY CalmNext
<1>3. ReadInv /\ CalmInv => FallbackHasCause
  BY DEF CalmInv, Calm, FallbackHasCause, RAt, Started, Serving
<1> QED
  BY <1>1, <1>2, <1>3, ReadInvariant, CacheInvariant, PTL DEF Spec

-----------------------------------------------------------------------------
(* What retention leaves: the order of the directories, the count of what     *)
(* survives, and what a collection may have broken                            *)

\* Least and greatest elements.
LEMMA Smallest ==
  ASSUME NEW S \in SUBSET Nat, S # {} PROVE \E x \in S : \A y \in S : x <= y
<1>1. IsWellFoundedOn(OpToRel(<, Nat), Nat)
  BY NatLessThanWellFounded
<1>2. PICK x \in S : \A y \in S : ~ (<<y, x>> \in OpToRel(<, Nat))
  BY <1>1, WFMin
<1>3. \A y \in S : ~ (y < x)
  BY <1>2, Zenon DEF OpToRel
<1> QED
  BY <1>3

LEMMA Greatest ==
  ASSUME NEW n \in Nat, NEW S \in SUBSET (1 .. n), S # {}
  PROVE  \E x \in S : \A y \in S : y <= x
<1> DEFINE T == {n - x : x \in S}
<1>1. T \in SUBSET Nat
  OBVIOUS
<1>2. T # {}
  <2>1. PICK x \in S : TRUE
    OBVIOUS
  <2>2. n - x \in T
    OBVIOUS
  <2> QED
    BY <2>2
<1>3. PICK m \in T : \A y \in T : m <= y
  <2> HIDE DEF T
  <2> QED
    BY <1>1, <1>2, Smallest
<1>4. PICK x \in S : m = n - x
  OBVIOUS
<1>5. ASSUME NEW y \in S PROVE y <= x
  <2>1. n - y \in T
    OBVIOUS
  <2>2. n - x <= n - y
    BY <1>3, <1>4, <2>1
  <2>3. x \in 1 .. n /\ y \in 1 .. n
    OBVIOUS
  <2> QED
    BY <2>2, <2>3
<1> QED
  BY <1>5

\* The order of the directories names each of them once.
Once(seq) ==
  /\ seq \in Seq(Dated)
  /\ \A i, j \in 1 .. Len(seq) : seq[i] = seq[j] => i = j

LEMMA RemoveAtIs ==
  ASSUME NEW T, NEW seq \in Seq(T), NEW i \in 1 .. Len(seq)
  PROVE  /\ RemoveAt(seq, i) \in Seq(T) /\ Len(RemoveAt(seq, i)) = Len(seq) - 1
         /\ \A j \in 1 .. Len(seq) - 1 :
              RemoveAt(seq, i)[j] = IF j < i THEN seq[j] ELSE seq[j + 1]
<1> DEFINE a == SubSeq(seq, 1, i - 1)  b == SubSeq(seq, i + 1, Len(seq))
<1>1. /\ a \in Seq(T) /\ Len(a) = i - 1
      /\ \A j \in 1 .. (i - 1) : a[j] = seq[j]
  OBVIOUS
<1>2. /\ b \in Seq(T) /\ Len(b) = Len(seq) - i
      /\ \A j \in 1 .. (Len(seq) - i) : b[j] = seq[i + j]
  OBVIOUS
<1> HIDE DEF a, b
<1> DEFINE c == a \o b
<1>3. c \in Seq(T)
  BY <1>1, <1>2
<1>4. Len(c) = Len(seq) - 1
  <2>1. \A x, y \in Seq(T) : Len(x \o y) = Len(x) + Len(y)
    OBVIOUS
  <2>2. Len(c) = Len(a) + Len(b)
    BY <1>1, <1>2, <2>1, Zenon
  <2>3. Len(seq) \in Nat
    OBVIOUS
  <2> HIDE DEF c
  <2>4. Len(c) = (i - 1) + (Len(seq) - i)
    BY <1>1, <1>2, <2>2
  <2> QED
    BY <2>3, <2>4
<1>5. ASSUME NEW j \in 1 .. (i - 1) PROVE c[j] = seq[j]
  BY <1>1, <1>2
<1>6. ASSUME NEW j \in i .. (Len(seq) - 1) PROVE c[j] = seq[j + 1]
  <2>1. c[j] = b[j - (i - 1)]
    BY <1>1, <1>2
  <2>2. j - (i - 1) \in 1 .. (Len(seq) - i) /\ i + (j - (i - 1)) = j + 1
    OBVIOUS
  <2> QED
    BY <1>2, <2>1, <2>2
<1>7. RemoveAt(seq, i) = c
  BY DEF RemoveAt, a, b, c
<1> HIDE DEF c
<1> QED
  BY <1>3, <1>4, <1>5, <1>6, <1>7

LEMMA WithoutIs ==
  ASSUME NEW seq, Once(seq), NEW x
  PROVE  Once(Without(seq, x)) /\ ToSet(Without(seq, x)) = ToSet(seq) \ {x}
<1>1. seq \in Seq(Dated) /\ Len(seq) \in Nat /\ DOMAIN seq = 1 .. Len(seq)
  BY DEF Once
<1>2. CASE x \notin ToSet(seq)
  BY <1>2 DEF Without
<1>3. CASE x \in ToSet(seq)
  <2> DEFINE i == CHOOSE n \in DOMAIN seq : seq[n] = x
             c == RemoveAt(seq, i)
  <2>1. i \in 1 .. Len(seq) /\ seq[i] = x
    BY <1>1, <1>3 DEF ToSet
  <2>2. Without(seq, x) = c
    BY <1>3 DEF Without
  <2> HIDE DEF i
  <2>3. /\ c \in Seq(Dated) /\ Len(c) = Len(seq) - 1
        /\ \A j \in 1 .. Len(seq) - 1 : c[j] = IF j < i THEN seq[j] ELSE seq[j + 1]
    BY <1>1, <2>1, RemoveAtIs
  <2> HIDE DEF c
  <2>4. DOMAIN c = 1 .. Len(seq) - 1
    BY <2>3
  <2>5. Once(c)
    <3>1. ASSUME NEW j \in 1 .. Len(c), NEW k \in 1 .. Len(c), c[j] = c[k] PROVE j = k
      <4> DEFINE p == IF j < i THEN j ELSE j + 1  q == IF k < i THEN k ELSE k + 1
      <4>3. c[j] = seq[p] /\ c[k] = seq[q]
        BY <2>3
      <4>4. p \in 1 .. Len(seq) /\ q \in 1 .. Len(seq)
        BY <1>1, <2>1, <2>3
      <4>1. c[j] = seq[p] /\ c[k] = seq[q] /\ p \in 1 .. Len(seq) /\ q \in 1 .. Len(seq)
        BY <4>3, <4>4
      <4>2. p = q
        BY <3>1, <4>1 DEF Once
      <4> QED
        BY <1>1, <2>1, <2>3, <4>2
    <3> QED
      BY <2>3, <3>1 DEF Once
  <2>6. ASSUME NEW y \in ToSet(c) PROVE y \in ToSet(seq) \ {x}
    <3>1. PICK j \in 1 .. Len(seq) - 1 : y = c[j]
      BY <2>4 DEF ToSet
    <3> DEFINE p == IF j < i THEN j ELSE j + 1
    <3>2. y = seq[p] /\ p \in 1 .. Len(seq) /\ p # i
      <4>1. y = seq[p]
        BY <2>3, <3>1
      <4> QED
        BY <1>1, <2>1, <4>1
    <3>4. PICK k \in 1 .. Len(seq) : y = seq[k] /\ k # i
      BY <3>2
    <3> HIDE DEF p
    <3>3. y # x
      BY <2>1, <3>4 DEF Once
    <3> QED
      BY <1>1, <3>3, <3>4 DEF ToSet
  <2>7. ASSUME NEW y \in ToSet(seq) \ {x} PROVE y \in ToSet(c)
    <3>1. PICK k \in 1 .. Len(seq) : y = seq[k]
      BY <1>1 DEF ToSet
    <3>2. k # i
      BY <2>1, <3>1
    <3>3. CASE k < i
      <4>1. k \in 1 .. Len(seq) - 1 /\ c[k] = seq[k]
        BY <1>1, <2>1, <2>3, <3>3
      <4> QED
        BY <2>4, <3>1, <4>1 DEF ToSet
    <3>4. CASE k > i
      <4>1. k - 1 \in 1 .. Len(seq) - 1 /\ c[k - 1] = seq[k]
        BY <1>1, <2>1, <2>3, <3>4
      <4> QED
        BY <2>4, <3>1, <4>1 DEF ToSet
    <3> QED
      BY <1>1, <2>1, <3>2, <3>3, <3>4
  <2> QED
    BY <2>2, <2>5, <2>6, <2>7
<1> QED
  BY <1>2, <1>3

LEMMA TouchIs ==
  ASSUME Once(recent), NEW x \in Dated
  PROVE  Once(Touch(x)) /\ ToSet(Touch(x)) = ToSet(recent) \cup {x}
<1> DEFINE c == Drop(x)  d == Append(c, x)
<1>1. Once(c) /\ ToSet(c) = ToSet(recent) \ {x}
  BY WithoutIs DEF Drop
<1> HIDE DEF c
<1>2. c \in Seq(Dated) /\ Len(c) \in Nat /\ DOMAIN c = 1 .. Len(c)
  BY <1>1 DEF Once
<1>3. /\ d \in Seq(Dated) /\ Len(d) = Len(c) + 1 /\ d[Len(c) + 1] = x
      /\ \A i \in 1 .. Len(c) : d[i] = c[i]
  BY <1>2
<1> HIDE DEF d
<1>4. DOMAIN d = 1 .. Len(c) + 1
  BY <1>3
<1>5. \A i \in 1 .. Len(c) : c[i] # x
  BY <1>1, <1>2 DEF ToSet
<1>6. ASSUME NEW i \in 1 .. Len(d), NEW j \in 1 .. Len(d), d[i] = d[j] PROVE i = j
  BY <1>1, <1>2, <1>3, <1>5, <1>6 DEF Once
<1>7. ToSet(d) = ToSet(c) \cup {x}
  BY <1>2, <1>3, <1>4 DEF ToSet
<1>8. Once(d)
  BY <1>3, <1>6 DEF Once
<1>9. Touch(x) = d
  BY DEF Touch, d, c
<1> QED
  BY <1>1, <1>7, <1>8, <1>9

LEMMA RenameIs ==
  ASSUME Once(recent), NEW x \in ToSet(recent), NEW y \in Dated, x # y
  PROVE  Once(Rename(x, y)) /\ ToSet(Rename(x, y)) = (ToSet(recent) \ {x}) \cup {y}
<1> DEFINE c == Drop(y)
           d == [i \in 1 .. Len(c) |-> IF c[i] = x THEN y ELSE c[i]]
<1>1. Once(c) /\ ToSet(c) = ToSet(recent) \ {y}
  BY WithoutIs DEF Drop
<1>2. Rename(x, y) = d
  BY DEF Rename
<1> HIDE DEF c
<1>3. c \in Seq(Dated) /\ Len(c) \in Nat /\ DOMAIN c = 1 .. Len(c)
  BY <1>1 DEF Once
<1>4. d \in Seq(Dated) /\ Len(d) = Len(c) /\ DOMAIN d = 1 .. Len(c)
  BY <1>3
<1>5. \A i \in 1 .. Len(c) : d[i] = (IF c[i] = x THEN y ELSE c[i]) /\ c[i] # y
  BY <1>1, <1>3 DEF ToSet
<1>6. \E i \in 1 .. Len(c) : c[i] = x
  BY <1>1, <1>3 DEF ToSet
<1> HIDE DEF d
<1>7. Once(d)
  <2>1. ASSUME NEW i \in 1 .. Len(d), NEW j \in 1 .. Len(d), d[i] = d[j] PROVE i = j
    BY <1>1, <1>4, <1>5, <2>1 DEF Once
  <2> QED
    BY <1>4, <2>1 DEF Once
<1>8. ToSet(d) = (ToSet(c) \ {x}) \cup {y}
  BY <1>3, <1>4, <1>5, <1>6 DEF ToSet
<1> QED
  BY <1>1, <1>2, <1>7, <1>8

LEMMA LeftIs ==
  ASSUME NEW seq, Once(seq), NEW w
  PROVE  /\ Once(Left(seq, w))
         /\ ToSet(Left(seq, w)) = ToSet(seq) \ {<<"staging", w>>, <<"quarantine", w>>}
<1> DEFINE s == Without(seq, <<"staging", w>>)
<1>1. Once(s) /\ ToSet(s) = ToSet(seq) \ {<<"staging", w>>}
  BY WithoutIs
<1> HIDE DEF s
<1>2. /\ Once(Without(s, <<"quarantine", w>>))
      /\ ToSet(Without(s, <<"quarantine", w>>)) = ToSet(s) \ {<<"quarantine", w>>}
  BY <1>1, WithoutIs
<1>3. Left(seq, w) = Without(s, <<"quarantine", w>>)
  BY DEF Left, s
<1> QED
  BY <1>1, <1>2, <1>3

\* The order of modification times names every directory that is there, once.
Ordered ==
  /\ Once(recent)
  /\ \A g \in Made : Home(g) \in ToSet(recent)
  /\ \A w \in Writers :
       /\ WAt(w, "publish") => <<"staging", w>> \in ToSet(recent)
       /\ writer[w].quar.made => <<"quarantine", w>> \in ToSet(recent)

\* What its collection will leave of the generations.
Surviving(w) == Made \ writer[w].victims

\* What a write that nothing damaged has achieved so far: its generation, the
\* pointer, and no more generations left by its collection than there may be.
Yields(w) ==
  LET j == writer[w] IN
  /\ Undamaged => j.calm
  /\ j.pc = "point" /\ j.calm => Intact(Target(w))
  /\ j.pc \in {"clean", "prune", "status"} /\ j.calm =>
       pointer = Target(w) /\ Intact(Target(w))
  /\ j.pc \in {"prune", "status"} => Cardinality(Surviving(w)) <= Keep
  /\ j.pc = "status" => j.victims = {}

\* While no write was cut short and nothing damaged, only its collection breaks
\* a generation, and only while enough others stay.
Gentle ==
  /\ left["crash"] <= MaxCrashes /\ left["fault"] <= MaxFaults
  /\ Undisturbed =>
       /\ \A h \in Made : ~Intact(h) =>
            \E w \in Writers : WAt(w, "prune") /\ h \in writer[w].victims
       /\ \A w \in Writers :
            /\ ~writer[w].quar.made
            /\ WAt(w, "prune") /\ writer[w].victims # {} =>
                 Cardinality(Surviving(w)) >= Keep

RetainInv == Ordered /\ Gentle /\ \A w \in Writers : Yields(w)

LEMMA Places ==
  /\ \A g \in Gens : Home(g) \in Dated
  /\ \A w \in Writers : <<"staging", w>> \in Dated /\ <<"quarantine", w>> \in Dated
  /\ \A g, h : Home(g) = Home(h) => g = h
  /\ \A g, w : Home(g) # <<"staging", w>> /\ Home(g) # <<"quarantine", w>>
  /\ \A v, w : <<"staging", v>> # <<"quarantine", w>>
  /\ \A v, w : <<"staging", v>> = <<"staging", w>> => v = w
  /\ \A v, w : <<"quarantine", v>> = <<"quarantine", w>> => v = w
<1>1. \A g \in Gens : Home(g) \in Dated
  BY DEF Home, Dated
<1>2. \A w \in Writers : <<"staging", w>> \in Dated /\ <<"quarantine", w>> \in Dated
  BY DEF Dated
<1>3. \A v, w : \A t, u : <<t, v>> = <<u, w>> => t = u /\ v = w
  OBVIOUS
<1>4. "home" # "staging" /\ "home" # "quarantine" /\ "staging" # "quarantine"
  OBVIOUS
<1> QED
  BY <1>1, <1>2, <1>3, <1>4, Zenon DEF Home

\* The generation with the highest place of those to be removed has only kept
\* ones after it; the kept one with the lowest has all others after it.
LEMMA Counting ==
  ASSUME Ordered, NEW g \in Gens
  PROVE  /\ IsFiniteSet(Made)
         /\ Cardinality(Made \ Obsolete(g)) <= Keep
         /\ g \in Made /\ Obsolete(g) # {} => Cardinality(Made \ Obsolete(g)) >= Keep
<1> DEFINE n == Len(recent)
           M == Made \ {g}
           V == Obsolete(g)
           K == M \ V
           pos == [h \in Made |-> CHOOSE i \in 1 .. n : recent[i] = Home(h)]
<1>1. n \in Nat /\ DOMAIN recent = 1 .. n
      /\ \A i, j \in 1 .. n : recent[i] = recent[j] => i = j
  BY DEF Ordered, Once
<1>2. \A h \in Made : pos[h] \in 1 .. n /\ recent[pos[h]] = Home(h)
  <2>1. ASSUME NEW h \in Made PROVE \E i \in 1 .. n : recent[i] = Home(h)
    BY <1>1 DEF Ordered, ToSet
  <2> QED
    BY <2>1
<1>3. pos \in [Made -> 1 .. n] /\ \A h, k \in Made : pos[h] = pos[k] => h = k
  <2>1. \A h, k \in Made : pos[h] = pos[k] => h = k
    BY <1>2, Places
  <2>2. pos \in [Made -> 1 .. n]
    BY <1>2
  <2> QED
    BY <2>1, <2>2
<1>4. \A h \in Made : Newer(h, M) = {k \in M : pos[h] < pos[k]}
  BY <1>1, <1>2 DEF Newer
<1> HIDE DEF n, pos
<1>5. IsFiniteSet(Made)
  <2>1. pos \in Injection(Made, 1 .. n)
    BY <1>3 DEF Injection, IsInjective
  <2>2. IsFiniteSet(1 .. n)
    BY <1>1, FS_Interval
  <2> QED
    BY <2>1, <2>2, FS_Injection
<1>6. V = {h \in M : Cardinality(Newer(h, M)) >= Keep - 1}
  BY DEF Obsolete
<1>7. /\ IsFiniteSet(M) /\ IsFiniteSet(K) /\ Cardinality(K) \in Nat
      /\ \A S \in SUBSET M : IsFiniteSet(S) /\ Cardinality(S) \in Nat
      /\ \A S \in SUBSET M : \A T \in SUBSET S : Cardinality(T) <= Cardinality(S)
  <2>1. IsFiniteSet(M)
    BY <1>5, FS_RemoveElement
  <2>2. \A S \in SUBSET M : IsFiniteSet(S) /\ Cardinality(S) \in Nat
    BY <2>1, FS_Subset, FS_CardinalityType
  <2>3. \A S \in SUBSET M : \A T \in SUBSET S : Cardinality(T) <= Cardinality(S)
    BY <2>2, FS_Subset
  <2> QED
    BY <2>1, <2>2, <2>3
<1>8. Keep \in Nat /\ Keep >= 1
  BY BoundAssumption
<1>9. Cardinality(K) <= Keep - 1
  <2>1. CASE K = {}
    BY <1>8, <2>1, FS_EmptySet
  <2>2. CASE K # {}
    <3> DEFINE P == {pos[h] : h \in K}
    <3>1. P \in SUBSET Nat
      BY <1>1, <1>3
    <3>2. P # {}
      BY <2>2
    <3>3. PICK m \in P : \A y \in P : m <= y
      <4> HIDE DEF P
      <4> QED
        BY <3>1, <3>2, Smallest
    <3>4. PICK k \in K : m = pos[k]
      OBVIOUS
    <3>5. \A h \in K \ {k} : pos[k] < pos[h]
      <4>1. ASSUME NEW h \in K \ {k} PROVE pos[k] < pos[h]
        <5>1. pos[h] \in P /\ pos[h] # pos[k]
          BY <1>3
        <5>2. pos[k] <= pos[h] /\ pos[k] \in Nat /\ pos[h] \in Nat
          BY <1>1, <1>3, <3>3, <3>4, <5>1
        <5> QED
          BY <5>1, <5>2
      <4> QED
        BY <4>1
    <3>6. K \ {k} \subseteq Newer(k, M)
      BY <1>4, <3>5
    <3>7. Cardinality(Newer(k, M)) < Keep - 1 /\ Cardinality(Newer(k, M)) \in Nat
      <4>1. Newer(k, M) \in SUBSET M
        BY <1>4
      <4>2. ~ (Cardinality(Newer(k, M)) >= Keep - 1)
        BY <1>6
      <4> QED
        BY <1>7, <1>8, <4>1, <4>2
    <3>8. Cardinality(K \ {k}) = Cardinality(K) - 1
      BY <1>7, FS_RemoveElement
    <3>9. Cardinality(K \ {k}) <= Cardinality(Newer(k, M))
      BY <1>4, <1>7, <3>6
    <3> QED
      BY <1>7, <1>8, <3>7, <3>8, <3>9
  <2> QED
    BY <2>1, <2>2
<1>10. ASSUME V # {} PROVE Cardinality(K) >= Keep - 1
  <2> DEFINE P == {pos[h] : h \in V}
  <2>1. P \in SUBSET (1 .. n)
    BY <1>3, <1>6
  <2>2. P # {}
    BY <1>10
  <2>3. PICK m \in P : \A y \in P : y <= m
    <3> HIDE DEF P
    <3> QED
      BY <1>1, <2>1, <2>2, Greatest
  <2>4. PICK v \in V : m = pos[v]
    OBVIOUS
  <2>5. Newer(v, M) \subseteq K
    <3>1. ASSUME NEW h \in V, pos[v] < pos[h] PROVE FALSE
      <4>1. pos[h] \in P
        OBVIOUS
      <4>2. pos[h] <= pos[v]
        BY <2>3, <2>4, <4>1
      <4>3. pos[v] \in Nat /\ pos[h] \in Nat
        BY <1>1, <1>3, <1>6
      <4> QED
        BY <3>1, <4>2, <4>3
    <3>2. Newer(v, M) = {k \in M : pos[v] < pos[k]}
      BY <1>4, <1>6
    <3> QED
      BY <3>1, <3>2
  <2>6. Cardinality(Newer(v, M)) >= Keep - 1
    BY <1>6
  <2>7. Cardinality(Newer(v, M)) <= Cardinality(K) /\ Cardinality(Newer(v, M)) \in Nat
    BY <1>7, <2>5
  <2> QED
    BY <1>7, <1>8, <2>6, <2>7
<1>11. g \notin V
  BY <1>6
<1>12. CASE g \in Made
  <2>1. Made \ V = K \cup {g} /\ g \notin K
    BY <1>11, <1>12
  <2>2. Cardinality(Made \ V) = Cardinality(K) + 1
    BY <1>7, <2>1, FS_AddElement
  <2> QED
    BY <1>5, <1>7, <1>8, <1>9, <1>10, <2>2
<1>13. CASE g \notin Made
  <2>1. Made \ V = K
    BY <1>13
  <2> QED
    BY <1>5, <1>7, <1>8, <1>9, <1>13, <2>1
<1> QED
  BY <1>12, <1>13

\* A step of one writer, given the order of the directories that it leaves.
LEMMA Ordering ==
  ASSUME Shape, Ordered, NEW w \in Writers, NEW j, writer' = [writer EXCEPT ![w] = j],
         Once(recent'), Made' \subseteq Gens,
         \A g \in Made' : Home(g) \in ToSet(recent'),
         \A v \in Writers \ {w} :
           /\ <<"staging", v>> \in ToSet(recent) => <<"staging", v>> \in ToSet(recent')
           /\ <<"quarantine", v>> \in ToSet(recent) => <<"quarantine", v>> \in ToSet(recent'),
         j.pc = "publish" => <<"staging", w>> \in ToSet(recent'),
         j.quar.made => <<"quarantine", w>> \in ToSet(recent')
  PROVE  Ordered'
<1>1. writer'[w] = j /\ \A v \in Writers \ {w} : writer'[v] = writer[v]
  BY DEF Shape
<1>2. ASSUME NEW v \in Writers
      PROVE  /\ writer'[v].pc = "publish" => <<"staging", v>> \in ToSet(recent')
             /\ writer'[v].quar.made => <<"quarantine", v>> \in ToSet(recent')
  BY <1>1 DEF Ordered, WAt
<1> QED
  BY <1>2 DEF Ordered, WAt

LEMMA OrderedStays ==
  ASSUME Ordered, UNCHANGED recent, Made' \subseteq Made,
         \A w \in Writers :
           /\ writer'[w].pc = "publish" => writer[w].pc = "publish"
           /\ writer'[w].quar.made => writer[w].quar.made
  PROVE  Ordered'
BY DEF Ordered, WAt

LEMMA OrderedLeft ==
  ASSUME Shape, Ordered, NEW w \in Writers, UNCHANGED dir, recent' = Left(recent, w),
         NEW j, writer' = [writer EXCEPT ![w] = j], j.pc # "publish", ~j.quar.made
  PROVE  Ordered'
<1>1. Made' = Made
  BY DEF Made
<1>2. /\ Once(recent')
      /\ ToSet(recent') = ToSet(recent) \ {<<"staging", w>>, <<"quarantine", w>>}
  BY LeftIs DEF Ordered
<1>3. \A g \in Made : Home(g) \in ToSet(recent')
  BY <1>2, Places DEF Ordered
<1>4. \A v \in Writers \ {w} :
        /\ <<"staging", v>> \in ToSet(recent) => <<"staging", v>> \in ToSet(recent')
        /\ <<"quarantine", v>> \in ToSet(recent) => <<"quarantine", v>> \in ToSet(recent')
  BY <1>2, Places
<1> QED
  BY <1>1, <1>2, <1>3, <1>4, Ordering DEF Made

LEMMA IdleNow ==
  ASSUME Shape, NEW w \in Writers, WEnd(w)
  PROVE  /\ writer' = [writer EXCEPT ![w] = WriterIdle] /\ writer'[w] = WriterIdle
         /\ WriterIdle.pc = "idle" /\ ~WriterIdle.quar.made /\ WriterIdle.calm
         /\ WriterIdle.victims = {}
BY DEF WEnd, Shape, WriterIdle, NoDir

\* Where nothing failed, only a collection leaves broken generations.
LEMMA AllIntact ==
  ASSUME Alone, Gentle, Undisturbed, NEW w \in Writers, ~WAt(w, "prune")
  PROVE  \A h \in Made : Intact(h)
BY DEF Alone, Gentle

LEMMA GentleSpent ==
  ASSUME Shape, Gentle, NEW k \in {"crash", "fault"}, Spend(k) PROVE Gentle'
<1>1. /\ left' = [left EXCEPT ![k] = @ - 1, !["all"] = @ - 1]
      /\ left[k] > 0 /\ left \in [Events -> Nat]
  BY DEF Spend, Shape
<1>2. /\ left'["crash"] <= MaxCrashes /\ left'["fault"] <= MaxFaults
      /\ left'["crash"] # MaxCrashes \/ left'["fault"] # MaxFaults
  BY <1>1, BoundAssumption DEF Gentle, Events
<1>3. ~Undisturbed'
  BY <1>2 DEF Undisturbed
<1> QED
  BY <1>2, <1>3 DEF Gentle

LEMMA GentleStays ==
  ASSUME Alone, Gentle, NEW w \in Writers, ~WAt(w, "prune"), UNCHANGED <<dir, left>>,
         writer'[w].pc # "prune", writer'[w].quar.made => writer[w].quar.made
  PROVE  Gentle'
<1>1. Undisturbed' = Undisturbed /\ Made' = Made
      /\ \A h \in Made : Intact(h)' = Intact(h)
  BY DEF Undisturbed, Undamaged, Made, Intact
<1>2. \A v \in Writers : v = w
  BY DEF Alone
<1>3. Undisturbed => \A h \in Made : Intact(h)
  BY AllIntact
<1> QED
  BY <1>1, <1>2, <1>3 DEF Gentle, WAt

LEMMA Retaining ==
  ASSUME Alone, NEW w \in Writers, Ordered', Gentle', Yields(w)' PROVE RetainInv'
BY DEF Alone, RetainInv

LEMMA YieldsIdle ==
  ASSUME NEW w \in Writers, writer'[w] = WriterIdle PROVE Yields(w)'
BY DEF Yields, WriterIdle

\* The command ends, and its private directories count no more.
LEMMA RetainEnd ==
  ASSUME Alone, Shape, RetainInv, NEW w \in Writers, WEnd(w), UNCHANGED dir,
         recent' = recent \/ recent' = Left(recent, w),
         \/ Spend("fault") \/ Spend("crash")
         \/ UNCHANGED left /\ ~WAt(w, "prune")
  PROVE  RetainInv'
<1>1. /\ writer' = [writer EXCEPT ![w] = WriterIdle] /\ writer'[w] = WriterIdle
      /\ WriterIdle.pc = "idle" /\ ~WriterIdle.quar.made /\ WriterIdle.calm
  BY IdleNow
<1>2. Ordered'
  <2>1. CASE recent' = recent
    <3>1. Made' = Made
      BY DEF Made
    <3>2. \A v \in Writers : writer'[v] = writer[v] \/ writer'[v] = WriterIdle
      BY <1>1 DEF Shape
    <3> QED
      BY <1>1, <2>1, <3>1, <3>2, OrderedStays DEF RetainInv
  <2>2. CASE recent' = Left(recent, w)
    BY <1>1, <2>2, OrderedLeft DEF RetainInv
  <2> QED
    BY <2>1, <2>2
<1>3. Gentle'
  <2>1. CASE Spend("fault") \/ Spend("crash")
    BY <2>1, GentleSpent DEF RetainInv
  <2>2. CASE UNCHANGED left /\ ~WAt(w, "prune")
    BY <1>1, <2>2, GentleStays DEF RetainInv
  <2> QED
    BY <2>1, <2>2
<1>4. Yields(w)'
  BY <1>1, YieldsIdle
<1> QED
  BY <1>2, <1>3, <1>4, Retaining

\* It turns to its next step and touches nothing but what it holds.
LEMMA RetainTurn ==
  ASSUME Alone, Shape, RetainInv, NEW w \in Writers, ~WAt(w, "prune"),
         UNCHANGED <<dir, recent, left>>, NEW j, writer' = [writer EXCEPT ![w] = j],
         j.pc \notin {"prune", "publish", "status"}, j.quar.made => writer[w].quar.made,
         Undamaged => j.calm,
         j.pc \in {"point", "clean"} /\ j.calm => Intact(Target(w))',
         j.pc = "clean" => pointer' = Target(w)'
  PROVE  RetainInv'
<1>1. writer'[w] = j /\ \A v \in Writers \ {w} : writer'[v] = writer[v]
  BY DEF Shape
<1>2. Made' = Made /\ Undamaged' = Undamaged
  BY DEF Made, Undamaged
<1>3. Ordered'
  BY <1>1, <1>2, OrderedStays DEF RetainInv
<1>4. Gentle'
  BY <1>1, GentleStays DEF RetainInv
<1>5. Yields(w)'
  BY <1>1, <1>2 DEF Yields
<1> QED
  BY <1>3, <1>4, <1>5, Retaining

LEMMA RetainStart ==
  ASSUME Alone, Shape, RetainInv, NEW w \in Writers, WStart(w) PROVE RetainInv'
<1> DEFINE todo == {d \in Docs : source[d] # Missing}
           j == [WriterIdle EXCEPT !.pc = "scan", !.cfg = config, !.todo = todo]
<1>1. writer' = [writer EXCEPT ![w] = j] /\ UNCHANGED <<dir, recent, left>>
      /\ ~WAt(w, "prune")
  BY DEF WStart, cache, WAt
<1>2. j.pc = "scan" /\ ~j.quar.made /\ j.calm
  BY DEF WriterIdle, NoDir
<1> HIDE DEF j
<1> QED
  BY <1>1, <1>2, RetainTurn

LEMMA RetainScan ==
  ASSUME Alone, Shape, RetainInv, NEW w \in Writers, Scan(w) PROVE RetainInv'
<1>1. UNCHANGED <<dir, recent, left>> /\ writer[w] \in Writer /\ WAt(w, "scan")
      /\ Yields(w) /\ writer[w].pc = "scan"
  BY DEF Scan, cache, WAt, Shape, RetainInv
<1>2. CASE WEnd(w)
  BY <1>1, <1>2, RetainEnd DEF WAt
<1>3. CASE WGoto(w, "probe")
  <2> DEFINE j == [writer[w] EXCEPT !.pc = "probe"]
  <2>1. writer' = [writer EXCEPT ![w] = j]
    BY <1>1, <1>3 DEF WGoto, Shape
  <2>2. j.pc = "probe" /\ j.quar = writer[w].quar /\ j.calm = writer[w].calm
    BY <1>1 DEF Writer
  <2> HIDE DEF j
  <2> QED
    BY <1>1, <2>1, <2>2, RetainTurn DEF Yields, WAt
<1>4. ASSUME NEW d \in Docs,
             writer' = [writer EXCEPT ![w].view[d] = source[d], ![w].todo = @ \ {d}]
      PROVE  RetainInv'
  <2> DEFINE j == [writer[w] EXCEPT !.view = [@ EXCEPT ![d] = source[d]],
                                    !.todo = @ \ {d}]
  <2>1. writer' = [writer EXCEPT ![w] = j]
    BY <1>1, <1>4 DEF Shape
  <2>2. j.pc = "scan" /\ j.quar = writer[w].quar /\ j.calm = writer[w].calm
    BY <1>1 DEF Writer
  <2> HIDE DEF j
  <2> QED
    BY <1>1, <2>1, <2>2, RetainTurn DEF Yields, WAt
<1> QED
  BY <1>2, <1>3, <1>4 DEF Scan

LEMMA RetainProbe ==
  ASSUME Alone, Shape, RetainInv, NEW w \in Writers, Probe(w) PROVE RetainInv'
<1> DEFINE pc == IF Intact(Target(w)) THEN "point"
                 ELSE IF dir[Target(w)].made THEN "aside" ELSE "stage"
           j == [writer[w] EXCEPT !.pc = pc]
<1>1. UNCHANGED <<dir, recent, left>> /\ writer[w] \in Writer /\ Yields(w)
      /\ writer[w].pc = "probe"
  BY DEF Probe, cache, WAt, Shape, RetainInv
<1>2. writer' = [writer EXCEPT ![w] = j]
  BY <1>1 DEF Probe, WGoto, Shape
<1>3. writer'[w] = j
  BY <1>2 DEF Shape
<1>4. Target(w)' = Target(w)
  BY <1>1, <1>3 DEF Target, Writer
<1>5. Intact(Target(w))' = Intact(Target(w))
  BY <1>1, <1>4 DEF Intact
<1>6. j.pc = pc /\ j.quar = writer[w].quar /\ j.calm = writer[w].calm
  BY <1>1 DEF Writer
<1> HIDE DEF j
<1> QED
  BY <1>1, <1>2, <1>5, <1>6, RetainTurn DEF Yields, WAt

LEMMA RetainPoint ==
  ASSUME Alone, Shape, RetainInv, NEW w \in Writers, Point(w) PROVE RetainInv'
<1> DEFINE j == [writer[w] EXCEPT !.pc = "clean"]
<1>1. UNCHANGED dir /\ writer[w] \in Writer /\ Yields(w) /\ writer[w].pc = "point"
  BY DEF Point, WAt, Shape, RetainInv
<1>2. CASE Spend("fault") /\ WLeave(w)
  BY <1>1, <1>2, RetainEnd DEF WLeave
<1>3. CASE pointer' = Target(w) /\ WGoto(w, "clean") /\ UNCHANGED <<recent, left>>
  <2>1. writer' = [writer EXCEPT ![w] = j]
    BY <1>1, <1>3 DEF WGoto, Shape
  <2>2. writer'[w] = j
    BY <2>1 DEF Shape
  <2>3. j.pc = "clean" /\ j.quar = writer[w].quar /\ j.calm = writer[w].calm
        /\ j.view = writer[w].view /\ j.cfg = writer[w].cfg
    BY <1>1 DEF Writer
  <2> HIDE DEF j
  <2>4. Target(w)' = Target(w)
    BY <2>2, <2>3 DEF Target
  <2>5. Intact(Target(w))' = Intact(Target(w))
    BY <1>1, <2>4 DEF Intact
  <2> QED
    BY <1>1, <1>3, <2>1, <2>3, <2>4, <2>5, RetainTurn DEF Yields, WAt
<1> QED
  BY <1>2, <1>3 DEF Point

\* What is moved aside was broken: someone had disturbed the cache before.
LEMMA RetainAside ==
  ASSUME Alone, CacheInv, Shape', RetainInv, NEW w \in Writers, Aside(w) PROVE RetainInv'
<1> DEFINE g == Target(w)
           j == [writer[w] EXCEPT !.pc = "stage", !.quar = dir[g]]
<1>1. /\ Shape /\ writer[w] \in Writer /\ Yields(w) /\ Works(w)
      /\ writer[w].pc = "aside" /\ writer[w].cfg \in Configs /\ ~Intact(g)
  BY DEF Aside, WAt, CacheInv, Shape, Works, RetainInv
<1>2. CASE WLeave(w) /\ UNCHANGED dir /\ (Spend("fault") \/ UNCHANGED left)
  BY <1>1, <1>2, RetainEnd DEF WLeave, WAt
<1>3. CASE /\ dir[g].made /\ UNCHANGED left
           /\ writer' = [writer EXCEPT ![w].pc = "stage", ![w].quar = dir[g]]
           /\ dir' = [dir EXCEPT ![g] = NoDir]
           /\ recent' = Rename(Home(g), <<"quarantine", w>>)
  <2>1. writer' = [writer EXCEPT ![w] = j] /\ writer'[w] = j
    BY <1>1, <1>3 DEF Shape
  <2>2. j.pc = "stage" /\ j.quar = dir[g] /\ j.calm = writer[w].calm
    BY <1>1 DEF Writer
  <2> HIDE DEF j
  <2>3. PICK h \in Gens : h = g
    BY <1>1, TargetIs
  <2>4. h \in Made /\ Made' = Made \ {h}
    BY <1>1, <1>3, <2>3 DEF Made, Shape, NoDir
  <2>5. Home(h) \in ToSet(recent) /\ Once(recent)
    BY <2>4 DEF RetainInv, Ordered
  <2>6. Once(recent') /\ ToSet(recent') = (ToSet(recent) \ {Home(h)}) \cup {<<"quarantine", w>>}
    <3>1. <<"quarantine", w>> \in Dated /\ Home(h) # <<"quarantine", w>>
      BY Places
    <3>2. recent' = Rename(Home(h), <<"quarantine", w>>)
      BY <1>3, <2>3
    <3> QED
      BY <2>5, <3>1, <3>2, RenameIs
  <2>7. Ordered'
    <3>1. \A k \in Made' : Home(k) \in ToSet(recent')
      BY <2>4, <2>6, Places DEF RetainInv, Ordered
    <3>2. \A v \in Writers \ {w} :
            /\ <<"staging", v>> \in ToSet(recent) => <<"staging", v>> \in ToSet(recent')
            /\ <<"quarantine", v>> \in ToSet(recent) => <<"quarantine", v>> \in ToSet(recent')
      BY <2>6, Places
    <3>3. <<"quarantine", w>> \in ToSet(recent') /\ Made' \subseteq Gens
      BY <2>6 DEF Made
    <3> QED
      BY <1>1, <2>1, <2>2, <2>6, <3>1, <3>2, <3>3, Ordering DEF RetainInv
  <2>8. ~Undisturbed
    BY <1>1, <2>3, <2>4, AllIntact DEF RetainInv, WAt
  <2>9. Gentle'
    BY <1>3, <2>8 DEF Gentle, Undisturbed, Undamaged, RetainInv
  <2>10. Yields(w)'
    BY <1>1, <1>3, <2>1, <2>2 DEF Yields, Undamaged
  <2> QED
    BY <2>7, <2>9, <2>10, Retaining
<1> QED
  BY <1>2, <1>3 DEF Aside

LEMMA RetainPutBack ==
  ASSUME Alone, CacheInv, Shape', RetainInv, NEW w \in Writers, PutBack(w),
         writer[w].cfg \in Configs, ~WAt(w, "prune"),
         Spend("fault") \/ (UNCHANGED left /\ dir[Target(w)].made)
  PROVE  RetainInv'
<1> DEFINE g == Target(w)
<1>1. Shape /\ writer[w] \in Writer
  BY DEF CacheInv, Shape
<1>2. CASE recent' = Left(recent, w) /\ UNCHANGED dir
  BY <1>1, <1>2, RetainEnd DEF PutBack
<1>3. CASE /\ writer[w].quar.made /\ ~dir[g].made
           /\ dir' = [dir EXCEPT ![g] = writer[w].quar]
           /\ recent' = Left(Rename(<<"quarantine", w>>, Home(g)), w)
  <2>1. /\ writer' = [writer EXCEPT ![w] = WriterIdle] /\ writer'[w] = WriterIdle
        /\ WriterIdle.pc = "idle" /\ ~WriterIdle.quar.made
    BY <1>1, IdleNow DEF PutBack
  <2>2. PICK h \in Gens : h = g
    BY <1>1, TargetIs
  <2>3. Made' = Made \cup {h}
    BY <1>1, <1>3, <2>2 DEF Made, Shape
  <2>4. <<"quarantine", w>> \in ToSet(recent) /\ Once(recent)
    BY <1>3 DEF RetainInv, Ordered
  <2> DEFINE r == Rename(<<"quarantine", w>>, Home(h))
  <2>5. Once(r) /\ ToSet(r) = (ToSet(recent) \ {<<"quarantine", w>>}) \cup {Home(h)}
    BY <2>4, RenameIs, Places
  <2>6. recent' = Left(r, w)
    BY <1>3, <2>2
  <2> HIDE DEF r
  <2>7. Once(recent')
        /\ ToSet(recent') = ToSet(r) \ {<<"staging", w>>, <<"quarantine", w>>}
    BY <2>5, <2>6, LeftIs
  <2>8. Ordered'
    <3>1. \A k \in Made' : Home(k) \in ToSet(recent')
      BY <2>3, <2>5, <2>7, Places DEF RetainInv, Ordered
    <3>2. \A v \in Writers \ {w} :
            /\ <<"staging", v>> \in ToSet(recent) => <<"staging", v>> \in ToSet(recent')
            /\ <<"quarantine", v>> \in ToSet(recent) => <<"quarantine", v>> \in ToSet(recent')
      BY <2>5, <2>7, Places
    <3> QED
      BY <1>1, <2>1, <2>7, <3>1, <3>2, Ordering DEF RetainInv, Made
  <2>9. Gentle'
    BY <1>1, <1>3, GentleSpent DEF RetainInv
  <2> QED
    BY <2>1, <2>8, <2>9, YieldsIdle, Retaining
<1> QED
  BY <1>2, <1>3 DEF PutBack

LEMMA RetainStage ==
  ASSUME Alone, CacheInv, Shape', RetainInv, NEW w \in Writers, WStage(w) PROVE RetainInv'
<1>1. /\ Shape /\ writer[w] \in Writer /\ Yields(w) /\ writer[w].pc = "stage"
      /\ writer[w].cfg \in Configs
  BY DEF WStage, WAt, CacheInv, Shape, Works, RetainInv
<1>2. CASE Spend("fault") /\ PutBack(w)
  BY <1>1, <1>2, RetainPutBack DEF WAt
<1>3. CASE Spend("fault") /\ WLeave(w) /\ UNCHANGED dir
  BY <1>1, <1>3, RetainEnd DEF WLeave
<1>4. CASE recent' = Touch(<<"staging", w>>) /\ WGoto(w, "publish") /\ UNCHANGED <<dir, left>>
  <2> DEFINE j == [writer[w] EXCEPT !.pc = "publish"]
  <2>1. writer' = [writer EXCEPT ![w] = j] /\ writer'[w] = j
    BY <1>1, <1>4 DEF WGoto, Shape
  <2>2. j.pc = "publish" /\ j.quar = writer[w].quar /\ j.calm = writer[w].calm
    BY <1>1 DEF Writer
  <2> HIDE DEF j
  <2>3. Once(recent') /\ ToSet(recent') = ToSet(recent) \cup {<<"staging", w>>}
    BY <1>4, TouchIs, Places DEF RetainInv, Ordered
  <2>4. Made' = Made
    BY <1>4 DEF Made
  <2>5. Ordered'
    <3>1. \A k \in Made' : Home(k) \in ToSet(recent')
      BY <2>3, <2>4 DEF RetainInv, Ordered
    <3>2. j.quar.made => <<"quarantine", w>> \in ToSet(recent')
      BY <2>2, <2>3 DEF RetainInv, Ordered
    <3> QED
      BY <1>1, <2>1, <2>2, <2>3, <3>1, <3>2, Ordering DEF RetainInv, Made
  <2>6. Gentle'
    BY <1>1, <1>4, <2>1, <2>2, GentleStays DEF RetainInv, WAt
  <2>7. Yields(w)'
    BY <1>1, <1>4, <2>1, <2>2 DEF Yields, Undamaged
  <2> QED
    BY <2>5, <2>6, <2>7, Retaining
<1> QED
  BY <1>2, <1>3, <1>4 DEF WStage

LEMMA RetainPublish ==
  ASSUME Alone, CacheInv, Shape', RetainInv, NEW w \in Writers, Publish(w) PROVE RetainInv'
<1> DEFINE g == Target(w)
           j == [writer[w] EXCEPT !.pc = "point"]
<1>1. /\ Shape /\ writer[w] \in Writer /\ Yields(w) /\ writer[w].pc = "publish"
      /\ writer[w].cfg \in Configs
  BY DEF Publish, WAt, CacheInv, Shape, Works, RetainInv
<1>2. CASE PutBack(w) /\ (Spend("fault") \/ (UNCHANGED left /\ dir[g].made))
  BY <1>1, <1>2, RetainPutBack DEF WAt
<1>3. CASE /\ dir' = [dir EXCEPT ![g] = Written(g)] /\ UNCHANGED left
           /\ recent' = Rename(<<"staging", w>>, Home(g)) /\ WGoto(w, "point")
  <2>1. writer' = [writer EXCEPT ![w] = j] /\ writer'[w] = j
    BY <1>1, <1>3 DEF WGoto, Shape
  <2>2. j.pc = "point" /\ j.quar = writer[w].quar /\ j.calm = writer[w].calm
        /\ j.view = writer[w].view /\ j.cfg = writer[w].cfg
    BY <1>1 DEF Writer
  <2> HIDE DEF j
  <2>3. PICK h \in Gens : h = g
    BY <1>1, TargetIs
  <2>4. Target(w)' = h
    BY <2>1, <2>2, <2>3 DEF Target
  <2>5. dir' = [dir EXCEPT ![h] = Written(h)]
    BY <1>3, <2>3
  <2>6. Made' = Made \cup {h} /\ Intact(h)'
        /\ \A k \in Gens \ {h} : Intact(k)' = Intact(k)
    BY <1>1, <2>5, WrittenIsWhole DEF Made, Intact, Shape
  <2>7. <<"staging", w>> \in ToSet(recent) /\ Once(recent)
    BY <1>1 DEF RetainInv, Ordered, WAt
  <2>8. Once(recent') /\ ToSet(recent') = (ToSet(recent) \ {<<"staging", w>>}) \cup {Home(h)}
    BY <1>3, <2>3, <2>7, RenameIs, Places
  <2>9. Ordered'
    <3>1. \A k \in Made' : Home(k) \in ToSet(recent')
      BY <2>6, <2>8, Places DEF RetainInv, Ordered
    <3>2. \A v \in Writers \ {w} :
            /\ <<"staging", v>> \in ToSet(recent) => <<"staging", v>> \in ToSet(recent')
            /\ <<"quarantine", v>> \in ToSet(recent) => <<"quarantine", v>> \in ToSet(recent')
      BY <2>8, Places
    <3>3. j.quar.made => <<"quarantine", w>> \in ToSet(recent')
      BY <2>2, <2>8, Places DEF RetainInv, Ordered
    <3> QED
      BY <1>1, <2>1, <2>2, <2>8, <3>1, <3>2, <3>3, Ordering DEF RetainInv, Made
  <2>10. Gentle'
    <3>1. Undisturbed' = Undisturbed
      BY <1>3 DEF Undisturbed, Undamaged
    <3>2. Undisturbed => \A k \in Made : Intact(k)
      BY <1>1, AllIntact DEF RetainInv, WAt
    <3>3. Undisturbed => \A k \in Made' : Intact(k)'
      BY <2>6, <3>2 DEF Made
    <3>4. \A v \in Writers : v = w
      BY DEF Alone
    <3> QED
      BY <1>3, <2>1, <2>2, <3>1, <3>3, <3>4 DEF Gentle, RetainInv, WAt
  <2>11. Yields(w)'
    BY <1>1, <1>3, <2>1, <2>2, <2>4, <2>6 DEF Yields, Undamaged
  <2> QED
    BY <2>9, <2>10, <2>11, Retaining
<1> QED
  BY <1>2, <1>3 DEF Publish

\* The collection is planned: keep_generations will survive it, no more.
LEMMA RetainClean ==
  ASSUME Alone, CacheInv, Shape', RetainInv, NEW w \in Writers, Clean(w) PROVE RetainInv'
<1> DEFINE g == Target(w)
           j == [writer[w] EXCEPT !.pc = "prune", !.quar = NoDir, !.victims = Obsolete(g)]
<1>1. /\ Shape /\ writer[w] \in Writer /\ Yields(w) /\ writer[w].pc = "clean"
      /\ UNCHANGED <<dir, pointer>> /\ writer[w].cfg \in Configs
  BY DEF Clean, WAt, CacheInv, Shape, Works, RetainInv
<1>2. CASE Spend("fault") /\ WLeave(w)
  BY <1>1, <1>2, RetainEnd DEF WLeave
<1>3. CASE /\ writer' = [writer EXCEPT ![w].pc = "prune", ![w].quar = NoDir,
                                       ![w].victims = Obsolete(g)]
           /\ recent' = Left(recent, w) /\ UNCHANGED left
  <2>1. PICK h \in Gens : h = g
    BY <1>1, TargetIs
  <2>2. PICK V : V = Obsolete(h)
    OBVIOUS
  <2>3. writer' = [writer EXCEPT ![w] = j] /\ writer'[w] = j
    BY <1>1, <1>3 DEF Shape
  <2>4. j.pc = "prune" /\ ~j.quar.made /\ j.calm = writer[w].calm
        /\ j.view = writer[w].view /\ j.cfg = writer[w].cfg /\ j.victims = V
    BY <1>1, <2>1, <2>2 DEF Writer, NoDir
  <2> HIDE DEF j
  <2>5. Target(w)' = h
    BY <2>1, <2>3, <2>4 DEF Target
  <2>6. Ordered'
    BY <1>1, <1>3, <2>3, <2>4, OrderedLeft DEF RetainInv
  <2>7. Made' = Made /\ Undamaged' = Undamaged /\ Undisturbed' = Undisturbed
        /\ \A k \in Gens : Intact(k)' = Intact(k)
    BY <1>1, <1>3 DEF Made, Undamaged, Undisturbed, Intact
  <2>8. /\ Cardinality(Made \ V) <= Keep
        /\ h \in Made /\ V # {} => Cardinality(Made \ V) >= Keep
    BY <2>2, Counting DEF RetainInv
  <2>9. Surviving(w)' = Made \ V
    BY <2>3, <2>4, <2>7 DEF Surviving
  <2>10. Yields(w)'
    BY <1>1, <2>1, <2>3, <2>4, <2>5, <2>7, <2>8, <2>9 DEF Yields
  <2>11. Gentle'
    <3>1. Undisturbed => h \in Made /\ \A k \in Made : Intact(k)
      <4>1. Undisturbed => Intact(h)
        BY <1>1, <2>1 DEF Yields, Undisturbed
      <4> QED
        BY <1>1, <4>1, AllIntact DEF RetainInv, WAt, Intact, Made
    <3>2. \A v \in Writers : v = w
      BY DEF Alone
    <3>3. Undisturbed' => \A k \in Made' : Intact(k)'
      BY <2>7, <3>1 DEF Made
    <3> QED
      BY <1>3, <2>3, <2>4, <2>7, <2>8, <2>9, <3>1, <3>2, <3>3 DEF Gentle, RetainInv
  <2> QED
    BY <2>6, <2>10, <2>11, Retaining
<1> QED
  BY <1>2, <1>3 DEF Clean

\* A step of the retention loop leaves what survives alone.
LEMMA RetainVictim ==
  ASSUME Alone, CacheInv, Shape', RetainInv, NEW w \in Writers, WAt(w, "prune"),
         UNCHANGED <<pointer, left>>,
         NEW h \in writer[w].victims, \A k \in Gens \ {h} : dir'[k] = dir[k],
         NEW j, writer' = [writer EXCEPT ![w] = j], j.pc = "prune",
         j.view = writer[w].view, j.cfg = writer[w].cfg, j.quar = writer[w].quar,
         j.calm = writer[w].calm, Made' \ j.victims = Made \ writer[w].victims,
         Made' \subseteq Made, j.victims \subseteq writer[w].victims,
         h \in Made' => h \in j.victims, Ordered'
  PROVE  /\ RetainInv'
         /\ Undisturbed => Cardinality({k \in Gens : Intact(k)'}) >= Keep
<1>1. /\ Shape /\ writer[w] \in Writer /\ Yields(w) /\ Works(w) /\ writer[w].pc = "prune"
      /\ writer'[w] = j /\ h \in Gens
  BY DEF WAt, CacheInv, Shape, RetainInv, Writer
<1>2. Target(w)' = Target(w) /\ h # Target(w)
  BY <1>1 DEF Target, Works
<1>3. \A k \in Gens \ {h} : Intact(k)' = Intact(k)
  BY DEF Intact
<1>4. Undamaged' = Undamaged /\ Undisturbed' = Undisturbed
  BY DEF Undamaged, Undisturbed
<1>5. Surviving(w)' = Surviving(w)
  BY <1>1 DEF Surviving
<1>6. Target(w) \in Gens
  BY <1>1, TargetIs DEF Works
<1>7. Yields(w)'
  <2>1. Intact(Target(w))' = Intact(Target(w))
    BY <1>2, <1>3, <1>6
  <2> QED
    BY <1>1, <1>2, <1>4, <1>5, <2>1 DEF Yields
<1>8. Gentle'
  <2>1. \A v \in Writers : v = w
    BY DEF Alone
  <2>2. Undisturbed => \A k \in Made' : ~Intact(k)' => k \in j.victims
    <3>1. ASSUME Undisturbed, NEW k \in Made', ~Intact(k)', k # h PROVE k \in j.victims
      <4>1. k \in Made /\ ~Intact(k)
        BY <1>3, <3>1 DEF Made
      <4>2. k \in writer[w].victims
        BY <2>1, <3>1, <4>1 DEF Gentle, RetainInv
      <4> QED
        BY <4>1, <4>2
    <3> QED
      BY <3>1
  <2>3. Undisturbed => ~j.quar.made
    BY DEF Gentle, RetainInv
  <2>4. Undisturbed => Cardinality(Surviving(w)) >= Keep
    BY DEF Gentle, RetainInv
  <2> QED
    BY <1>1, <1>4, <1>5, <2>1, <2>2, <2>3, <2>4 DEF Gentle, RetainInv, WAt
<1>9. ASSUME Undisturbed PROVE Cardinality({k \in Gens : Intact(k)'}) >= Keep
  <2> DEFINE S == Surviving(w)  T == {k \in Gens : Intact(k)'}
  <2>1. Cardinality(S) >= Keep
    BY <1>9 DEF Gentle, RetainInv
  <2>2. S \subseteq T
    <3>1. ASSUME NEW k \in S PROVE k \in T
      <4>1. k \in Gens /\ k # h /\ k \in Made /\ k \notin writer[w].victims
        BY DEF Surviving, Made
      <4>2. Intact(k)
        BY <1>9, <4>1 DEF Gentle, RetainInv, Alone
      <4> QED
        BY <1>3, <4>1, <4>2
    <3> QED
      BY <3>1
  <2>3. T \subseteq Made
    BY DEF Made, Intact
  <2>4. IsFiniteSet(Made)
    BY <1>1, Counting DEF RetainInv
  <2> HIDE DEF S, T
  <2>5. IsFiniteSet(T) /\ IsFiniteSet(S) /\ Cardinality(S) <= Cardinality(T)
    BY <2>2, <2>3, <2>4, FS_Subset
  <2>6. Cardinality(S) \in Nat /\ Cardinality(T) \in Nat /\ Keep \in Nat
    BY <2>5, FS_CardinalityType, BoundAssumption
  <2>7. Cardinality(T) >= Keep
    BY <2>1, <2>5, <2>6
  <2> QED
    BY <2>7 DEF T
<1> QED
  BY <1>7, <1>8, <1>9, Retaining

\* The action that RetentionKeepsWindow is about.
Window ==
  \A g \in Gens : Undisturbed' /\ Intact(g) /\ ~Intact(g)' =>
    Cardinality({h \in Gens : Intact(h)'}) >= Keep

LEMMA RetainPrune ==
  ASSUME Alone, CacheInv, Shape', RetainInv, NEW w \in Writers, Prune(w)
  PROVE  RetainInv' /\ Window
<1> DEFINE there(h) == {x \in Parts : dir[h].file[x] # "gone"}
<1>1. /\ Shape /\ writer[w] \in Writer /\ Yields(w) /\ Works(w) /\ writer[w].pc = "prune"
      /\ UNCHANGED pointer /\ WAt(w, "prune") /\ Once(recent) /\ writer[w].victims \subseteq Gens
  BY DEF Prune, WAt, CacheInv, Shape, RetainInv, Ordered, Writer
<1>2. ASSUME UNCHANGED dir PROVE Window
  BY <1>2 DEF Window, Intact
<1>3. CASE writer[w].victims = {} /\ WGoto(w, "status") /\ UNCHANGED <<dir, recent, left>>
  <2> DEFINE j == [writer[w] EXCEPT !.pc = "status"]
  <2>1. writer' = [writer EXCEPT ![w] = j] /\ writer'[w] = j
    BY <1>1, <1>3 DEF WGoto, Shape
  <2>2. j.pc = "status" /\ j.quar = writer[w].quar /\ j.calm = writer[w].calm
        /\ j.view = writer[w].view /\ j.cfg = writer[w].cfg /\ j.victims = {}
    BY <1>1, <1>3 DEF Writer
  <2> HIDE DEF j
  <2>3. Target(w)' = Target(w) /\ Made' = Made /\ Surviving(w)' = Surviving(w)
    BY <1>3, <2>1, <2>2 DEF Target, Made, Surviving
  <2>4. Intact(Target(w))' = Intact(Target(w)) /\ Undamaged' = Undamaged
        /\ Undisturbed' = Undisturbed /\ \A k \in Gens : Intact(k)' = Intact(k)
    BY <1>3, <2>3 DEF Intact, Undamaged, Undisturbed
  <2>5. Ordered'
    <3>1. \A v \in Writers :
            /\ writer'[v].pc = "publish" => writer[v].pc = "publish"
            /\ writer'[v].quar.made => writer[v].quar.made
      BY <1>1, <2>1, <2>2 DEF Shape
    <3> QED
      BY <1>3, <2>3, <3>1, OrderedStays DEF RetainInv
  <2>6. Yields(w)'
    BY <1>1, <2>1, <2>2, <2>3, <2>4 DEF Yields
  <2>7. Gentle'
    <3>1. \A v \in Writers : v = w
      BY DEF Alone
    <3>2. Undisturbed => \A k \in Made : Intact(k)
      BY <1>3, <3>1 DEF Gentle, RetainInv
    <3> QED
      BY <1>3, <2>1, <2>2, <2>3, <2>4, <3>1, <3>2 DEF Gentle, RetainInv, WAt, Made
  <2> QED
    BY <1>2, <1>3, <2>5, <2>6, <2>7, Retaining
<1>4. CASE Spend("fault") /\ WEnd(w) /\ UNCHANGED <<dir, recent>>
  BY <1>1, <1>2, <1>4, RetainEnd
<1>5. ASSUME NEW h \in writer[w].victims, NEW x \in there(h),
             dir' = [dir EXCEPT ![h].file[x] = "gone"],
             recent' = recent \/ recent' = Touch(Home(h)), UNCHANGED <<writer, left>>
      PROVE  RetainInv' /\ Window
  <2>1. h \in Gens /\ x \in Parts
    BY <1>1
  <2> DEFINE e == [dir[h] EXCEPT !.file[x] = "gone"]
  <2>2. dir' = [dir EXCEPT ![h] = e] /\ e.made = dir[h].made
    BY <1>1, <1>5, <2>1 DEF Shape, Dir
  <2> HIDE DEF e
  <2>3. Made' = Made /\ \A k \in Gens \ {h} : dir'[k] = dir[k]
    BY <1>1, <2>1, <2>2 DEF Made, Shape
  <2>4. writer' = [writer EXCEPT ![w] = writer[w]]
    BY <1>1, <1>5 DEF Shape
  <2>5. Ordered'
    <3>1. CASE recent' = recent
      BY <1>5, <2>3, <3>1, OrderedStays DEF RetainInv
    <3>2. CASE recent' = Touch(Home(h))
      <4>1. Once(recent') /\ ToSet(recent') = ToSet(recent) \cup {Home(h)}
        BY <1>1, <2>1, <3>2, TouchIs, Places
      <4>2. \A k \in Made' : Home(k) \in ToSet(recent')
        BY <2>3, <4>1 DEF RetainInv, Ordered
      <4>3. writer[w].quar.made => <<"quarantine", w>> \in ToSet(recent')
        BY <4>1 DEF RetainInv, Ordered
      <4> QED
        BY <1>1, <2>4, <4>1, <4>2, <4>3, Ordering DEF RetainInv, Made
    <3> QED
      BY <1>5, <3>1, <3>2
  <2>6. RetainInv' /\ (Undisturbed => Cardinality({k \in Gens : Intact(k)'}) >= Keep)
    BY <1>1, <1>5, <2>3, <2>4, <2>5, RetainVictim
  <2>7. Undisturbed' = Undisturbed
    BY <1>5 DEF Undisturbed, Undamaged
  <2> QED
    BY <2>6, <2>7 DEF Window
<1>6. ASSUME NEW h \in writer[w].victims, dir' = [dir EXCEPT ![h] = NoDir],
             recent' = Drop(Home(h)), writer' = [writer EXCEPT ![w].victims = @ \ {h}],
             UNCHANGED left
      PROVE  RetainInv' /\ Window
  <2>1. h \in Gens
    BY <1>1
  <2> DEFINE j == [writer[w] EXCEPT !.victims = @ \ {h}]
  <2>2. writer' = [writer EXCEPT ![w] = j]
    BY <1>1, <1>6 DEF Shape
  <2>3. j.pc = "prune" /\ j.quar = writer[w].quar /\ j.calm = writer[w].calm
        /\ j.view = writer[w].view /\ j.cfg = writer[w].cfg
        /\ j.victims = writer[w].victims \ {h}
    BY <1>1 DEF Writer
  <2> HIDE DEF j
  <2>4. Made' = Made \ {h} /\ \A k \in Gens \ {h} : dir'[k] = dir[k]
    BY <1>1, <1>6, <2>1 DEF Made, Shape, NoDir
  <2>5. Once(recent') /\ ToSet(recent') = ToSet(recent) \ {Home(h)}
    BY <1>1, <1>6, WithoutIs DEF Drop
  <2>6. Ordered'
    <3>1. \A k \in Made' : Home(k) \in ToSet(recent')
      BY <2>4, <2>5, Places DEF RetainInv, Ordered
    <3>2. \A v \in Writers \ {w} :
            /\ <<"staging", v>> \in ToSet(recent) => <<"staging", v>> \in ToSet(recent')
            /\ <<"quarantine", v>> \in ToSet(recent) => <<"quarantine", v>> \in ToSet(recent')
      BY <2>5, Places
    <3>3. j.quar.made => <<"quarantine", w>> \in ToSet(recent')
      BY <2>3, <2>5, Places DEF RetainInv, Ordered
    <3> QED
      BY <1>1, <2>2, <2>3, <2>5, <3>1, <3>2, <3>3, Ordering DEF RetainInv, Made
  <2>7. RetainInv' /\ (Undisturbed => Cardinality({k \in Gens : Intact(k)'}) >= Keep)
    <3>1. /\ Made' \ j.victims = Made \ writer[w].victims /\ Made' \subseteq Made
          /\ j.victims \subseteq writer[w].victims /\ h \notin Made'
      BY <1>6, <2>3, <2>4
    <3> QED
      BY <1>1, <1>6, <2>2, <2>3, <2>4, <2>6, <3>1, RetainVictim
  <2>8. Undisturbed' = Undisturbed
    BY <1>6 DEF Undisturbed, Undamaged
  <2> QED
    BY <2>7, <2>8 DEF Window
<1> QED
  BY <1>3, <1>4, <1>5, <1>6 DEF Prune

LEMMA RetainDamage ==
  ASSUME CacheInv, RetainInv, Damage PROVE RetainInv'
<1>1. Shape /\ UNCHANGED recent
  BY DEF Damage, CacheInv
<1>2. /\ left' = [left EXCEPT !["damage"] = @ - 1, !["all"] = @ - 1]
      /\ left \in [Events -> Nat] /\ left["damage"] <= MaxDamage
  BY <1>1 DEF Damage, Spend, Shape
<1>3. ~Undamaged' /\ ~Undisturbed' /\ left'["crash"] = left["crash"]
      /\ left'["fault"] = left["fault"]
  BY <1>2, BoundAssumption DEF Undamaged, Undisturbed, Events
<1>4. \A w \in Writers :
        /\ writer'[w].pc = writer[w].pc /\ writer'[w].quar = writer[w].quar
        /\ writer'[w].victims = writer[w].victims
        /\ writer'[w].pc = "idle" \/ ~writer'[w].calm
  BY <1>1 DEF Damage, Shape, Writer, WAt
<1>5. Made' = Made
  <2>1. CASE UNCHANGED dir
    BY <2>1 DEF Made
  <2>2. ASSUME NEW g \in Gens, NEW x, dir' = [dir EXCEPT ![g].file[x] = "bad"]
        PROVE  Made' = Made
    <3> DEFINE e == [dir[g] EXCEPT !.file[x] = "bad"]
    <3>1. dir' = [dir EXCEPT ![g] = e] /\ e.made = dir[g].made
      BY <1>1, <2>2 DEF Shape, Dir
    <3> HIDE DEF e
    <3> QED
      BY <1>1, <3>1 DEF Made, Shape
  <2> QED
    BY <2>1, <2>2 DEF Damage, Made
<1>6. Ordered'
  BY <1>1, <1>4, <1>5, OrderedStays DEF RetainInv
<1>7. Gentle'
  BY <1>3 DEF Gentle, RetainInv
<1>8. ASSUME NEW w \in Writers PROVE Yields(w)'
  <2>1. Surviving(w)' = Surviving(w) /\ Yields(w)
    BY <1>4, <1>5 DEF Surviving, RetainInv
  <2> QED
    BY <1>3, <1>4, <2>1 DEF Yields
<1> QED
  BY <1>6, <1>7, <1>8 DEF RetainInv

\* Readers, authors and configurations do not touch the cache.
LEMMA RetainOutside ==
  ASSUME RetainInv, UNCHANGED <<dir, recent, pointer, writer>>,
         \A k \in {"crash", "fault", "damage"} : left'[k] = left[k]
  PROVE  RetainInv' /\ Window
<1>1. Made' = Made /\ \A g : Intact(g)' = Intact(g)
  BY DEF Made, Intact
<1>2. Undamaged' = Undamaged /\ Undisturbed' = Undisturbed
  BY DEF Undamaged, Undisturbed
<1>3. Ordered'
  BY <1>1, OrderedStays DEF RetainInv
<1>4. \A w \in Writers : Target(w)' = Target(w) /\ Surviving(w)' = Surviving(w)
  BY <1>1 DEF Target, Surviving
<1>5. \A w \in Writers : Yields(w)'
  BY <1>1, <1>2, <1>4 DEF Yields, RetainInv, Intact
<1>6. Gentle'
  BY <1>1, <1>2, <1>4 DEF Gentle, RetainInv, WAt
<1>7. Window
  BY <1>1 DEF Window
<1> QED
  BY <1>3, <1>5, <1>6, <1>7 DEF RetainInv

\* Only the retention loop takes an intact generation away.
LEMMA WindowElsewhere ==
  ASSUME CacheInv, NEW w \in Writers,
         \/ WStart(w) \/ Scan(w) \/ Probe(w) \/ Aside(w) \/ WStage(w) \/ Publish(w)
         \/ Point(w) \/ Clean(w) \/ Status(w) \/ WCrash(w)
  PROVE  Window
<1>1. Shape /\ writer[w] \in Writer /\ Works(w)
  BY DEF CacheInv, Shape
<1>2. ASSUME UNCHANGED dir PROVE Window
  BY <1>2 DEF Window, Intact
<1>3. ASSUME NEW g, NEW e, ~Intact(g), dir' = [dir EXCEPT ![g] = e] PROVE Window
  <2>1. \A k \in Gens : Intact(k) => Intact(k)'
    BY <1>1, <1>3 DEF Intact, Shape
  <2> QED
    BY <2>1 DEF Window
<1>4. CASE Aside(w)
  BY <1>1, <1>2, <1>3, <1>4 DEF Aside, Works, WAt
<1>5. ASSUME PutBack(w) PROVE Window
  <2>1. ~dir[Target(w)].made => ~Intact(Target(w))
    BY DEF Intact
  <2> QED
    BY <1>2, <1>3, <1>5, <2>1 DEF PutBack
<1>6. CASE WStage(w)
  BY <1>2, <1>5, <1>6 DEF WStage
<1>7. CASE Publish(w)
  <2> DEFINE g == Target(w)
             taken == dir[g].made /\ \E x \in Parts : dir[g].file[x] # "gone"
  <2>1. PutBack(w) \/ (~taken /\ dir' = [dir EXCEPT ![g] = Written(g)])
    BY <1>7 DEF Publish
  <2>2. ~taken => ~Intact(g)
    BY DEF Intact, Whole, Parts
  <2> QED
    BY <1>3, <1>5, <2>1, <2>2
<1> QED
  BY <1>2, <1>4, <1>6, <1>7 DEF WStart, Scan, Probe, Point, Clean, Status, WCrash, cache

LEMMA RetainNext ==
  ASSUME Alone, CacheInv, CacheInv', RetainInv, [Next]_vars PROVE RetainInv' /\ Window
<1>1. Shape /\ Shape' /\ left \in [Events -> Nat]
  BY DEF CacheInv, Shape
<1>2. ASSUME NEW w \in Writers, Write(w) \/ WCrash(w) PROVE RetainInv' /\ Window
  <2>1. CASE Prune(w)
    BY <1>1, <2>1, RetainPrune
  <2>2. CASE Status(w)
    <3>1. WEnd(w) /\ UNCHANGED <<dir, recent, left>> /\ ~WAt(w, "prune")
      BY <2>2 DEF Status, cache, WAt
    <3>2. RetainInv'
      BY <1>1, <3>1, RetainEnd
    <3> QED
      BY <2>2, <3>2, WindowElsewhere
  <2>3. CASE WCrash(w)
    <3>1. WEnd(w) /\ UNCHANGED dir /\ recent' = Left(recent, w) /\ Spend("crash")
      BY <2>3 DEF WCrash, WLeave
    <3>2. RetainInv'
      BY <1>1, <3>1, RetainEnd
    <3> QED
      BY <2>3, <3>2, WindowElsewhere
  <2> QED
    BY <1>1, <1>2, <2>1, <2>2, <2>3, WindowElsewhere, RetainStart, RetainScan, RetainProbe,
       RetainAside, RetainStage, RetainPublish, RetainPoint, RetainClean DEF Write
<1>3. ASSUME NEW k \in {"edit", "config"}, Spend(k)
      PROVE  \A e \in {"crash", "fault", "damage"} : left'[e] = left[e]
  BY <1>1, <1>3 DEF Spend, Events
<1>4. ASSUME NEW r \in Readers, Read(r) PROVE RetainInv' /\ Window
  <2>1. UNCHANGED <<dir, recent, pointer, writer, left>>
    BY <1>4 DEF Read, ROpen, RPointer, RManifest, RList, RSource, RShard, RClose, cache
  <2> QED
    BY <2>1, RetainOutside
<1>5. ASSUME NEW d \in Docs, NEW content \in Bytes, Edit(d, content)
      PROVE  RetainInv' /\ Window
  <2>1. UNCHANGED <<dir, recent, pointer, writer>>
    BY <1>5 DEF Edit, cache
  <2> QED
    BY <1>3, <1>5, <2>1, RetainOutside DEF Edit
<1>6. ASSUME NEW c \in Configs, Configure(c) PROVE RetainInv' /\ Window
  <2>1. UNCHANGED <<dir, recent, pointer, writer>>
    BY <1>6 DEF Configure, cache
  <2> QED
    BY <1>3, <1>6, <2>1, RetainOutside DEF Configure
<1>7. CASE Damage
  <2>1. ~Undisturbed'
    <3>1. /\ left' = [left EXCEPT !["damage"] = @ - 1, !["all"] = @ - 1]
          /\ left["damage"] <= MaxDamage
      BY <1>7 DEF Damage, Spend, CacheInv, Shape
    <3> QED
      BY <1>1, <3>1, BoundAssumption DEF Undisturbed, Undamaged, Events
  <2> QED
    BY <1>7, <2>1, RetainDamage DEF Window
<1>8. CASE UNCHANGED vars
  BY <1>8, RetainOutside DEF vars
<1> QED
  BY <1>2, <1>4, <1>5, <1>6, <1>7, <1>8 DEF Next

LEMMA RetainInit == ASSUME Init PROVE RetainInv
<1>1. recent = << >> /\ \A w \in Writers : writer[w] = WriterIdle
  BY DEF Init
<1>2. Made = {}
  BY DEF Init, Made, NoDir
<1>3. Once(recent)
  BY <1>1 DEF Once
<1>4. Ordered
  BY <1>1, <1>2, <1>3 DEF Ordered, WAt, WriterIdle, NoDir
<1>5. left["crash"] = MaxCrashes /\ left["fault"] = MaxFaults
  BY DEF Init, Events
<1>6. Gentle
  BY <1>1, <1>2, <1>5, BoundAssumption DEF Gentle, WAt, WriterIdle, NoDir
<1>7. \A w \in Writers : Yields(w)
  BY <1>1 DEF Yields, WriterIdle
<1> QED
  BY <1>4, <1>6, <1>7 DEF RetainInv

LEMMA RetainInvariant == ASSUME Alone PROVE Spec => [](CacheInv /\ RetainInv)
<1>1. Init => CacheInv /\ RetainInv
  BY CacheInit, RetainInit
<1>2. CacheInv /\ RetainInv /\ [Next]_vars => CacheInv' /\ RetainInv'
  BY CacheNext, RetainNext
<1> QED
  BY <1>1, <1>2, PTL DEF Spec

\* When a single writer comes to check its result, what it built is selected and
\* intact, unless the cache was damaged meanwhile, and no more than
\* keep_generations generations are left, whatever went wrong in earlier writes
\* (write_projection, index_projection).
THEOREM WriteCurrent == ASSUME Alone PROVE Spec => []WriteYieldsCurrent
<1>1. ASSUME CacheInv, RetainInv, NEW w \in Writers, WAt(w, "status")
      PROVE  Cardinality(Made) <= Keep
  <2>1. writer[w].victims = {} /\ Cardinality(Surviving(w)) <= Keep
    BY <1>1 DEF RetainInv, Yields, WAt
  <2>2. Surviving(w) = Made
    BY <2>1 DEF Surviving
  <2> QED
    BY <2>1, <2>2
<1>2. CacheInv /\ RetainInv => WriteYieldsCurrent
  BY <1>1 DEF WriteYieldsCurrent, RetainInv, Yields, WAt
<1> QED
  BY <1>2, RetainInvariant, PTL

\* A single writer removes an intact generation only while keep_generations
\* others stay intact, unless a write was cut short or the cache damaged (the
\* retention loop of write_projection).
THEOREM WindowKept == ASSUME Alone PROVE Spec => RetentionKeepsWindow
<1>1. CacheInv /\ CacheInv' /\ RetainInv /\ [Next]_vars => Window
  BY RetainNext
<1>2. CacheInv /\ RetainInv /\ [Next]_vars => CacheInv' /\ Window
  BY <1>1, CacheNext
<1>3. RetentionKeepsWindow <=> [][Window]_vars
  BY DEF RetentionKeepsWindow, Window
<1> QED
  BY <1>2, <1>3, RetainInvariant, PTL DEF Spec

=============================================================================

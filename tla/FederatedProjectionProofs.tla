---------------------- MODULE FederatedProjectionProofs ----------------------
(* Theorems about the federated cache: what a build binds together and what   *)
(* readers answer is what stood in the sources, for any sources, contents,    *)
(* writers and readers, and whatever happens to the cache and the registry.   *)
EXTENDS FederatedProjection, TLAPS

-----------------------------------------------------------------------------
(* What a build knows of each source it has read twice *)

WriterShape(j) ==
  /\ DOMAIN j = {"pc", "ws", "hash", "inv", "docs", "todo", "refs", "moved", "calm"}
  /\ DOMAIN j.inv = Sources /\ DOMAIN j.docs = Sources
  /\ j.moved \in [Sources -> 0 .. 2]

\* An inventory that is no longer true has seen a change.
Inventoried(j, held, s) == j.inv[s] = held[s] \/ j.moved[s] >= 1
\* So has a catalog that differs from it; if it still stands, only the second
\* reading can tell.
Catalogued(j, held, s) ==
  j.docs[s] = j.inv[s] \/ j.moved[s] = 2 \/ j.docs[s] = held[s]
Same(j, s) == j.docs[s] = j.inv[s] \/ j.moved[s] = 2

Reads(j, held) ==
  LET all == Members(j.ws) IN
  /\ j.pc = "before" => \A s \in all \ j.todo : Inventoried(j, held, s)
  /\ j.pc \in {"catalog", "rehash", "after"} => \A s \in all : Inventoried(j, held, s)
  /\ j.pc = "before" => j.todo \subseteq all
  /\ j.pc = "catalog" => \A s \in all \ j.todo : Catalogued(j, held, s)
  /\ j.pc \in {"rehash", "after"} => \A s \in all : Catalogued(j, held, s)
  /\ j.pc = "after" => \A s \in all \ j.todo : Same(j, s)
  /\ j.pc = "rehash" => j.todo = all
  /\ j.pc \in {"object", "publish", "point"} => \A s \in all : Same(j, s)

BuildInv ==
  /\ DOMAIN source = Sources
  /\ DOMAIN writer = Writers
  /\ \A w \in Writers : WriterShape(writer[w]) /\ Reads(writer[w], source)

LEMMA IdleWriter ==
  ASSUME NEW held PROVE WriterShape(WriterIdle) /\ Reads(WriterIdle, held)
BY DEF WriterIdle, WriterShape, Reads, Blank

LEMMA BuildInit == ASSUME Init PROVE BuildInv
BY IdleWriter DEF Init, BuildInv

\* A step of one writer.
LEMMA OneWriter ==
  ASSUME BuildInv, UNCHANGED source, NEW w \in Writers, NEW j,
         Becomes(w, j), WriterShape(j), Reads(j, source)
  PROVE  BuildInv'
BY DEF BuildInv, Becomes

LEMMA Finishing ==
  ASSUME BuildInv, UNCHANGED source, NEW w \in Writers, Ended(w)
  PROVE  BuildInv'
BY OneWriter, IdleWriter DEF Ended

\* Steps in which every writer keeps what it knows, or learns of a change.
LEMMA Restlessness ==
  ASSUME BuildInv, UNCHANGED source, DOMAIN writer' = Writers,
         \A w \in Writers : \/ WriterShape(writer'[w]) /\ Reads(writer'[w], source)
                            \/ writer'[w] = Restless[w]
  PROVE  BuildInv'
<1>1. ASSUME NEW w \in Writers, writer'[w] = Restless[w]
      PROVE  WriterShape(writer'[w]) /\ Reads(writer'[w], source)
  <2>1. WriterShape(writer[w]) /\ Reads(writer[w], source)
    BY DEF BuildInv
  <2>2. writer'[w] = writer[w] \/ writer'[w] = [writer[w] EXCEPT !.calm = FALSE]
    BY <1>1 DEF Restless
  <2>3. /\ writer'[w].pc = writer[w].pc /\ writer'[w].ws = writer[w].ws
        /\ writer'[w].inv = writer[w].inv /\ writer'[w].docs = writer[w].docs
        /\ writer'[w].todo = writer[w].todo /\ writer'[w].moved = writer[w].moved
        /\ DOMAIN writer'[w] = DOMAIN writer[w]
    BY <2>1, <2>2 DEF WriterShape
  <2> QED
    BY <2>1, <2>3 DEF WriterShape, Reads, Inventoried, Catalogued, Same
<1> QED
  BY <1>1 DEF BuildInv

LEMMA BuildStart ==
  ASSUME BuildInv, NEW w \in Writers, WStart(w) PROVE BuildInv'
<1> DEFINE calm == \A u \in Writers \ {w} : writer[u].pc = "idle"
           j == [WriterIdle EXCEPT !.pc = "hash", !.ws = manifest, !.calm = calm]
<1>1. writer' = [v \in Writers |-> IF v = w THEN j ELSE Restless[v]] /\ UNCHANGED source
  BY DEF WStart, world
<1> HIDE DEF calm
<1>2. WriterShape(j) /\ j.pc = "hash"
  BY IdleWriter DEF WriterShape
<1> HIDE DEF j
<1>3. Reads(j, source)
  BY <1>2 DEF Reads
<1> QED
  BY <1>1, <1>2, <1>3, Restlessness

LEMMA BuildHash ==
  ASSUME BuildInv, NEW w \in Writers, WHash(w) PROVE BuildInv'
<1> DEFINE j == [writer[w] EXCEPT !.pc = "before", !.hash = manifest,
                                  !.todo = Members(writer[w].ws)]
<1>1. UNCHANGED source /\ WriterShape(writer[w])
  BY DEF WHash, world, BuildInv
<1>2. WriterShape(j) /\ j.pc = "before" /\ j.ws = writer[w].ws /\ j.todo = Members(j.ws)
  BY <1>1 DEF WriterShape
<1>3. Ended(w) \/ Becomes(w, j)
  BY DEF WHash
<1> HIDE DEF j
<1>4. Reads(j, source)
  BY <1>2 DEF Reads
<1> QED
  BY <1>1, <1>2, <1>3, <1>4, OneWriter, Finishing

LEMMA BuildBefore ==
  ASSUME BuildInv, NEW w \in Writers, WBefore(w) PROVE BuildInv'
<1> DEFINE k == writer[w]
           s == First(k.todo)
           rest == k.todo \ {s}
           inv == [k.inv EXCEPT ![s] = source[s]]
           pc == IF rest = {} THEN "catalog" ELSE "before"
           todo == IF rest = {} THEN Members(k.ws) ELSE rest
           j == [k EXCEPT !.inv = inv, !.pc = pc, !.todo = todo]
<1>1. UNCHANGED source /\ WriterShape(k) /\ Reads(k, source) /\ k.pc = "before"
  BY DEF WBefore, world, BuildInv
<1>2. Becomes(w, j)
  <2>1. Becomes(w, [k EXCEPT !.inv[s] = source[s], !.pc = pc, !.todo = todo])
    BY DEF WBefore
  <2> HIDE DEF s, pc, todo
  <2> QED
    BY <1>1, <2>1 DEF WriterShape
<1> HIDE DEF s
<1>3. DOMAIN inv = Sources /\ \A t \in Sources : inv[t] = source[t] \/ (t # s /\ inv[t] = k.inv[t])
  BY <1>1 DEF WriterShape
<1> HIDE DEF inv
<1>4. WriterShape(j) /\ j.pc = pc /\ j.ws = k.ws /\ j.inv = inv /\ j.docs = k.docs
      /\ j.todo = todo /\ j.moved = k.moved
  BY <1>1, <1>3 DEF WriterShape
<1>5. \A t \in Members(k.ws) \ rest : inv[t] = source[t] \/ k.moved[t] >= 1
  BY <1>1, <1>3 DEF Reads, Inventoried, Members
<1> HIDE DEF j
<1>6. Reads(j, source)
  BY <1>1, <1>4, <1>5 DEF Reads, Inventoried, Catalogued, Same
<1> QED
  BY <1>1, <1>2, <1>4, <1>6, OneWriter

LEMMA BuildCatalog ==
  ASSUME BuildInv, NEW w \in Writers, WCatalog(w) PROVE BuildInv'
<1> DEFINE k == writer[w]
           s == First(k.todo)
           rest == k.todo \ {s}
           docs == [k.docs EXCEPT ![s] = source[s]]
           pc == IF rest = {} THEN "rehash" ELSE "catalog"
           todo == IF rest = {} THEN Members(k.ws) ELSE rest
           j == [k EXCEPT !.docs = docs, !.pc = pc, !.todo = todo]
<1>1. UNCHANGED source /\ WriterShape(k) /\ Reads(k, source) /\ k.pc = "catalog"
  BY DEF WCatalog, world, BuildInv
<1>2. Ended(w) \/ Becomes(w, j)
  <2>1. Ended(w) \/ Becomes(w, [k EXCEPT !.docs[s] = source[s], !.pc = pc, !.todo = todo])
    BY DEF WCatalog
  <2> HIDE DEF s, pc, todo
  <2> QED
    BY <1>1, <2>1 DEF WriterShape
<1> HIDE DEF s
<1>3. DOMAIN docs = Sources
      /\ \A t \in Sources : docs[t] = source[t] \/ (t # s /\ docs[t] = k.docs[t])
  BY <1>1 DEF WriterShape
<1> HIDE DEF docs
<1>4. WriterShape(j) /\ j.pc = pc /\ j.ws = k.ws /\ j.inv = k.inv /\ j.docs = docs
      /\ j.todo = todo /\ j.moved = k.moved
  BY <1>1, <1>3 DEF WriterShape
<1>5. \A t \in Members(k.ws) \ rest :
        docs[t] = k.inv[t] \/ k.moved[t] = 2 \/ docs[t] = source[t]
  BY <1>1, <1>3 DEF Reads, Catalogued, Members
<1> HIDE DEF j
<1>6. Reads(j, source)
  BY <1>1, <1>4, <1>5 DEF Reads, Inventoried, Catalogued, Same
<1> QED
  BY <1>1, <1>2, <1>4, <1>6, OneWriter, Finishing

LEMMA BuildRehash ==
  ASSUME BuildInv, NEW w \in Writers, WRehash(w) PROVE BuildInv'
<1> DEFINE k == writer[w]
           j == [k EXCEPT !.pc = "after"]
<1>1. UNCHANGED source /\ WriterShape(k) /\ Reads(k, source) /\ k.pc = "rehash"
  BY DEF WRehash, world, BuildInv
<1>2. WriterShape(j) /\ j.pc = "after" /\ j.ws = k.ws /\ j.inv = k.inv
      /\ j.docs = k.docs /\ j.todo = k.todo /\ j.moved = k.moved
  BY <1>1 DEF WriterShape
<1>3. Ended(w) \/ Becomes(w, j)
  BY DEF WRehash
<1> HIDE DEF j
<1>4. Reads(j, source)
  BY <1>1, <1>2 DEF Reads, Inventoried, Catalogued, Same
<1> QED
  BY <1>1, <1>2, <1>3, <1>4, OneWriter, Finishing

\* The second reading agrees with the first: a catalog that differs from both
\* was overtaken by two changes.
LEMMA BuildAfter ==
  ASSUME BuildInv, NEW w \in Writers, WAfter(w) PROVE BuildInv'
<1> DEFINE k == writer[w]
           s == First(k.todo)
           rest == k.todo \ {s}
           pc == IF rest = {} THEN "object" ELSE "after"
           todo == IF rest = {} THEN ObjectsOf(Built(w)) ELSE rest
           j == [k EXCEPT !.pc = pc, !.todo = todo]
<1>1. UNCHANGED source /\ WriterShape(k) /\ Reads(k, source) /\ k.pc = "after"
  BY DEF WAfter, world, BuildInv
<1>2. Ended(w) \/ (Becomes(w, j) /\ source[s] = k.inv[s])
  BY DEF WAfter
<1> HIDE DEF s
<1>3. WriterShape(j) /\ j.pc = pc /\ j.ws = k.ws /\ j.inv = k.inv
      /\ j.docs = k.docs /\ j.todo = todo /\ j.moved = k.moved
  BY <1>1 DEF WriterShape
<1>4. source[s] = k.inv[s] => \A t \in Members(k.ws) \ rest : Same(k, t)
  BY <1>1 DEF Reads, Catalogued, Same
<1> HIDE DEF j
<1>5. source[s] = k.inv[s] => Reads(j, source)
  BY <1>1, <1>3, <1>4 DEF Reads, Inventoried, Catalogued, Same
<1> QED
  BY <1>1, <1>2, <1>3, <1>5, OneWriter, Finishing

LEMMA BuildStore ==
  ASSUME BuildInv, NEW w \in Writers, WObject(w) \/ WPublish(w) PROVE BuildInv'
<1> DEFINE k == writer[w]
<1>1. UNCHANGED source /\ WriterShape(k) /\ Reads(k, source)
      /\ k.pc \in {"object", "publish"}
  BY DEF WObject, WPublish, world, BuildInv
<1>2. ASSUME NEW rest, NEW pc \in {"object", "publish", "point"},
             Becomes(w, [k EXCEPT !.todo = rest, !.pc = pc])
      PROVE  BuildInv'
  <2> DEFINE j == [k EXCEPT !.todo = rest, !.pc = pc]
  <2>1. WriterShape(j) /\ j.pc = pc /\ j.ws = k.ws /\ j.inv = k.inv
        /\ j.docs = k.docs /\ j.moved = k.moved
    BY <1>1 DEF WriterShape
  <2>2. Becomes(w, j)
    BY <1>2
  <2> HIDE DEF j
  <2>3. Reads(j, source)
    BY <1>1, <2>1 DEF Reads, Same
  <2> QED
    BY <1>1, <2>1, <2>2, <2>3, OneWriter
<1>3. CASE WPublish(w)
  <2>1. Becomes(w, [k EXCEPT !.pc = "point"])
    BY <1>3 DEF WPublish
  <2>2. [k EXCEPT !.pc = "point"] = [k EXCEPT !.todo = k.todo, !.pc = "point"]
    BY <1>1 DEF WriterShape
  <2> QED
    BY <1>2, <2>1, <2>2
<1>4. CASE WObject(w)
  <2>1. PICK o \in k.todo :
          Becomes(w, [k EXCEPT !.todo = k.todo \ {o},
                        !.pc = IF k.todo \ {o} = {} THEN "publish" ELSE "object"])
    BY <1>4 DEF WObject
  <2> QED
    BY <1>2, <2>1
<1> QED
  BY <1>3, <1>4

\* After the pointer nothing is known of the sources any more.
LEMMA BuildCollect ==
  ASSUME BuildInv, NEW w \in Writers,
         WPoint(w) \/ WList(w) \/ WDrop(w) \/ WRefs(w) \/ WSweep(w) \/ Crash(w)
  PROVE  BuildInv'
<1> DEFINE k == writer[w]
           done == {"list", "drop", "refs", "sweep"}
<1>1. UNCHANGED source /\ WriterShape(k) /\ WriterShape(WriterIdle)
  BY IdleWriter DEF WPoint, WList, WDrop, WRefs, WSweep, Crash, world, BuildInv
<1>2. ASSUME NEW j, WriterShape(j), j.pc \in done, Becomes(w, j)
      PROVE  BuildInv'
  <2>1. Reads(j, source)
    BY <1>2 DEF Reads
  <2> QED
    BY <1>1, <1>2, <2>1, OneWriter
<1>3. CASE WPoint(w)
  <2> DEFINE j == [WriterIdle EXCEPT !.pc = "list"]
  <2>1. WriterShape(j) /\ j.pc \in done /\ Becomes(w, j)
    BY <1>1, <1>3 DEF WPoint, WriterShape
  <2> QED
    BY <1>2, <2>1
<1>4. ASSUME NEW pc \in done, NEW refs, NEW todo,
             Becomes(w, [k EXCEPT !.pc = pc, !.refs = refs, !.todo = todo])
      PROVE  BuildInv'
  <2> DEFINE j == [k EXCEPT !.pc = pc, !.refs = refs, !.todo = todo]
  <2>1. WriterShape(j) /\ j.pc \in done /\ Becomes(w, j)
    BY <1>1, <1>4 DEF WriterShape
  <2> QED
    BY <1>2, <2>1
<1>5. CASE WList(w) \/ WRefs(w)
  BY <1>1, <1>4, <1>5, Finishing DEF WList, WRefs
<1>6. CASE WDrop(w)
  <2>1. CASE Becomes(w, [k EXCEPT !.pc = "refs"])
    <3>1. WriterShape([k EXCEPT !.pc = "refs"]) /\ [k EXCEPT !.pc = "refs"].pc \in done
      BY <1>1 DEF WriterShape
    <3> QED
      BY <1>2, <2>1, <3>1
  <2>2. ASSUME NEW g, Becomes(w, [k EXCEPT !.todo = @ \ {g}]) PROVE BuildInv'
    <3>1. WriterShape([k EXCEPT !.todo = @ \ {g}])
          /\ [k EXCEPT !.todo = @ \ {g}].pc = "drop"
      BY <1>1, <1>6 DEF WriterShape, WDrop
    <3> QED
      BY <1>2, <2>2, <3>1
  <2> QED
    BY <1>6, <2>1, <2>2 DEF WDrop
<1>7. CASE WSweep(w)
  <2>1. ASSUME NEW o, Becomes(w, [k EXCEPT !.todo = @ \ {o}]) PROVE BuildInv'
    <3>1. WriterShape([k EXCEPT !.todo = @ \ {o}])
          /\ [k EXCEPT !.todo = @ \ {o}].pc = "sweep"
      BY <1>1, <1>7 DEF WriterShape, WSweep
    <3> QED
      BY <1>2, <2>1, <3>1
  <2> QED
    BY <1>1, <1>7, <2>1, Finishing DEF WSweep
<1>8. CASE Crash(w)
  BY <1>1, <1>8, Finishing DEF Crash
<1> QED
  BY <1>3, <1>5, <1>6, <1>7, <1>8

\* An author's change makes a reading untrue, and is counted.
LEMMA BuildEdit == ASSUME BuildInv, Edit PROVE BuildInv'
<1>1. PICK s \in Sources, b \in Contents :
        /\ source' = [source EXCEPT ![s] = b]
        /\ writer' = Disturbed(s)
  BY DEF Edit
<1>2. DOMAIN source' = Sources /\ DOMAIN writer' = Writers
  BY <1>1 DEF BuildInv, Disturbed
<1>3. ASSUME NEW w \in Writers
      PROVE  WriterShape(writer'[w]) /\ Reads(writer'[w], source')
  <2> DEFINE k == writer[w]
             reading == {"hash", "before", "catalog", "rehash", "after"}
             moved == [k.moved EXCEPT ![s] = IF @ < 2 THEN @ + 1 ELSE 2]
             j == [k EXCEPT !.moved = moved]
  <2>1. WriterShape(k) /\ Reads(k, source)
    BY DEF BuildInv
  <2>2. CASE k.pc \notin reading
    <3>1. writer'[w] = k
      BY <1>1, <2>2 DEF Disturbed
    <3> QED
      BY <2>1, <2>2, <3>1 DEF Reads, Same
  <2>3. CASE k.pc \in reading
    <3>1. writer'[w] = j
      <4>1. writer'[w] = [k EXCEPT !.moved[s] = IF @ < 2 THEN @ + 1 ELSE 2]
        BY <1>1, <2>3 DEF Disturbed
      <4> QED
        BY <2>1, <4>1 DEF WriterShape
    <3>2. moved \in [Sources -> 0 .. 2]
      BY <2>1 DEF WriterShape
    <3>3. /\ moved[s] >= 1 /\ (k.moved[s] >= 1 => moved[s] = 2)
          /\ \A t \in Sources \ {s} : moved[t] = k.moved[t] /\ source'[t] = source[t]
      BY <1>1, <2>1 DEF WriterShape, BuildInv
    <3> HIDE DEF moved
    <3>4. WriterShape(j) /\ j.pc = k.pc /\ j.ws = k.ws /\ j.inv = k.inv
          /\ j.docs = k.docs /\ j.todo = k.todo /\ j.moved = moved
      BY <2>1, <3>2 DEF WriterShape
    <3> HIDE DEF j
    <3>5. ASSUME NEW t \in Sources
          PROVE  /\ Inventoried(k, source, t) => Inventoried(j, source', t)
                 /\ Inventoried(k, source, t) /\ Catalogued(k, source, t)
                      => Catalogued(j, source', t)
                 /\ Same(k, t) => Same(j, t)
      <4>1. CASE t = s
        BY <2>1, <3>2, <3>3, <3>4, <4>1 DEF Inventoried, Catalogued, Same, WriterShape
      <4>2. CASE t # s
        BY <3>3, <3>4, <4>2 DEF Inventoried, Catalogued, Same
      <4> QED
        BY <4>1, <4>2
    <3>6. Members(k.ws) \subseteq Sources
      BY DEF Members
    <3>7. Reads(j, source')
      BY <2>1, <3>4, <3>5, <3>6 DEF Reads
    <3> QED
      BY <3>1, <3>4, <3>7
  <2> QED
    BY <2>2, <2>3
<1> QED
  BY <1>2, <1>3 DEF BuildInv

LEMMA BuildNext == ASSUME BuildInv, [Next]_vars PROVE BuildInv'
<1>1. CASE UNCHANGED <<source, writer>>
  BY <1>1 DEF BuildInv
<1>2. ASSUME NEW w \in Writers,
             \/ WStart(w) \/ WHash(w) \/ WBefore(w) \/ WCatalog(w) \/ WRehash(w)
             \/ WAfter(w) \/ WObject(w) \/ WPublish(w) \/ WPoint(w)
             \/ WList(w) \/ WDrop(w) \/ WRefs(w) \/ WSweep(w) \/ Crash(w)
      PROVE  BuildInv'
  BY <1>2, BuildStart, BuildHash, BuildBefore, BuildCatalog, BuildRehash, BuildAfter,
     BuildStore, BuildCollect
<1>3. ASSUME NEW r \in Readers,
             \/ RStart(r) \/ RPointer(r) \/ RHash(r) \/ RState(r) \/ RObject(r)
             \/ RCompare(r) \/ RReport(r)
      PROVE  BuildInv'
  <2>1. UNCHANGED <<source, writer>>
    BY <1>3 DEF RStart, RPointer, RHash, RState, RObject, RCompare, RReport, world
  <2> QED
    BY <1>1, <2>1
<1>4. CASE Edit
  BY <1>4, BuildEdit
<1>5. CASE Register
  BY <1>1, <1>5 DEF Register
<1>6. CASE Damage
  <2>1. writer' = Restless /\ UNCHANGED source
    BY <1>6 DEF Damage, world
  <2>2. DOMAIN writer' = Writers
    BY <2>1 DEF Restless
  <2> QED
    BY <2>1, <2>2, Restlessness
<1>7. CASE UNCHANGED vars
  BY <1>1, <1>7 DEF vars
<1> QED
  BY <1>2, <1>3, <1>4, <1>5, <1>6, <1>7 DEF Next

\* A federated build binds the documents of every source to the inventory that
\* both readings found, or the source changed twice between them
\* (_load_sources, write_federated_projection).
THEOREM BuildBound == Spec => BuildIsSnapshot
<1>1. Init => BuildInv
  BY BuildInit
<1>2. BuildInv /\ [Next]_vars => BuildInv'
  BY BuildNext
<1>3. BuildInv => \A w \in Writers : writer[w].pc = "point" /\ pointer' = Built(w) =>
        \A s \in Members(writer[w].ws) :
          writer[w].docs[s] = writer[w].inv[s] \/ writer[w].moved[s] = 2
  BY DEF BuildInv, Reads, Same
<1> QED
  BY <1>1, <1>2, <1>3, PTL DEF Spec, BuildIsSnapshot

-----------------------------------------------------------------------------
(* What a read knows of each source it has looked at *)

\* What the constants are taken to be: a registration is a value per source.
Registrations == \A m \in Manifests : m = [s \in Sources |-> m[s]]

ReaderShape(j) ==
  /\ DOMAIN j = {"pc", "ws", "gen", "todo", "diff", "seen"}
  /\ DOMAIN j.seen = Sources

Judging == {"hash", "states", "objects", "compare"}

\* A source that was checked agreed at that moment; one that is reported did not.
Agreed(j, s) == j.gen.entry[s] = j.ws[s] /\ j.gen.inv[s] \in j.seen[s]
Differed(j, s) == ~(j.gen.entry[s] = j.ws[s] /\ j.seen[s] = {j.gen.inv[s]})

Looked(j, held) ==
  /\ j.pc \notin AtRest => \A s \in Sources : held[s] \in j.seen[s]
  /\ j.pc \notin AtRest => j.ws \in Manifests
  /\ j.pc \in Judging => j.gen \in Generations
  /\ j.pc \in {"states", "objects"} => Members(j.gen.entry) = Members(j.ws)
  /\ j.pc = "states" => \A s \in Members(j.ws) \ j.todo : Agreed(j, s)
  /\ j.pc = "objects" => \A s \in Members(j.ws) : Agreed(j, s)
  /\ j.pc = "pointer" => j.diff = {}
  /\ j.pc = "compare" => j.diff \cap j.todo = {}
  /\ j.pc = "compare" =>
       \A s \in (Members(j.ws) \cup Members(j.gen.entry)) \ j.todo :
         IF s \in j.diff THEN Differed(j, s) ELSE Agreed(j, s)

AnswerInv ==
  /\ DOMAIN source = Sources /\ manifest \in Manifests
  /\ DOMAIN reader = Readers
  /\ \A r \in Readers : ReaderShape(reader[r]) /\ Looked(reader[r], source)

LEMMA RestingReader ==
  ASSUME NEW held, NEW pc \in AtRest
  PROVE  LET j == [ReaderIdle EXCEPT !.pc = pc] IN
         ReaderShape(j) /\ Looked(j, held) /\ j.pc = pc
<1> DEFINE j == [ReaderIdle EXCEPT !.pc = pc]
<1>1. DOMAIN ReaderIdle = {"pc", "ws", "gen", "todo", "diff", "seen"}
      /\ DOMAIN ReaderIdle.seen = Sources
  BY DEF ReaderIdle
<1>2. ReaderShape(j) /\ j.pc = pc
  BY <1>1 DEF ReaderShape
<1> HIDE DEF j
<1>3. Looked(j, held)
  BY <1>2 DEF Looked, AtRest, Judging
<1> QED
  BY <1>2, <1>3 DEF j

LEMMA AnswerInit == ASSUME Init PROVE AnswerInv
<1>1. ReaderShape(ReaderIdle) /\ ReaderIdle.pc = "idle"
  BY DEF ReaderIdle, ReaderShape
<1>2. Looked(ReaderIdle, source)
  BY <1>1 DEF Looked, AtRest, Judging
<1> QED
  BY <1>1, <1>2 DEF Init, AnswerInv

LEMMA OneReader ==
  ASSUME AnswerInv, UNCHANGED world, NEW r \in Readers, NEW j,
         Answers(r, j), ReaderShape(j), Looked(j, source)
  PROVE  AnswerInv'
BY DEF AnswerInv, Answers, world

LEMMA Withdrawing ==
  ASSUME AnswerInv, UNCHANGED world, NEW r \in Readers, NEW pc \in AtRest,
         Answers(r, [ReaderIdle EXCEPT !.pc = pc])
  PROVE  AnswerInv'
BY OneReader, RestingReader

LEMMA ReadStart ==
  ASSUME AnswerInv, NEW r \in Readers, RStart(r) PROVE AnswerInv'
<1> DEFINE seen == [s \in Sources |-> {source[s]}]
           j == [ReaderIdle EXCEPT !.pc = "pointer", !.ws = manifest, !.seen = seen]
<1>1. Answers(r, j) /\ UNCHANGED world
  BY DEF RStart
<1>2. ReaderShape(ReaderIdle)
  BY DEF ReaderIdle, ReaderShape
<1>3. DOMAIN seen = Sources /\ \A s \in Sources : source[s] \in seen[s]
  OBVIOUS
<1> HIDE DEF seen
<1>4. ReaderShape(j) /\ j.pc = "pointer" /\ j.ws = manifest /\ j.seen = seen
      /\ j.diff = {}
  BY <1>2, <1>3 DEF ReaderShape, ReaderIdle
<1> HIDE DEF j
<1>5. Looked(j, source)
  BY <1>3, <1>4 DEF Looked, Judging, AnswerInv
<1> QED
  BY <1>1, <1>4, <1>5, OneReader

LEMMA ReadPointer ==
  ASSUME AnswerInv, NEW r \in Readers, RPointer(r) PROVE AnswerInv'
<1> DEFINE k == reader[r]
<1>1. UNCHANGED world /\ ReaderShape(k) /\ Looked(k, source) /\ k.pc = "pointer"
  BY DEF RPointer, AnswerInv
<1>2. CASE FallsBack(r)
  BY <1>1, <1>2, Withdrawing DEF FallsBack, AtRest
<1>3. ASSUME NEW next \in {"hash", "compare"}, pointer \in Generations,
             Answers(r, [k EXCEPT !.pc = next, !.gen = pointer,
                !.todo = IF next = "hash" THEN {}
                         ELSE Members(k.ws) \cup Members(pointer.entry)])
      PROVE  AnswerInv'
  <2> DEFINE todo == IF next = "hash" THEN {}
                     ELSE Members(k.ws) \cup Members(pointer.entry)
             j == [k EXCEPT !.pc = next, !.gen = pointer, !.todo = todo]
  <2>1. ReaderShape(j) /\ j.pc = next /\ j.gen = pointer /\ j.todo = todo
        /\ j.ws = k.ws /\ j.seen = k.seen /\ j.diff = k.diff
    BY <1>1 DEF ReaderShape
  <2>2. Answers(r, j)
    BY <1>3
  <2> HIDE DEF j
  <2>3. Looked(j, source)
    BY <1>1, <1>3, <2>1 DEF Looked, AtRest
  <2> QED
    BY <1>1, <2>1, <2>2, <2>3, OneReader
<1> QED
  BY <1>2, <1>3 DEF RPointer

LEMMA ReadHash ==
  ASSUME AnswerInv, NEW r \in Readers, RHash(r) PROVE AnswerInv'
<1> DEFINE k == reader[r]
           j == [k EXCEPT !.pc = "states", !.todo = Members(k.ws)]
<1>1. UNCHANGED world /\ ReaderShape(k) /\ Looked(k, source) /\ k.pc = "hash"
  BY DEF RHash, AnswerInv
<1>2. CASE FallsBack(r)
  BY <1>1, <1>2, Withdrawing DEF FallsBack, AtRest
<1>3. CASE Members(k.gen.entry) = Members(k.ws) /\ Answers(r, j)
  <2>1. ReaderShape(j) /\ j.pc = "states" /\ j.gen = k.gen /\ j.todo = Members(k.ws)
        /\ j.ws = k.ws /\ j.seen = k.seen
    BY <1>1 DEF ReaderShape
  <2>2. Answers(r, j)
    BY <1>3
  <2> HIDE DEF j
  <2>3. Looked(j, source)
    BY <1>1, <1>3, <2>1 DEF Looked, AtRest, Judging
  <2> QED
    BY <1>1, <2>1, <2>2, <2>3, OneReader
<1> QED
  BY <1>2, <1>3 DEF RHash

LEMMA ReadState ==
  ASSUME AnswerInv, NEW r \in Readers, RState(r) PROVE AnswerInv'
<1> DEFINE k == reader[r]
           s == First(k.todo)
           rest == k.todo \ {s}
           pc == IF rest = {} THEN "objects" ELSE "states"
           todo == IF rest = {} THEN Members(k.ws) \cup {0} ELSE rest
           j == [k EXCEPT !.pc = pc, !.todo = todo]
<1>1. UNCHANGED world /\ ReaderShape(k) /\ Looked(k, source) /\ k.pc = "states"
  BY DEF RState, AnswerInv
<1>2. CASE FallsBack(r)
  BY <1>1, <1>2, Withdrawing DEF FallsBack, AtRest
<1>3. CASE Unchanged(r, s) /\ Answers(r, j)
  <2> HIDE DEF s
  <2>1. ReaderShape(j) /\ j.pc = pc /\ j.gen = k.gen /\ j.todo = todo
        /\ j.ws = k.ws /\ j.seen = k.seen
    BY <1>1 DEF ReaderShape
  <2>2. Answers(r, j)
    BY <1>3
  <2> HIDE DEF j
  <2>3. ASSUME NEW t \in Members(k.ws) \ rest PROVE Agreed(k, t)
    <3>1. t \in Sources
      BY DEF Members
    <3>2. CASE t = s
      BY <1>1, <1>3, <3>1, <3>2 DEF Looked, AtRest, Agreed, Unchanged
    <3>3. CASE t # s
      BY <1>1, <2>3, <3>3 DEF Looked
    <3> QED
      BY <3>2, <3>3
  <2>4. Looked(j, source)
    BY <1>1, <2>1, <2>3 DEF Looked, AtRest, Judging, Agreed
  <2> QED
    BY <1>1, <2>1, <2>2, <2>4, OneReader
<1> QED
  BY <1>2, <1>3 DEF RState

LEMMA ReadObject ==
  ASSUME AnswerInv, NEW r \in Readers, RObject(r) PROVE AnswerInv'
<1> DEFINE k == reader[r]
<1>1. UNCHANGED world /\ ReaderShape(k) /\ Looked(k, source) /\ k.pc = "objects"
  BY DEF RObject, AnswerInv
<1>2. CASE FallsBack(r)
  BY <1>1, <1>2, Withdrawing DEF FallsBack, AtRest
<1>3. CASE Answers(r, [ReaderIdle EXCEPT !.pc = "served"])
  BY <1>1, <1>3, Withdrawing DEF AtRest
<1>4. ASSUME NEW s, Answers(r, [k EXCEPT !.todo = @ \ {s}]) PROVE AnswerInv'
  <2> DEFINE j == [k EXCEPT !.todo = @ \ {s}]
  <2>1. ReaderShape(j) /\ j.pc = k.pc /\ j.gen = k.gen
        /\ j.ws = k.ws /\ j.seen = k.seen
    BY <1>1 DEF ReaderShape
  <2>2. Answers(r, j)
    BY <1>4
  <2> HIDE DEF j
  <2>3. Looked(j, source)
    BY <1>1, <2>1 DEF Looked, AtRest, Agreed
  <2> QED
    BY <1>1, <2>1, <2>2, <2>3, OneReader
<1> QED
  BY <1>2, <1>3, <1>4 DEF RObject

LEMMA ReadCompare ==
  ASSUME AnswerInv, NEW r \in Readers, RCompare(r) PROVE AnswerInv'
<1> DEFINE k == reader[r]
           s == First(k.todo)
           todo == k.todo \ {s}
           diff == IF Unchanged(r, s) THEN k.diff ELSE k.diff \cup {s}
           j == [k EXCEPT !.todo = todo, !.diff = diff]
<1>1. UNCHANGED world /\ ReaderShape(k) /\ Looked(k, source) /\ k.pc = "compare"
  BY DEF RCompare, AnswerInv
<1>2. CASE FallsBack(r)
  BY <1>1, <1>2, Withdrawing DEF FallsBack, AtRest
<1>3. CASE Answers(r, j)
  <2> HIDE DEF s
  <2>1. ReaderShape(j) /\ j.pc = k.pc /\ j.gen = k.gen /\ j.todo = todo
        /\ j.diff = diff /\ j.ws = k.ws /\ j.seen = k.seen
    BY <1>1 DEF ReaderShape
  <2> HIDE DEF j
  <2>2. ASSUME NEW t \in (Members(k.ws) \cup Members(k.gen.entry)) \ todo
        PROVE  IF t \in diff THEN Differed(k, t) ELSE Agreed(k, t)
    <3>1. t \in Sources /\ source[t] \in k.seen[t]
      BY <1>1 DEF Members, Looked, AtRest
    <3>2. CASE t = s /\ Unchanged(r, s)
      <4>1. Agreed(k, t)
        BY <3>1, <3>2 DEF Agreed, Unchanged
      <4>2. CASE t \notin diff
        BY <4>1, <4>2
      <4>3. CASE t \in diff
        BY <1>1, <2>2, <3>2, <4>3 DEF Looked
      <4> QED
        BY <4>2, <4>3
    <3>3. CASE t = s /\ ~Unchanged(r, s)
      BY <3>1, <3>3 DEF Differed, Unchanged
    <3>4. CASE t # s
      BY <1>1, <2>2, <3>4 DEF Looked
    <3> QED
      BY <3>2, <3>3, <3>4
  <2>3. Looked(j, source)
    BY <1>1, <2>1, <2>2 DEF Looked, AtRest, Judging, Agreed, Differed
  <2> QED
    BY <1>1, <1>3, <2>1, <2>3, OneReader
<1>4. Answers(r, j) \/ FallsBack(r)
  BY DEF RCompare
<1> QED
  BY <1>2, <1>3, <1>4

\* An author's change reaches the history of every read that is under way.
LEMMA ReadEdit == ASSUME AnswerInv, Edit PROVE AnswerInv'
<1>1. PICK s \in Sources, b \in Contents :
        /\ source' = [source EXCEPT ![s] = b] /\ UNCHANGED manifest
        /\ reader' = Saw(s, b)
  BY DEF Edit
<1>2. DOMAIN source' = Sources /\ DOMAIN reader' = Readers
  BY <1>1 DEF AnswerInv, Saw
<1>3. ASSUME NEW r \in Readers
      PROVE  ReaderShape(reader'[r]) /\ Looked(reader'[r], source')
  <2> DEFINE k == reader[r]
             seen == [k.seen EXCEPT ![s] = @ \cup {b}]
             j == [k EXCEPT !.seen = seen]
  <2>1. ReaderShape(k) /\ Looked(k, source)
    BY DEF AnswerInv
  <2>2. CASE k.pc \in AtRest
    <3>1. reader'[r] = k
      BY <1>1, <2>2 DEF Saw
    <3> QED
      BY <2>1, <2>2, <3>1 DEF Looked, AtRest, Judging
  <2>3. CASE k.pc \notin AtRest
    <3>1. reader'[r] = j
      <4>1. reader'[r] = [k EXCEPT !.seen[s] = @ \cup {b}]
        BY <1>1, <2>3 DEF Saw
      <4> QED
        BY <2>1, <4>1 DEF ReaderShape
    <3>2. DOMAIN seen = Sources /\ b \in seen[s]
          /\ \A t \in Sources : k.seen[t] \subseteq seen[t]
      BY <2>1 DEF ReaderShape
    <3>3. \A t \in Sources : source'[t] \in seen[t]
      <4>1. \A t \in Sources : source[t] \in k.seen[t]
        BY <2>1, <2>3 DEF Looked
      <4> QED
        BY <1>1, <3>2, <4>1 DEF AnswerInv
    <3> HIDE DEF seen
    <3>4. ReaderShape(j) /\ j.pc = k.pc /\ j.ws = k.ws /\ j.gen = k.gen
          /\ j.todo = k.todo /\ j.diff = k.diff /\ j.seen = seen
      BY <2>1, <3>2 DEF ReaderShape
    <3> HIDE DEF j
    <3>5. \A t \in Sources : Agreed(k, t) => Agreed(j, t)
      BY <3>2, <3>4 DEF Agreed
    <3>6. ASSUME NEW t \in Sources, Differed(k, t), source[t] \in k.seen[t]
          PROVE  Differed(j, t)
      BY <3>2, <3>4, <3>6 DEF Differed
    <3>7. Members(k.ws) \subseteq Sources /\ Members(k.gen.entry) \subseteq Sources
      BY DEF Members
    <3>8. Looked(j, source')
      BY <2>1, <2>3, <3>3, <3>4, <3>5, <3>6, <3>7 DEF Looked, AtRest, Judging
    <3> QED
      BY <3>1, <3>4, <3>8
  <2> QED
    BY <2>2, <2>3
<1> QED
  BY <1>1, <1>2, <1>3 DEF AnswerInv

LEMMA AnswerNext == ASSUME AnswerInv, [Next]_vars PROVE AnswerInv'
<1>1. ASSUME UNCHANGED <<source, reader>>, manifest' \in Manifests PROVE AnswerInv'
  BY <1>1 DEF AnswerInv
<1>2. ASSUME NEW w \in Writers,
             \/ WStart(w) \/ WHash(w) \/ WBefore(w) \/ WCatalog(w) \/ WRehash(w)
             \/ WAfter(w) \/ WObject(w) \/ WPublish(w) \/ WPoint(w)
             \/ WList(w) \/ WDrop(w) \/ WRefs(w) \/ WSweep(w) \/ Crash(w)
      PROVE  AnswerInv'
  <2>1. UNCHANGED <<source, manifest, reader>>
    BY <1>2 DEF WStart, WHash, WBefore, WCatalog, WRehash, WAfter, WObject, WPublish,
                WPoint, WList, WDrop, WRefs, WSweep, Crash, world
  <2> QED
    BY <1>1, <2>1 DEF AnswerInv
<1>3. ASSUME NEW r \in Readers, RReport(r) PROVE AnswerInv'
  BY <1>3, Withdrawing DEF RReport, AtRest
<1>4. ASSUME NEW r \in Readers,
             \/ RStart(r) \/ RPointer(r) \/ RHash(r) \/ RState(r) \/ RObject(r)
             \/ RCompare(r) \/ RReport(r)
      PROVE  AnswerInv'
  BY <1>3, <1>4, ReadStart, ReadPointer, ReadHash, ReadState, ReadObject, ReadCompare
<1>5. CASE Edit
  BY <1>5, ReadEdit
<1>6. CASE Register
  BY <1>1, <1>6 DEF Register
<1>7. CASE Damage
  BY <1>1, <1>7 DEF Damage, world, AnswerInv
<1>8. CASE UNCHANGED vars
  BY <1>1, <1>8 DEF vars, AnswerInv
<1> QED
  BY <1>2, <1>4, <1>5, <1>6, <1>7, <1>8 DEF Next

LEMMA FreshStep ==
  ASSUME Registrations, AnswerInv, [Next]_vars, NEW r \in Readers
  PROVE  LET g == reader[r].gen ws == reader[r].ws IN
         /\ Served(r) =>
              g.entry = ws /\ \A s \in Members(ws) : g.inv[s] \in reader[r].seen[s]
         /\ Compared(r) =>
              \A s \in Members(ws) \cup Members(g.entry) :
                IF s \in reader[r].diff
                THEN ~(g.entry[s] = ws[s] /\ reader[r].seen[s] = {g.inv[s]})
                ELSE g.entry[s] = ws[s] /\ g.inv[s] \in reader[r].seen[s]
<1> DEFINE k == reader[r]
<1>1. ReaderShape(k) /\ Looked(k, source)
  BY DEF AnswerInv
<1>2. ASSUME Served(r)
      PROVE  k.gen.entry = k.ws /\ \A s \in Members(k.ws) : k.gen.inv[s] \in k.seen[s]
  <2>1. /\ k.gen \in Generations /\ k.ws \in Manifests
        /\ Members(k.gen.entry) = Members(k.ws)
        /\ \A s \in Members(k.ws) : Agreed(k, s)
    BY <1>1, <1>2 DEF Looked, Served, AtRest, Judging
  <2>2. k.gen.entry \in Manifests
    BY <2>1 DEF Generations
  <2>3. \A s \in Sources : k.gen.entry[s] = k.ws[s]
    BY <2>1 DEF Members, Agreed
  <2>4. /\ k.gen.entry = [s \in Sources |-> k.gen.entry[s]]
        /\ k.ws = [s \in Sources |-> k.ws[s]]
    BY <2>1, <2>2 DEF Registrations
  <2>5. k.gen.entry = k.ws
    BY <2>3, <2>4
  <2> QED
    BY <2>1, <2>5 DEF Agreed
<1>3. ASSUME Compared(r) PROVE k.todo = {}
  <2>1. k.pc = "compare" /\ reader'[r].pc = "compared" /\ reader' # reader
    BY <1>3 DEF Compared
  <2>2. ASSUME NEW q \in Readers, NEW a, Answers(q, a), q # r PROVE FALSE
    BY <2>1, <2>2 DEF Answers, AnswerInv
  <2>3. ASSUME NEW a, Answers(r, a) PROVE a.pc = "compared"
    BY <2>1, <2>3 DEF Answers, AnswerInv
  <2>4. ASSUME RCompare(r) PROVE FALSE
    <3>1. CASE FallsBack(r)
      <4>1. [ReaderIdle EXCEPT !.pc = "fallback"].pc = "fallback"
        BY DEF ReaderIdle
      <4> QED
        BY <2>3, <3>1, <4>1 DEF FallsBack
    <3>2. ASSUME NEW todo, NEW diff, Answers(r, [k EXCEPT !.todo = todo, !.diff = diff])
          PROVE  FALSE
      <4>1. [k EXCEPT !.todo = todo, !.diff = diff].pc = "compare"
        BY <1>1, <2>1 DEF ReaderShape
      <4> QED
        BY <2>3, <3>2, <4>1
    <3> QED
      BY <2>4, <3>1, <3>2 DEF RCompare
  <2>5. ASSUME NEW w \in Writers,
               \/ WStart(w) \/ WHash(w) \/ WBefore(w) \/ WCatalog(w) \/ WRehash(w)
               \/ WAfter(w) \/ WObject(w) \/ WPublish(w) \/ WPoint(w)
               \/ WList(w) \/ WDrop(w) \/ WRefs(w) \/ WSweep(w) \/ Crash(w)
        PROVE  reader' = reader
    BY <2>5 DEF WStart, WHash, WBefore, WCatalog, WRehash, WAfter, WObject, WPublish,
                WPoint, WList, WDrop, WRefs, WSweep, Crash
  <2>6. ASSUME Edit PROVE FALSE
    <3>1. PICK s \in Sources, b \in Contents : reader' = Saw(s, b)
      BY <2>6 DEF Edit
    <3>2. reader'[r].pc = k.pc
      BY <1>1, <3>1 DEF Saw, ReaderShape
    <3> QED
      BY <2>1, <3>2
  <2>7. ASSUME NEW q \in Readers,
               \/ RStart(q) \/ RPointer(q) \/ RHash(q) \/ RState(q) \/ RObject(q)
               \/ RCompare(q) \/ RReport(q)
        PROVE  k.todo = {}
    <3>1. \E a : Answers(q, a)
      BY <2>7 DEF RStart, RPointer, RHash, RState, RObject, RCompare, RReport, FallsBack
    <3>2. q = r
      BY <2>2, <3>1
    <3>3. RCompare(r) \/ RReport(r)
      BY <2>1, <2>7, <3>2 DEF RStart, RPointer, RHash, RState, RObject, AtRest
    <3> QED
      BY <2>4, <3>3 DEF RReport
  <2>8. CASE Register \/ Damage \/ UNCHANGED vars
    BY <2>1, <2>8 DEF Register, Damage, vars
  <2> QED
    BY <2>1, <2>5, <2>6, <2>7, <2>8 DEF Next
<1>4. ASSUME Compared(r)
      PROVE  \A s \in Members(k.ws) \cup Members(k.gen.entry) :
               IF s \in k.diff THEN Differed(k, s) ELSE Agreed(k, s)
  BY <1>1, <1>3, <1>4 DEF Looked, Compared
<1> QED
  BY <1>2, <1>4 DEF Differed, Agreed

\* Whatever writers, collections, damage, authors and changes of the registry
\* do meanwhile, a federated read serves, and `federation changes` reports, what
\* it has verified against the sources under the registration it loaded
\* (load_verified_federated_projection, evaluate_federated_changes).
THEOREM AnswersFresh == ASSUME Registrations PROVE Spec => AnswersAreFresh
<1>1. Init => AnswerInv
  BY AnswerInit
<1>2. AnswerInv /\ [Next]_vars => AnswerInv'
  BY AnswerNext
<1> DEFINE Fresh ==
      \A r \in Readers :
        LET g == reader[r].gen ws == reader[r].ws IN
        /\ Served(r) =>
             g.entry = ws /\ \A s \in Members(ws) : g.inv[s] \in reader[r].seen[s]
        /\ Compared(r) =>
             \A s \in Members(ws) \cup Members(g.entry) :
               IF s \in reader[r].diff
               THEN ~(g.entry[s] = ws[s] /\ reader[r].seen[s] = {g.inv[s]})
               ELSE g.entry[s] = ws[s] /\ g.inv[s] \in reader[r].seen[s]
<1>3. AnswerInv /\ [Next]_vars => Fresh
  BY FreshStep
<1>4. AnswersAreFresh <=> [][Fresh]_vars
  BY DEF AnswersAreFresh
<1> HIDE DEF Fresh
<1> QED
  BY <1>1, <1>2, <1>3, <1>4, PTL DEF Spec

-----------------------------------------------------------------------------
(* What a command of its own leaves in the store *)

Alone == \A v, w \in Writers : v = w

\* Where the command stands with the object store and with its collection.
Stored(k, g) ==
  LET selected == ~damaged /\ pointer # Nothing IN
  /\ k.pc # "idle" /\ ~damaged => k.calm
  /\ k.pc = "object" /\ k.calm => ObjectsOf(g) \ k.todo \subseteq objects
  /\ k.pc = "publish" /\ k.calm => ObjectsOf(g) \subseteq objects
  /\ k.pc = "point" /\ k.calm => Complete(g)
  /\ k.pc = "drop" /\ selected => pointer \in k.refs \ k.todo
  /\ k.pc = "refs" /\ selected => pointer \in k.refs
  /\ k.pc = "sweep" /\ selected => ObjectsOf(pointer) \subseteq k.refs

StoreInv ==
  /\ recent \in Seq(Present)
  /\ PointerSelectsComplete
  /\ \A w \in Writers : Stored(writer[w], Built(w))

LEMMA RemoveAtElements ==
  ASSUME NEW T, NEW seq \in Seq(T), NEW i \in 1 .. Len(seq)
  PROVE  /\ RemoveAt(seq, i) \in Seq(T)
         /\ \A j \in 1 .. Len(seq) : j # i => seq[j] \in ToSet(RemoveAt(seq, i))
         /\ ToSet(RemoveAt(seq, i)) \subseteq ToSet(seq)
<1> DEFINE a == SubSeq(seq, 1, i - 1)  b == SubSeq(seq, i + 1, Len(seq))
<1>1. /\ a \in Seq(T) /\ Len(a) = i - 1
      /\ \A j \in 1 .. (i - 1) : a[j] = seq[j]
  OBVIOUS
<1>2. /\ b \in Seq(T) /\ Len(b) = Len(seq) - i
      /\ \A j \in 1 .. (Len(seq) - i) : b[j] = seq[i + j]
  OBVIOUS
<1> HIDE DEF a, b
<1> DEFINE c == a \o b
<1>3. /\ c \in Seq(T) /\ Len(c) = Len(seq) - 1
      /\ \A j \in 1 .. (i - 1) : c[j] = seq[j]
      /\ \A j \in i .. (Len(seq) - 1) : c[j] = seq[j + 1]
  <2>1. c \in Seq(T)
    BY <1>1, <1>2
  <2>2. Len(c) = Len(seq) - 1
    <3>1. \A x, y \in Seq(T) : Len(x \o y) = Len(x) + Len(y)
      OBVIOUS
    <3>2. Len(seq) \in Nat
      OBVIOUS
    <3>3. Len(c) = Len(a) + Len(b)
      BY <1>1, <1>2, <3>1, Zenon
    <3> HIDE DEF c
    <3>4. Len(c) = (i - 1) + (Len(seq) - i)
      BY <1>1, <1>2, <3>3
    <3> QED
      BY <3>2, <3>4
  <2>3. ASSUME NEW j \in 1 .. (i - 1) PROVE c[j] = seq[j]
    BY <1>1, <1>2
  <2>4. ASSUME NEW j \in i .. (Len(seq) - 1) PROVE c[j] = seq[j + 1]
    <3>1. c[j] = b[j - (i - 1)]
      BY <1>1, <1>2
    <3>2. j - (i - 1) \in 1 .. (Len(seq) - i) /\ i + (j - (i - 1)) = j + 1
      OBVIOUS
    <3> QED
      BY <1>2, <3>1, <3>2
  <2> QED
    BY <2>1, <2>2, <2>3, <2>4
<1>4. RemoveAt(seq, i) = c
  BY DEF RemoveAt, a, b, c
<1> HIDE DEF c
<1>5. DOMAIN c = 1 .. (Len(seq) - 1) /\ DOMAIN seq = 1 .. Len(seq)
  BY <1>3
<1>6. \A j \in 1 .. Len(seq) : j # i => seq[j] \in ToSet(c)
  <2>1. ASSUME NEW j \in 1 .. Len(seq), j < i PROVE seq[j] \in ToSet(c)
    <3>1. j \in DOMAIN c /\ c[j] = seq[j]
      BY <2>1, <1>3, <1>5
    <3> QED
      BY <3>1 DEF ToSet
  <2>2. ASSUME NEW j \in 1 .. Len(seq), j > i PROVE seq[j] \in ToSet(c)
    <3>1. j - 1 \in DOMAIN c /\ c[j - 1] = seq[j]
      BY <2>2, <1>3, <1>5
    <3> QED
      BY <3>1 DEF ToSet
  <2> QED
    BY <2>1, <2>2
<1>7. ToSet(c) \subseteq ToSet(seq)
  BY <1>3, <1>5 DEF ToSet
<1> QED
  BY <1>3, <1>4, <1>6, <1>7

LEMMA OwnElements ==
  ASSUME NEW T, NEW seq \in Seq(T) PROVE seq \in Seq(ToSet(seq))
<1>1. DOMAIN seq = 1 .. Len(seq) /\ Len(seq) \in Nat
  OBVIOUS
<1>2. \A i \in 1 .. Len(seq) : seq[i] \in ToSet(seq)
  BY <1>1 DEF ToSet
<1> QED
  BY <1>1, <1>2

\* A removed directory is the only one to go.
LEMMA WithoutKeeps ==
  ASSUME recent \in Seq(Present), NEW g
  PROVE  /\ Without(g) \in Seq(Present)
         /\ Present \ {g} \subseteq ToSet(Without(g))
         /\ ToSet(Without(g)) \subseteq Present
<1>1. CASE g \notin Present
  BY <1>1 DEF Without, Present
<1>2. CASE g \in Present
  <2> DEFINE i == CHOOSE n \in DOMAIN recent : recent[n] = g
  <2>1. DOMAIN recent = 1 .. Len(recent)
    OBVIOUS
  <2>2. i \in 1 .. Len(recent) /\ recent[i] = g
    BY <1>2, <2>1 DEF Present, ToSet
  <2>3. Without(g) = RemoveAt(recent, i)
    BY <1>2 DEF Without
  <2> HIDE DEF i
  <2>4. /\ RemoveAt(recent, i) \in Seq(Present)
        /\ \A j \in 1 .. Len(recent) : j # i => recent[j] \in ToSet(RemoveAt(recent, i))
        /\ ToSet(RemoveAt(recent, i)) \subseteq ToSet(recent)
    BY <2>2, RemoveAtElements
  <2>5. ASSUME NEW h \in Present \ {g} PROVE h \in ToSet(Without(g))
    <3>1. PICK j \in 1 .. Len(recent) : recent[j] = h
      BY <2>1 DEF Present, ToSet
    <3> QED
      BY <2>2, <2>3, <2>4, <3>1
  <2> QED
    BY <2>3, <2>4, <2>5 DEF Present
<1> QED
  BY <1>1, <1>2

LEMMA TouchedKeeps ==
  ASSUME recent \in Seq(Present), NEW g
  PROVE  /\ Touched(g) \in Seq(ToSet(Touched(g)))
         /\ ToSet(Touched(g)) = Present \cup {g}
<1> DEFINE c == Without(g)  T == Present \cup {g}
<1>1. c \in Seq(Present) /\ Present \ {g} \subseteq ToSet(c) /\ ToSet(c) \subseteq Present
  BY WithoutKeeps
<1> HIDE DEF c
<1>2. c \in Seq(T)
  <2>1. DOMAIN c = 1 .. Len(c) /\ Len(c) \in Nat /\ \A i \in 1 .. Len(c) : c[i] \in Present
    BY <1>1
  <2> QED
    BY <1>1, <2>1
<1> HIDE DEF T
<1> DEFINE d == Append(c, g)
<1>3. g \in T
  BY DEF T
<1>4. /\ d \in Seq(T) /\ Len(d) = Len(c) + 1 /\ d[Len(c) + 1] = g
      /\ \A i \in 1 .. Len(c) : d[i] = c[i]
  BY <1>2, <1>3
<1>5. DOMAIN d = 1 .. Len(c) + 1 /\ DOMAIN c = 1 .. Len(c) /\ Len(c) \in Nat
  BY <1>2, <1>4
<1>6. Touched(g) = d
  BY DEF Touched, c
<1> HIDE DEF d
<1>7. ToSet(d) = ToSet(c) \cup {g}
  BY <1>4, <1>5 DEF ToSet
<1>8. d \in Seq(ToSet(d))
  BY <1>4, OwnElements
<1> QED
  BY <1>1, <1>6, <1>7, <1>8

LEMMA StoreInit == ASSUME Init PROVE StoreInv
<1>1. recent = << >> /\ pointer = Nothing /\ \A w \in Writers : writer[w].pc = "idle"
  BY DEF Init, WriterIdle
<1>2. recent \in Seq(Present)
  BY <1>1
<1> QED
  BY <1>1, <1>2 DEF StoreInv, Stored, PointerSelectsComplete

LEMMA NextOf ==
  ASSUME BuildInv, NEW w \in Writers, NEW j, Becomes(w, j) PROVE writer'[w] = j
BY DEF BuildInv, Becomes

\* The command reads, or is over: the store stands.
LEMMA Reading ==
  ASSUME Alone, StoreInv, UNCHANGED store, NEW w \in Writers,
         writer'[w].pc \in {"idle", "hash", "before", "catalog", "rehash", "after", "list"},
         writer'[w].pc = "idle" \/ damaged \/ writer'[w].calm
  PROVE  StoreInv'
<1>1. UNCHANGED <<objects, recent, torn, pointer, damaged>>
  BY DEF store
<1>2. (recent \in Seq(Present))'
  BY <1>1 DEF StoreInv, Present
<1>3. PointerSelectsComplete'
  BY <1>1 DEF StoreInv, PointerSelectsComplete, Complete, Intact, Present
<1>4. Stored(writer[w], Built(w))'
  BY <1>1 DEF Stored
<1>5. \A v \in Writers : Stored(writer[v], Built(v))'
  BY <1>4 DEF Alone
<1> QED
  BY <1>2, <1>3, <1>5 DEF StoreInv

\* A step of the only writer, given what it leaves in the store.
LEMMA Storing ==
  ASSUME Alone, NEW w \in Writers, (recent \in Seq(Present))', PointerSelectsComplete',
         Stored(writer[w], Built(w))'
  PROVE  StoreInv'
BY DEF Alone, StoreInv

LEMMA StoreRead ==
  ASSUME Alone, BuildInv, StoreInv, NEW w \in Writers,
         \/ WStart(w) \/ WHash(w) \/ WBefore(w) \/ WCatalog(w) \/ WRehash(w)
  PROVE  StoreInv'
<1> DEFINE k == writer[w]
<1>1. UNCHANGED store /\ WriterShape(k) /\ Stored(k, Built(w))
  BY DEF WStart, WHash, WBefore, WCatalog, WRehash, BuildInv, StoreInv
<1>2. CASE Ended(w)
  BY <1>1, <1>2, NextOf, Reading DEF Ended, WriterIdle
<1>3. CASE WStart(w)
  <2>1. Writers \ {w} = {}
    BY DEF Alone
  <2>2. writer'[w] = [WriterIdle EXCEPT !.pc = "hash", !.ws = manifest,
                        !.calm = \A u \in Writers \ {w} : writer[u].pc = "idle"]
    BY <1>3 DEF WStart
  <2>3. writer'[w].pc = "hash" /\ writer'[w].calm
    BY <2>1, <2>2 DEF WriterIdle
  <2> QED
    BY <1>1, <2>3, Reading
<1>4. ASSUME NEW j, Becomes(w, j), k.pc # "idle", j.calm = k.calm,
             j.pc \in {"hash", "before", "catalog", "rehash", "after", "list"}
      PROVE  StoreInv'
  BY <1>1, <1>4, NextOf, Reading DEF Stored
<1>5. CASE WHash(w)
  <2> DEFINE j == [k EXCEPT !.pc = "before", !.hash = manifest, !.todo = Members(k.ws)]
  <2>1. Ended(w) \/ Becomes(w, j)
    BY <1>5 DEF WHash
  <2>2. j.calm = k.calm /\ j.pc = "before" /\ k.pc = "hash"
    BY <1>1, <1>5 DEF WriterShape, WHash
  <2> HIDE DEF j
  <2> QED
    BY <1>2, <1>4, <2>1, <2>2
<1>6. CASE WBefore(w)
  <2> DEFINE s == First(k.todo)  rest == k.todo \ {s}
             pc == IF rest = {} THEN "catalog" ELSE "before"
             todo == IF rest = {} THEN Members(k.ws) ELSE rest
             j == [k EXCEPT !.inv[s] = source[s], !.pc = pc, !.todo = todo]
  <2>1. Becomes(w, j)
    BY <1>6 DEF WBefore
  <2>2. k.pc = "before" /\ pc \in {"catalog", "before"}
    BY <1>6 DEF WBefore
  <2> HIDE DEF s, pc, todo
  <2>3. j.calm = k.calm /\ j.pc = pc
    BY <1>1 DEF WriterShape
  <2> HIDE DEF j
  <2> QED
    BY <1>4, <2>1, <2>2, <2>3
<1>7. CASE WCatalog(w)
  <2> DEFINE s == First(k.todo)  rest == k.todo \ {s}
             pc == IF rest = {} THEN "rehash" ELSE "catalog"
             todo == IF rest = {} THEN Members(k.ws) ELSE rest
             j == [k EXCEPT !.docs[s] = source[s], !.pc = pc, !.todo = todo]
  <2>1. Ended(w) \/ Becomes(w, j)
    BY <1>7 DEF WCatalog
  <2>2. k.pc = "catalog" /\ pc \in {"catalog", "rehash"}
    BY <1>7 DEF WCatalog
  <2> HIDE DEF s, pc, todo
  <2>3. j.calm = k.calm /\ j.pc = pc
    BY <1>1 DEF WriterShape
  <2> HIDE DEF j
  <2> QED
    BY <1>2, <1>4, <2>1, <2>2, <2>3
<1>8. CASE WRehash(w)
  <2> DEFINE j == [k EXCEPT !.pc = "after"]
  <2>1. Ended(w) \/ Becomes(w, j)
    BY <1>8 DEF WRehash
  <2>2. j.calm = k.calm /\ j.pc = "after" /\ k.pc = "rehash"
    BY <1>1, <1>8 DEF WriterShape, WRehash
  <2> HIDE DEF j
  <2> QED
    BY <1>2, <1>4, <2>1, <2>2
<1> QED
  BY <1>3, <1>5, <1>6, <1>7, <1>8

LEMMA StoreAfter ==
  ASSUME Alone, BuildInv, StoreInv, NEW w \in Writers, WAfter(w) PROVE StoreInv'
<1> DEFINE k == writer[w]
           rest == k.todo \ {First(k.todo)}
           pc == IF rest = {} THEN "object" ELSE "after"
           todo == IF rest = {} THEN ObjectsOf(Built(w)) ELSE rest
           j == [k EXCEPT !.pc = pc, !.todo = todo]
<1>1. UNCHANGED store /\ WriterShape(k) /\ Stored(k, Built(w)) /\ k.pc = "after"
  BY DEF WAfter, BuildInv, StoreInv
<1>2. Ended(w) \/ Becomes(w, j)
  BY DEF WAfter
<1>3. CASE Ended(w)
  BY <1>1, <1>3, NextOf, Reading DEF Ended, WriterIdle
<1>4. CASE Becomes(w, j)
  <2>1. writer'[w] = j
    BY <1>4, NextOf
  <2>2. /\ j.pc = pc /\ j.todo = todo /\ j.calm = k.calm /\ j.hash = k.hash
        /\ j.ws = k.ws /\ j.inv = k.inv /\ j.docs = k.docs
    BY <1>1 DEF WriterShape
  <2> HIDE DEF j
  <2>3. CASE rest # {}
    BY <1>1, <2>1, <2>2, <2>3, Reading DEF Stored
  <2>4. CASE rest = {}
    <3>1. writer'[w].pc = "object" /\ writer'[w].calm = k.calm
          /\ writer'[w].todo = ObjectsOf(Built(w)) /\ Built(w)' = Built(w)
      BY <2>1, <2>2, <2>4 DEF Built
    <3>2. UNCHANGED <<objects, recent, torn, pointer, damaged>>
      BY <1>1 DEF store
    <3>3. (recent \in Seq(Present))' /\ PointerSelectsComplete'
      BY <3>2 DEF StoreInv, PointerSelectsComplete, Complete, Intact, Present
    <3>4. Stored(writer[w], Built(w))'
      BY <1>1, <3>1, <3>2 DEF Stored
    <3> QED
      BY <3>3, <3>4, Storing
  <2> QED
    BY <2>3, <2>4
<1> QED
  BY <1>2, <1>3, <1>4

\* What is published stands whole: its objects come first, then its manifest.
LEMMA StoreObject ==
  ASSUME Alone, BuildInv, StoreInv, NEW w \in Writers, WObject(w) PROVE StoreInv'
<1> DEFINE k == writer[w]
<1>1. PICK o \in k.todo :
        /\ objects' = objects \cup {o}
        /\ Becomes(w, [k EXCEPT !.todo = k.todo \ {o},
                         !.pc = IF k.todo \ {o} = {} THEN "publish" ELSE "object"])
  BY DEF WObject
<1>2. /\ UNCHANGED <<recent, torn, pointer, damaged>> /\ k.pc = "object"
      /\ WriterShape(k) /\ Stored(k, Built(w))
  BY DEF WObject, BuildInv, StoreInv
<1> DEFINE rest == k.todo \ {o}
           pc == IF rest = {} THEN "publish" ELSE "object"
           j == [k EXCEPT !.todo = rest, !.pc = pc]
<1>3. writer'[w] = j
  BY <1>1, NextOf
<1>4. /\ j.pc = pc /\ j.todo = rest /\ j.calm = k.calm /\ j.hash = k.hash
      /\ j.ws = k.ws /\ j.inv = k.inv /\ j.docs = k.docs
  BY <1>2 DEF WriterShape
<1> HIDE DEF j
<1>5. Built(w)' = Built(w) /\ writer'[w].pc = pc /\ writer'[w].todo = rest
      /\ writer'[w].calm = k.calm
  BY <1>3, <1>4 DEF Built
<1>6. (recent \in Seq(Present))' /\ PointerSelectsComplete'
  BY <1>1, <1>2 DEF StoreInv, PointerSelectsComplete, Complete, Intact, Present
<1>7. Stored(writer[w], Built(w))'
  BY <1>1, <1>2, <1>5 DEF Stored
<1> QED
  BY <1>6, <1>7, Storing

LEMMA StorePublish ==
  ASSUME Alone, BuildInv, StoreInv, NEW w \in Writers, WPublish(w) PROVE StoreInv'
<1> DEFINE k == writer[w]  j == [k EXCEPT !.pc = "point"]
<1> PICK g : g = Built(w)
  OBVIOUS
<1>1. /\ UNCHANGED <<objects, pointer, damaged>> /\ k.pc = "publish"
      /\ WriterShape(k) /\ Stored(k, g) /\ Becomes(w, j)
      /\ recent \in Seq(Present) /\ PointerSelectsComplete
  BY DEF WPublish, BuildInv, StoreInv
<1>2. writer'[w] = j
  BY <1>1, NextOf
<1>3. j.pc = "point" /\ j.calm = k.calm /\ j.hash = k.hash
      /\ j.ws = k.ws /\ j.inv = k.inv /\ j.docs = k.docs
  BY <1>1 DEF WriterShape
<1> HIDE DEF j
<1>4. Built(w)' = g /\ writer'[w].pc = "point" /\ writer'[w].calm = k.calm
  BY <1>2, <1>3 DEF Built
<1>5. \/ UNCHANGED <<recent, torn>> /\ Intact(g)
      \/ recent' = Touched(g) /\ torn' = torn \ {g}
  BY DEF WPublish
<1>6. /\ (recent \in Seq(Present))' /\ Present \subseteq Present' /\ torn' \subseteq torn
      /\ g \in Present' /\ g \notin torn'
  <2>1. CASE UNCHANGED <<recent, torn>> /\ Intact(g)
    BY <1>1, <2>1 DEF Intact, Present
  <2>2. CASE recent' = Touched(g) /\ torn' = torn \ {g}
    <3>1. Touched(g) \in Seq(ToSet(Touched(g))) /\ ToSet(Touched(g)) = Present \cup {g}
      BY <1>1, TouchedKeeps
    <3>2. Present' = Present \cup {g}
      BY <2>2, <3>1 DEF Present
    <3> QED
      BY <2>2, <3>1, <3>2
  <2> QED
    BY <1>5, <2>1, <2>2
<1>7. PointerSelectsComplete'
  BY <1>1, <1>6 DEF PointerSelectsComplete, Complete, Intact
<1>8. Stored(writer[w], Built(w))'
  <2>1. writer'[w].calm => Complete(g)'
    BY <1>1, <1>4, <1>6 DEF Stored, Complete, Intact
  <2> QED
    BY <1>1, <1>4, <2>1 DEF Stored
<1> QED
  BY <1>6, <1>7, <1>8, Storing

LEMMA StorePoint ==
  ASSUME Alone, BuildInv, StoreInv, NEW w \in Writers, WPoint(w) PROVE StoreInv'
<1> DEFINE k == writer[w]  j == [WriterIdle EXCEPT !.pc = "list"]
<1>1. /\ UNCHANGED <<objects, recent, torn>> /\ k.pc = "point"
      /\ Stored(k, Built(w)) /\ Becomes(w, j)
      /\ pointer' = Built(w) /\ damaged' = (damaged /\ ~k.calm)
  BY DEF WPoint, StoreInv
<1>2. writer'[w] = j
  BY <1>1, NextOf
<1>3. j.pc = "list" /\ j.calm
  BY DEF WriterIdle
<1> HIDE DEF j
<1>4. (recent \in Seq(Present))'
  BY <1>1 DEF StoreInv, Present
<1>5. PointerSelectsComplete'
  BY <1>1 DEF Stored, PointerSelectsComplete, Complete, Intact, Present
<1>6. Stored(writer[w], Built(w))'
  BY <1>2, <1>3 DEF Stored
<1> QED
  BY <1>4, <1>5, <1>6, Storing

\* The selected generation is never among those to be removed.
LEMMA StoreList ==
  ASSUME Alone, BuildInv, StoreInv, NEW w \in Writers, WList(w) PROVE StoreInv'
<1> DEFINE k == writer[w]
           j == [k EXCEPT !.pc = "drop", !.refs = Retained, !.todo = Present \ Retained]
<1>1. UNCHANGED store /\ k.pc = "list" /\ WriterShape(k) /\ Stored(k, Built(w))
  BY DEF WList, BuildInv, StoreInv
<1>2. CASE Ended(w)
  BY <1>1, <1>2, NextOf, Reading DEF Ended, WriterIdle
<1>3. CASE pointer \in Present /\ Becomes(w, j)
  <2>1. writer'[w] = j
    BY <1>3, NextOf
  <2>2. j.pc = "drop" /\ j.refs = Retained /\ j.todo = Present \ Retained /\ j.calm = k.calm
    BY <1>1 DEF WriterShape
  <2> HIDE DEF j
  <2>3. pointer \in Retained
    BY <1>3 DEF Retained
  <2>4. UNCHANGED <<objects, recent, torn, pointer, damaged>>
    BY <1>1 DEF store
  <2>5. (recent \in Seq(Present))' /\ PointerSelectsComplete'
    BY <2>4 DEF StoreInv, PointerSelectsComplete, Complete, Intact, Present
  <2>6. Stored(writer[w], Built(w))'
    BY <1>1, <2>1, <2>2, <2>3, <2>4 DEF Stored
  <2> QED
    BY <2>5, <2>6, Storing
<1> QED
  BY <1>2, <1>3 DEF WList

LEMMA StoreDrop ==
  ASSUME Alone, BuildInv, StoreInv, NEW w \in Writers, WDrop(w) PROVE StoreInv'
<1> DEFINE k == writer[w]
<1>1. /\ UNCHANGED <<objects, pointer, damaged>> /\ k.pc = "drop" /\ WriterShape(k)
      /\ Stored(k, Built(w)) /\ recent \in Seq(Present) /\ PointerSelectsComplete
  BY DEF WDrop, BuildInv, StoreInv
<1>2. CASE Becomes(w, [k EXCEPT !.pc = "refs"]) /\ UNCHANGED <<recent, torn>>
  <2> DEFINE j == [k EXCEPT !.pc = "refs"]
  <2>1. writer'[w] = j
    BY <1>2, NextOf
  <2>2. j.pc = "refs" /\ j.refs = k.refs /\ j.calm = k.calm
    BY <1>1 DEF WriterShape
  <2> HIDE DEF j
  <2>3. (recent \in Seq(Present))' /\ PointerSelectsComplete'
    BY <1>1, <1>2 DEF PointerSelectsComplete, Complete, Intact, Present
  <2>4. Stored(writer[w], Built(w))'
    BY <1>1, <2>1, <2>2 DEF Stored
  <2> QED
    BY <2>3, <2>4, Storing
<1>3. ASSUME NEW g \in k.todo, recent' = Without(g), torn' = torn \ {g},
             Becomes(w, [k EXCEPT !.todo = @ \ {g}])
      PROVE  StoreInv'
  <2> DEFINE j == [k EXCEPT !.todo = @ \ {g}]
  <2>1. writer'[w] = j
    BY <1>3, NextOf
  <2>2. j.pc = "drop" /\ j.refs = k.refs /\ j.calm = k.calm /\ j.todo = k.todo \ {g}
    BY <1>1 DEF WriterShape
  <2> HIDE DEF j
  <2>3. Without(g) \in Seq(Present) /\ Present \ {g} \subseteq ToSet(Without(g))
    BY <1>1, WithoutKeeps
  <2>4. (recent \in Seq(Present))' /\ Present \ {g} \subseteq Present'
    BY <1>3, <2>3, OwnElements DEF Present
  <2>5. PointerSelectsComplete'
    <3>1. ~damaged /\ pointer # Nothing => pointer # g
      BY <1>1, <1>3 DEF Stored
    <3> QED
      BY <1>1, <1>3, <2>4, <3>1 DEF PointerSelectsComplete, Complete, Intact
  <2>6. Stored(writer[w], Built(w))'
    BY <1>1, <2>1, <2>2 DEF Stored
  <2> QED
    BY <2>4, <2>5, <2>6, Storing
<1> QED
  BY <1>2, <1>3 DEF WDrop

LEMMA StoreRefs ==
  ASSUME Alone, BuildInv, StoreInv, NEW w \in Writers, WRefs(w) PROVE StoreInv'
<1> DEFINE k == writer[w]
           refs == UNION {ObjectsOf(g) : g \in k.refs}
           j == [k EXCEPT !.pc = "sweep", !.refs = refs, !.todo = objects \ refs]
<1>1. UNCHANGED store /\ k.pc = "refs" /\ WriterShape(k) /\ Stored(k, Built(w))
  BY DEF WRefs, BuildInv, StoreInv
<1>2. CASE Ended(w)
  BY <1>1, <1>2, NextOf, Reading DEF Ended, WriterIdle
<1>3. CASE Becomes(w, j)
  <2>1. pointer \in k.refs => ObjectsOf(pointer) \subseteq refs
    OBVIOUS
  <2>2. writer'[w] = j
    BY <1>3, NextOf
  <2> HIDE DEF refs
  <2>3. j.pc = "sweep" /\ j.refs = refs /\ j.calm = k.calm
    BY <1>1 DEF WriterShape
  <2> HIDE DEF j
  <2>4. UNCHANGED <<objects, recent, torn, pointer, damaged>>
    BY <1>1 DEF store
  <2>5. (recent \in Seq(Present))' /\ PointerSelectsComplete'
    BY <2>4 DEF StoreInv, PointerSelectsComplete, Complete, Intact, Present
  <2>6. Stored(writer[w], Built(w))'
    BY <1>1, <2>1, <2>2, <2>3, <2>4 DEF Stored
  <2> QED
    BY <2>5, <2>6, Storing
<1> QED
  BY <1>2, <1>3 DEF WRefs

LEMMA StoreSweep ==
  ASSUME Alone, BuildInv, StoreInv, NEW w \in Writers, WSweep(w) PROVE StoreInv'
<1> DEFINE k == writer[w]
<1>1. /\ UNCHANGED <<recent, torn, pointer, damaged>> /\ k.pc = "sweep" /\ WriterShape(k)
      /\ Stored(k, Built(w)) /\ PointerSelectsComplete
  BY DEF WSweep, BuildInv, StoreInv
<1>2. CASE Ended(w) /\ UNCHANGED objects
  BY <1>1, <1>2, NextOf, Reading DEF Ended, WriterIdle, store
<1>3. ASSUME NEW o \in objects \ k.refs, objects' = objects \ {o},
             Becomes(w, [k EXCEPT !.todo = @ \ {o}])
      PROVE  StoreInv'
  <2> DEFINE j == [k EXCEPT !.todo = @ \ {o}]
  <2>1. writer'[w] = j
    BY <1>3, NextOf
  <2>2. j.pc = "sweep" /\ j.refs = k.refs /\ j.calm = k.calm
    BY <1>1 DEF WriterShape
  <2> HIDE DEF j
  <2>3. (recent \in Seq(Present))'
    BY <1>1 DEF StoreInv, Present
  <2>4. PointerSelectsComplete'
    BY <1>1, <1>3 DEF Stored, PointerSelectsComplete, Complete, Intact, Present
  <2>5. Stored(writer[w], Built(w))'
    BY <1>1, <2>1, <2>2 DEF Stored
  <2> QED
    BY <2>3, <2>4, <2>5, Storing
<1> QED
  BY <1>2, <1>3 DEF WSweep

\* A removal cut short leaves what it did not reach.
LEMMA StoreCrash ==
  ASSUME Alone, BuildInv, StoreInv, NEW w \in Writers, Crash(w) PROVE StoreInv'
<1> DEFINE k == writer[w]
<1>1. /\ UNCHANGED <<objects, pointer, damaged>> /\ Ended(w)
      /\ Stored(k, Built(w)) /\ recent \in Seq(Present) /\ PointerSelectsComplete
  BY DEF Crash, StoreInv
<1>2. CASE UNCHANGED <<recent, torn>>
  BY <1>1, <1>2, NextOf, Reading DEF Ended, WriterIdle, store
<1>3. ASSUME NEW g \in k.todo, k.pc = "drop", recent' = Touched(g), torn' = torn \cup {g}
      PROVE  StoreInv'
  <2>1. Touched(g) \in Seq(ToSet(Touched(g))) /\ ToSet(Touched(g)) = Present \cup {g}
    BY <1>1, TouchedKeeps
  <2>2. (recent \in Seq(Present))' /\ Present' = Present \cup {g}
    BY <1>3, <2>1 DEF Present
  <2>3. PointerSelectsComplete'
    <3>1. ~damaged /\ pointer # Nothing => pointer # g
      BY <1>1, <1>3 DEF Stored
    <3> QED
      BY <1>1, <1>3, <2>2, <3>1 DEF PointerSelectsComplete, Complete, Intact
  <2>4. writer'[w].pc = "idle"
    BY <1>1, NextOf DEF Ended, WriterIdle
  <2>5. Stored(writer[w], Built(w))'
    BY <2>4 DEF Stored
  <2> QED
    BY <2>2, <2>3, <2>5, Storing
<1> QED
  BY <1>2, <1>3 DEF Crash

\* Damage is not undisturbed; an author's change leaves the store alone.
LEMMA StoreDamage == ASSUME BuildInv, StoreInv, Damage PROVE StoreInv'
<1>1. damaged' = TRUE /\ writer' = Restless /\ UNCHANGED recent
  BY DEF Damage
<1>2. (recent \in Seq(Present))' /\ PointerSelectsComplete'
  BY <1>1 DEF StoreInv, PointerSelectsComplete, Present
<1>3. ASSUME NEW w \in Writers PROVE Stored(writer[w], Built(w))'
  <2>1. writer'[w].pc = "idle" \/ ~writer'[w].calm
    <3>1. CASE writer[w].pc = "idle"
      BY <1>1, <3>1 DEF Restless
    <3>2. CASE writer[w].pc # "idle"
      <4>1. writer'[w] = [writer[w] EXCEPT !.calm = FALSE] /\ WriterShape(writer[w])
        BY <1>1, <3>2 DEF Restless, BuildInv
      <4> QED
        BY <4>1 DEF WriterShape
    <3> QED
      BY <3>1, <3>2
  <2> QED
    BY <1>1, <2>1 DEF Stored
<1> QED
  BY <1>2, <1>3 DEF StoreInv

LEMMA StoreEdit == ASSUME BuildInv, StoreInv, Edit PROVE StoreInv'
<1>1. PICK s \in Sources : writer' = Disturbed(s)
  BY DEF Edit
<1>2. UNCHANGED <<objects, recent, torn, pointer, damaged>>
  BY DEF Edit, store
<1>3. ASSUME NEW w \in Writers PROVE Stored(writer[w], Built(w))'
  <2>1. /\ writer'[w].pc = writer[w].pc /\ writer'[w].calm = writer[w].calm
        /\ writer'[w].todo = writer[w].todo /\ writer'[w].refs = writer[w].refs
        /\ Built(w)' = Built(w)
    <3>1. WriterShape(writer[w])
      BY DEF BuildInv
    <3>2. CASE writer'[w] = writer[w]
      BY <3>2 DEF Built
    <3>3. CASE writer'[w] = [writer[w] EXCEPT !.moved[s] = IF @ < 2 THEN @ + 1 ELSE 2]
      BY <3>1, <3>3 DEF WriterShape, Built
    <3> QED
      BY <1>1, <3>2, <3>3 DEF Disturbed
  <2>2. Stored(writer[w], Built(w))
    BY DEF StoreInv
  <2> QED
    BY <1>2, <2>1, <2>2 DEF Stored, Complete, Intact, Present
<1> QED
  BY <1>2, <1>3 DEF StoreInv, PointerSelectsComplete, Complete, Intact, Present

LEMMA StoreNext ==
  ASSUME Alone, BuildInv, StoreInv, [Next]_vars PROVE StoreInv'
<1>1. CASE UNCHANGED <<store, writer>>
  <2>1. UNCHANGED <<objects, recent, torn, pointer, damaged, writer>>
    BY <1>1 DEF store
  <2> QED
    BY <2>1 DEF StoreInv, Stored, Built, PointerSelectsComplete, Complete, Intact, Present
<1>2. ASSUME NEW w \in Writers,
             \/ WStart(w) \/ WHash(w) \/ WBefore(w) \/ WCatalog(w) \/ WRehash(w)
             \/ WAfter(w) \/ WObject(w) \/ WPublish(w) \/ WPoint(w)
             \/ WList(w) \/ WDrop(w) \/ WRefs(w) \/ WSweep(w) \/ Crash(w)
      PROVE  StoreInv'
  BY <1>2, StoreRead, StoreAfter, StoreObject, StorePublish, StorePoint, StoreList,
     StoreDrop, StoreRefs, StoreSweep, StoreCrash
<1>3. ASSUME NEW r \in Readers,
             \/ RStart(r) \/ RPointer(r) \/ RHash(r) \/ RState(r) \/ RObject(r)
             \/ RCompare(r) \/ RReport(r)
      PROVE  StoreInv'
  <2>1. UNCHANGED <<store, writer>>
    BY <1>3 DEF RStart, RPointer, RHash, RState, RObject, RCompare, RReport
  <2> QED
    BY <1>1, <2>1
<1>4. CASE Edit
  BY <1>4, StoreEdit
<1>5. CASE Register
  BY <1>1, <1>5 DEF Register
<1>6. CASE Damage
  BY <1>6, StoreDamage
<1>7. CASE UNCHANGED vars
  BY <1>1, <1>7 DEF vars, store
<1> QED
  BY <1>2, <1>3, <1>4, <1>5, <1>6, <1>7 DEF Next

\* While one index command works at a time, whatever it dies of or collects,
\* the pointer selects a generation all of whose objects are there, unless files
\* were damaged since the last undisturbed write (write_federated_projection,
\* _garbage_collect).
THEOREM PointerSelects == ASSUME Alone PROVE Spec => []PointerSelectsComplete
<1>1. Init => BuildInv /\ StoreInv
  BY BuildInit, StoreInit
<1>2. BuildInv /\ StoreInv /\ [Next]_vars => BuildInv' /\ StoreInv'
  BY BuildNext, StoreNext
<1>3. StoreInv => PointerSelectsComplete
  BY DEF StoreInv
<1> QED
  BY <1>1, <1>2, <1>3, PTL DEF Spec

=============================================================================

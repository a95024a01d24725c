---------------------------- MODULE CommandProofs ----------------------------
(***************************************************************************)
(* Theorems about commands that judge or print evidence, each of which has  *)
(* a small state of its own: federation finish, workstream-status, the      *)
(* artifacts and pages of a provider, intake, the call of a tool of the MCP *)
(* adapter, and the lineage of delegated work. Each part speaks of one      *)
(* instance only.                                                           *)
(***************************************************************************)
EXTENDS Integers, Sequences, FiniteSets, FiniteSetTheorems, SequenceTheorems,
        WellFoundedInduction, TLAPS

CONSTANTS Sources, Policies, Configs, Unfit, Nothing, MaxChanges
CONSTANTS Required, MaxAttempts, Attempts, Resolutions, Evidence
CONSTANTS Gens, Sections, Length, Bytes, MaxBytes, MaxPage, Keep, Exporters
CONSTANTS Numbers, Decisions
CONSTANTS Streams, Limit, Pipe, MaxWrite, Deadline, Grace, Join
CONSTANTS Paths, Contents, Trees, Requests, Records
VARIABLES man, cfg, gen, rec, fin, left
VARIABLES history, sections, verdict
VARIABLES retained, client, exporter, out
VARIABLES files, revised, proposal
VARIABLES tree, policy, mandate, request, packet, result, record, cmd, since, changes
VARIABLES child, code, stubborn, wrote, taken, buffer, thread, overflow,
          pc, due, now, timedOut, interrupted, outcome

F == INSTANCE SharedFinish
W == INSTANCE WorkstreamRecord
P == INSTANCE ProviderEvidence
I == INSTANCE Intake
B == INSTANCE BoundedExecution
N == INSTANCE Lineage

-----------------------------------------------------------------------------
(* numbers *)

LEMMA Smallest ==
  ASSUME NEW S \in SUBSET Nat, S # {} PROVE \E x \in S : \A y \in S : x <= y
<1>1. IsWellFoundedOn(OpToRel(<, Nat), Nat)
  BY NatLessThanWellFounded
<1>2. PICK x \in S : \A y \in S : ~ (<<y, x>> \in OpToRel(<, Nat))
  BY <1>1, WFMin
<1>3. \A y \in S : ~ (y < x)
  BY <1>2, Zenon DEF OpToRel
<1> QED
  BY <1>3

LEMMA Largest ==
  ASSUME NEW n \in Nat, NEW S \in SUBSET (1 .. n), S # {}
  PROVE  \E x \in S : \A y \in S : y <= x
<1> DEFINE T == {n - x : x \in S}
<1>1. T \in SUBSET Nat
  OBVIOUS
<1>2. T # {}
  <2>1. PICK x \in S : TRUE
    OBVIOUS
  <2>2. n - x \in T
    OBVIOUS
  <2> QED
    BY <2>2
<1>3. PICK m \in T : \A y \in T : m <= y
  <2> HIDE DEF T
  <2> QED
    BY <1>1, <1>2, Smallest
<1>4. PICK x \in S : m = n - x
  OBVIOUS
<1>5. ASSUME NEW y \in S PROVE y <= x
  <2>1. n - y \in T
    OBVIOUS
  <2>2. n - x <= n - y
    BY <1>3, <1>4, <2>1
  <2>3. x \in 1 .. n /\ y \in 1 .. n
    OBVIOUS
  <2> QED
    BY <2>2, <2>3
<1> QED
  BY <1>5

-----------------------------------------------------------------------------
(* finite sets *)

\* The image of a finite set is finite, and as large if no two are the same.
LEMMA ImageIs ==
  ASSUME NEW D, IsFiniteSet(D), NEW f, DOMAIN f = D
  PROVE  LET T == {f[d] : d \in D} IN
         /\ IsFiniteSet(T)
         /\ (\A c, d \in D : f[c] = f[d] => c = d) => Cardinality(T) = Cardinality(D)
<1> DEFINE T == {f[d] : d \in D}
           h == [d \in D |-> f[d]]
<1>1. h \in Surjection(D, T)
  BY DEF Surjection
<1>2. IsFiniteSet(T)
  <2> HIDE DEF h, T
  <2> QED
    BY <1>1, FS_Surjection
<1>3. ASSUME \A c, d \in D : f[c] = f[d] => c = d PROVE Cardinality(T) = Cardinality(D)
  <2>1. h \in Injection(D, T)
    BY <1>3 DEF Injection, IsInjective
  <2> HIDE DEF h, T
  <2> QED
    BY <1>1, <2>1, FS_Surjection
<1> QED
  BY <1>2, <1>3

LEMMA Same ==
  /\ \A S : P!Cardinality(S) = Cardinality(S)
  /\ \A S : P!IsFiniteSet(S) <=> IsFiniteSet(S)
BY DEF P!Cardinality, Cardinality, P!IsFiniteSet, IsFiniteSet

\* A strict order on the keys of a finite set puts its members in their places.
LEMMA PlacesAre ==
  ASSUME NEW S, IsFiniteSet(S),
         \A x \in S : x.key \in Nat \X Nat,
         \A x, y \in S : x.key = y.key => x = y
  PROVE  LET n == P!Cardinality(S)
             place(x) == P!Cardinality({y \in S : P!Precedes(y.key, x.key)}) + 1
             r == [i \in 1 .. n |-> CHOOSE x \in S : place(x) = i] IN
         /\ n \in Nat /\ r \in [1 .. n -> S]
         /\ \A i, j \in 1 .. n : i < j => P!Precedes(r[i].key, r[j].key)
         /\ \A i, j \in 1 .. n : r[i] = r[j] => i = j
         /\ \A x \in S : \E i \in 1 .. n : r[i] = x
<1> DEFINE n == P!Cardinality(S)
           before(x) == {y \in S : P!Precedes(y.key, x.key)}
           f == [x \in S |-> P!Cardinality(before(x)) + 1]
           r == [i \in 1 .. n |-> CHOOSE x \in S : f[x] = i]
<1>1. n \in Nat /\ n = Cardinality(S)
  BY FS_CardinalityType, Same
<1>2. ASSUME NEW x \in S, NEW y \in S
      PROVE  /\ x = y \/ P!Precedes(x.key, y.key) \/ P!Precedes(y.key, x.key)
             /\ ~P!Precedes(x.key, x.key)
             /\ \A z \in S : P!Precedes(z.key, x.key) /\ P!Precedes(x.key, y.key)
                               => P!Precedes(z.key, y.key)
  <2>1. \A z \in S : z.key[1] \in Nat /\ z.key[2] \in Nat /\ z.key = <<z.key[1], z.key[2]>>
    OBVIOUS
  <2>2. x.key[1] = y.key[1] /\ x.key[2] = y.key[2] => x = y
    BY <2>1
  <2> QED
    BY <2>1, <2>2 DEF P!Precedes
<1>3. ASSUME NEW x \in S
      PROVE  /\ IsFiniteSet(before(x)) /\ Cardinality(before(x)) \in Nat
             /\ f[x] = Cardinality(before(x)) + 1 /\ f[x] \in 1 .. n
  <2>1. before(x) \in SUBSET (S \ {x})
    BY <1>2
  <2>2. IsFiniteSet(S \ {x}) /\ Cardinality(S \ {x}) = n - 1
    BY <1>1, FS_RemoveElement
  <2>0. f[x] = Cardinality(before(x)) + 1
    BY Same
  <2> HIDE DEF before, n, f
  <2>3. IsFiniteSet(before(x)) /\ Cardinality(before(x)) <= n - 1
    BY <2>1, <2>2, FS_Subset
  <2>4. Cardinality(before(x)) \in Nat
    BY <2>3, FS_CardinalityType
  <2> QED
    BY <1>1, <2>0, <2>3, <2>4
<1>4. ASSUME NEW x \in S, NEW y \in S, P!Precedes(x.key, y.key) PROVE f[x] < f[y]
  <2>1. before(x) \cup {x} \in SUBSET before(y) /\ x \notin before(x)
    BY <1>2, <1>4
  <2> HIDE DEF before, n, f
  <2>2. Cardinality(before(x) \cup {x}) = Cardinality(before(x)) + 1
    BY <1>3, <2>1, FS_AddElement
  <2>3. Cardinality(before(x) \cup {x}) <= Cardinality(before(y))
    BY <1>3, <2>1, FS_Subset
  <2> QED
    BY <1>3, <2>2, <2>3
<1> HIDE DEF n, before
<1>5. f \in [S -> 1 .. n]
  BY <1>3
<1> HIDE DEF f
<1>6. \A x \in S : f[x] \in Nat
  BY <1>1, <1>5
<1>7. \A x, y \in S : f[x] = f[y] => x = y
  BY <1>2, <1>4, <1>6
<1>8. \A i \in 1 .. n : \E x \in S : f[x] = i
  <2>1. f \in Injection(S, 1 .. n)
    BY <1>5, <1>7 DEF Injection, IsInjective
  <2>2. IsFiniteSet(1 .. n) /\ Cardinality(1 .. n) = n
    BY <1>1, FS_Interval
  <2>3. f \in Surjection(S, 1 .. n)
    BY <1>1, <2>1, <2>2, FS_Injection
  <2> QED
    BY <2>3 DEF Surjection
<1>9. \A i \in 1 .. n : r[i] \in S /\ f[r[i]] = i
  BY <1>8
<1>10. r \in [1 .. n -> S]
  BY <1>9
<1> HIDE DEF r
<1>11. \A i, j \in 1 .. n : r[i] = r[j] => i = j
  BY <1>9
<1>12. ASSUME NEW i \in 1 .. n, NEW j \in 1 .. n, i < j PROVE P!Precedes(r[i].key, r[j].key)
  <2>1. f[r[i]] = i /\ f[r[j]] = j /\ i \in Nat /\ j \in Nat
    BY <1>1, <1>9
  <2>2. r[i] # r[j] /\ ~P!Precedes(r[j].key, r[i].key)
    BY <1>4, <1>9, <1>12, <2>1
  <2> QED
    BY <1>2, <1>9, <2>2
<1>13. ASSUME NEW x \in S PROVE \E i \in 1 .. n : r[i] = x
  <2>1. f[x] \in 1 .. n /\ f[r[f[x]]] = f[x]
    BY <1>5, <1>9
  <2> QED
    BY <1>7, <1>9, <2>1
<1>14. r = [i \in 1 .. n |-> CHOOSE x \in S :
              P!Cardinality({y \in S : P!Precedes(y.key, x.key)}) + 1 = i]
  <2>1. \A i \in 1 .. n : (CHOOSE x \in S : f[x] = i)
          = (CHOOSE x \in S : P!Cardinality(before(x)) + 1 = i)
    BY DEF f
  <2> QED
    BY <2>1 DEF r, before
<1> QED
  BY <1>1, <1>10, <1>11, <1>12, <1>13, <1>14 DEF n

-----------------------------------------------------------------------------
(* federation finish *)

Phases == {"idle", "hash", "status", "config", "evidence", "records", "manifest",
           "recheck", "packet"}
\* The phases in which every participant's evidence has been found, or is.
Finding == {"config", "evidence", "records"}
Found == {"manifest", "recheck", "packet"}

Worlds == [man : Policies, cfg : [Sources -> Configs]]
Command ==
  [pc : Phases, rows : SUBSET Sources, ws : Policies \cup {Nothing},
   hash : Policies \cup {Nothing}, conf : [Sources -> Configs \cup {Nothing}],
   todo : SUBSET Sources, stood : SUBSET Worlds, moved : SUBSET (Sources \cup {0}),
   twice : BOOLEAN, undone : SUBSET Sources]

FinishType ==
  /\ man \in Policies /\ cfg \in [Sources -> Configs]
  /\ DOMAIN gen = Sources /\ DOMAIN rec = Sources
  /\ fin \in Command

\* An applied write that was selected through a manifest is one it allows.
Allowed == \A s \in Sources : gen[s].man \in Policies => s \in gen[s].man

\* The participants whose evidence and records have been accepted, and those
\* whose configuration has been read.
Accepted == IF fin.pc \in Finding THEN fin.rows \ fin.todo
            ELSE IF fin.pc \in Found THEN fin.rows ELSE {}
Read == IF fin.pc \in {"evidence", "records"}
        THEN Accepted \cup {F!First(fin.todo)} ELSE Accepted

\* What stands between two looks at a file: it has not changed, or it is noted.
FinishInv ==
  /\ FinishType /\ Allowed
  /\ fin.pc # "idle" =>
       /\ F!World \in fin.stood /\ fin.rows # {}
       /\ fin.undone \subseteq {s \in fin.rows : rec[s] = "recovered"}
  /\ fin.pc \notin {"idle", "hash"} => fin.hash \in Policies
  /\ fin.pc \in Finding \cup {"recheck"} =>
       fin.todo # {} /\ fin.todo \subseteq fin.rows
  /\ fin.pc = "manifest" => fin.todo = fin.rows
  /\ \A s \in Accepted :
       /\ gen[s] = [state |-> "applied", ours |-> TRUE,
                    man |-> fin.hash, cfg |-> fin.conf[s]]
       /\ s \notin fin.undone
  /\ fin.pc = "records" =>
       LET s == F!First(fin.todo) IN
       gen[s] = [state |-> "applied", ours |-> TRUE,
                 man |-> fin.hash, cfg |-> fin.conf[s]]
  /\ fin.pc \in Finding \cup {"manifest"} =>
       \A s \in Read : cfg[s] = fin.conf[s] \/ s \in fin.moved
  /\ fin.pc \in {"recheck", "packet"} =>
       fin.twice \/ \E w \in fin.stood : w.man = fin.hash /\
         \A s \in fin.rows :
           \/ w.cfg[s] = fin.conf[s]
           \/ fin.pc = "recheck" /\ s \in fin.todo /\ s \in fin.moved /\ cfg[s] # fin.conf[s]

LEMMA Least ==
  ASSUME NEW S, S \subseteq Nat, S # {}
  PROVE  F!First(S) \in S
BY Smallest DEF F!First

LEMMA FinishInit ==
  ASSUME F!Registered, F!Init
  PROVE  FinishInv
<1>1. F!Waiting \in Command
  BY DEF F!Waiting, Command, Phases
<1>2. FinishType /\ fin.pc = "idle"
  BY <1>1 DEF F!Init, FinishType, F!Waiting
<1>3. \A s \in Sources : gen[s].man = Nothing
  BY DEF F!Init, F!NoGen
<1>4. Allowed
  BY <1>3 DEF Allowed, F!Registered
<1> QED
  BY <1>2, <1>4 DEF FinishInv, Accepted, Finding, Found

\* A journal goes on: evidence that was accepted stands as it is.
LEMMA FinishWrite ==
  ASSUME F!Registered, FinishInv, NEW s \in Sources, F!Write(s) \/ F!Recover(s)
  PROVE  FinishInv'
<1>1. UNCHANGED <<man, cfg, fin>>
  BY DEF F!Write, F!Recover
<1>2. /\ UNCHANGED <<Accepted, Read, F!World>>
      /\ DOMAIN gen' = Sources /\ DOMAIN rec' = Sources
  BY <1>1 DEF Accepted, Read, F!World, FinishInv, FinishType, F!Write, F!Recover
<1>3. \A r \in Sources : gen[r].state = "applied" => gen'[r] = gen[r]
  BY DEF FinishInv, FinishType, F!Write, F!Recover
<1>4. \A r \in Sources : rec[r] = "recovered" => rec'[r] = "recovered"
  BY DEF FinishInv, FinishType, F!Write, F!Recover
<1>5. Allowed'
  <2>1. CASE F!Recover(s)
    BY <2>1 DEF F!Recover, FinishInv, Allowed
  <2>2. CASE F!Write(s)
    <3>1. gen'[s].man \in Policies => s \in gen'[s].man
      <4>1. CASE s \in man /\ gen' = [gen EXCEPT ![s] =
                   [state |-> "applied", ours |-> TRUE, man |-> man, cfg |-> cfg[s]]]
        BY <4>1 DEF FinishInv, FinishType
      <4>2. ASSUME NEW ours \in BOOLEAN, NEW state \in {"applied", "rolled-back"},
                   gen' = [gen EXCEPT ![s] =
                             [F!NoGen EXCEPT !.state = state, !.ours = ours]]
            PROVE  gen'[s].man = Nothing
        BY <4>2 DEF F!NoGen, FinishInv, FinishType
      <4> QED
        BY <2>2, <4>1, <4>2 DEF F!Write, F!Registered
    <3>2. \A r \in Sources \ {s} : gen'[r] = gen[r]
      BY <2>2 DEF F!Write, FinishInv, FinishType
    <3> QED
      BY <3>1, <3>2 DEF FinishInv, Allowed
  <2> QED
    BY <2>1, <2>2
<1>6. FinishType'
  BY <1>1, <1>2 DEF FinishInv, FinishType
<1>7. Accepted \subseteq Sources /\ fin.rows \subseteq Sources
  BY DEF Accepted, FinishInv, FinishType, Command
<1>8. ASSUME fin.pc = "records"
      PROVE  LET f == F!First(fin.todo) IN
             gen'[f] = [state |-> "applied", ours |-> TRUE,
                        man |-> fin.hash, cfg |-> fin.conf[f]]
  <2> DEFINE f == F!First(fin.todo)
  <2>1. f \in Sources
    <3>1. fin.todo # {} /\ fin.todo \subseteq Nat /\ fin.todo \subseteq Sources
      BY <1>8, <1>7 DEF FinishInv, F!Registered, Finding
    <3> QED
      BY <3>1, Least
  <2>2. gen[f] = [state |-> "applied", ours |-> TRUE,
                  man |-> fin.hash, cfg |-> fin.conf[f]]
    BY <1>8 DEF FinishInv
  <2> QED
    BY <1>3, <2>1, <2>2
<1>9. \A r \in Accepted :
        /\ gen'[r] = [state |-> "applied", ours |-> TRUE,
                      man |-> fin.hash, cfg |-> fin.conf[r]]
        /\ r \notin fin.undone
  BY <1>3, <1>7 DEF FinishInv
<1> QED
  BY <1>1, <1>2, <1>4, <1>5, <1>6, <1>7, <1>8, <1>9 DEF FinishInv

\* A file changes: the command's history notes which one, and what stood.
LEMMA FinishChange ==
  ASSUME F!Registered, FinishInv,
         F!ChangeManifest \/ \E s \in Sources : F!Configure(s)
  PROVE  FinishInv'
<1>1. /\ UNCHANGED <<gen, rec>>
      /\ man' \in Policies /\ cfg' \in [Sources -> Configs]
  BY DEF F!ChangeManifest, F!Configure, FinishInv, FinishType
<1>2. PICK f \in Sources \cup {0} :
        /\ fin' = F!Noted(f, man', cfg')
        /\ \A s \in Sources : cfg'[s] = cfg[s] \/ s = f
  <2>1. CASE F!ChangeManifest
    BY <2>1 DEF F!ChangeManifest
  <2>2. CASE \E s \in Sources : F!Configure(s)
    BY <2>2 DEF F!Configure, FinishInv, FinishType
  <2> QED
    BY <2>1, <2>2
<1>3. CASE fin.pc = "idle"
  BY <1>1, <1>2, <1>3
     DEF F!Noted, FinishInv, FinishType, Allowed, Accepted, Read, Finding, Found
<1>4. CASE fin.pc # "idle"
  <2>1. fin' = [fin EXCEPT !.stood = @ \cup {[man |-> man', cfg |-> cfg']},
                           !.moved = @ \cup {f}, !.twice = @ \/ f \in fin.moved]
    BY <1>2, <1>4 DEF F!Noted
  <2>2. fin \in Command
    BY DEF FinishInv, FinishType
  <2>3. /\ fin'.pc = fin.pc /\ fin'.rows = fin.rows /\ fin'.hash = fin.hash
        /\ fin'.conf = fin.conf /\ fin'.todo = fin.todo /\ fin'.undone = fin.undone
        /\ fin'.stood = fin.stood \cup {[man |-> man', cfg |-> cfg']}
        /\ fin'.moved = fin.moved \cup {f}
        /\ fin'.twice = (fin.twice \/ f \in fin.moved)
    BY <2>1, <2>2 DEF Command
  <2>4. FinishType' /\ Allowed'
    <3>1. fin' \in Command
      <4>1. [man |-> man', cfg |-> cfg'] \in Worlds
        BY <1>1 DEF Worlds
      <4>2. fin.stood \cup {[man |-> man', cfg |-> cfg']} \in SUBSET Worlds
        BY <2>2, <4>1 DEF Command
      <4>3. fin.moved \cup {f} \in SUBSET (Sources \cup {0})
        BY <2>2 DEF Command
      <4>4. (fin.twice \/ f \in fin.moved) \in BOOLEAN
        OBVIOUS
      <4> HIDE DEF Worlds
      <4> QED
        BY <2>1, <2>2, <4>2, <4>3, <4>4 DEF Command
    <3> QED
      BY <1>1, <3>1 DEF FinishInv, FinishType, Allowed
  <2>5. Accepted' = Accepted /\ Read' = Read
    BY <2>3 DEF Accepted, Read
  <2>6. F!World' \in fin'.stood
    BY <2>3 DEF F!World
  <2>7. fin.rows \subseteq Sources /\ Accepted \subseteq fin.rows
    BY <2>2 DEF Command, Accepted
  <2>8. fin.pc \in Finding \cup {"manifest"} =>
          \A s \in Read : cfg'[s] = fin.conf[s] \/ s \in fin'.moved
    <3> SUFFICES ASSUME fin.pc \in Finding \cup {"manifest"}, NEW s \in Read
                 PROVE  cfg'[s] = fin.conf[s] \/ s \in fin'.moved
      OBVIOUS
    <3>1. s \in Sources
      <4>1. fin.pc \in Finding => F!First(fin.todo) \in Sources
        <5>1. fin.pc \in Finding =>
                fin.todo # {} /\ fin.todo \subseteq Nat /\ fin.todo \subseteq Sources
          BY <2>7 DEF FinishInv, F!Registered
        <5> QED
          BY <5>1, Least
      <4> QED
        BY <2>7, <4>1 DEF Read, Finding
    <3>2. cfg[s] = fin.conf[s] \/ s \in fin.moved
      BY DEF FinishInv
    <3> QED
      BY <1>2, <2>3, <3>1, <3>2
  <2>9. ASSUME fin.pc \in {"recheck", "packet"}, ~fin'.twice
        PROVE  \E w \in fin'.stood : w.man = fin.hash /\
                 \A s \in fin.rows :
                   \/ w.cfg[s] = fin.conf[s]
                   \/ fin.pc = "recheck" /\ s \in fin.todo /\ s \in fin'.moved
                      /\ cfg'[s] # fin.conf[s]
    <3>1. ~fin.twice /\ f \notin fin.moved
      BY <2>3, <2>9
    <3>2. PICK w \in fin.stood : w.man = fin.hash /\
            \A s \in fin.rows :
              \/ w.cfg[s] = fin.conf[s]
              \/ fin.pc = "recheck" /\ s \in fin.todo /\ s \in fin.moved
                 /\ cfg[s] # fin.conf[s]
      BY <2>9, <3>1 DEF FinishInv
    <3> QED
      BY <1>2, <2>3, <2>7, <3>1, <3>2
  <2>10. /\ fin.undone \subseteq {s \in fin.rows : rec'[s] = "recovered"}
         /\ fin.rows # {}
    BY <1>1, <1>4 DEF FinishInv
  <2>11. \A s \in Accepted :
           /\ gen'[s] = [state |-> "applied", ours |-> TRUE,
                         man |-> fin.hash, cfg |-> fin.conf[s]]
           /\ s \notin fin.undone
    BY <1>1 DEF FinishInv
  <2>12. fin.pc = "records" =>
           LET s == F!First(fin.todo) IN
           gen'[s] = [state |-> "applied", ours |-> TRUE,
                      man |-> fin.hash, cfg |-> fin.conf[s]]
    BY <1>1 DEF FinishInv
  <2>13. /\ fin.pc \notin {"idle", "hash"} => fin.hash \in Policies
         /\ fin.pc \in Finding \cup {"recheck"} =>
              fin.todo # {} /\ fin.todo \subseteq fin.rows
         /\ fin.pc = "manifest" => fin.todo = fin.rows
    BY DEF FinishInv
  <2> HIDE DEF FinishInv
  <2> QED
    BY <2>3, <2>4, <2>5, <2>6, <2>8, <2>9, <2>10, <2>11, <2>12, <2>13 DEF FinishInv
<1> QED
  BY <1>3, <1>4

\* The command waits again: it has printed its packet or was refused.
LEMMA FinishEnds ==
  ASSUME F!Registered, FinishInv, F!Refuses
  PROVE  FinishInv'
<1>1. F!Waiting \in Command
  BY DEF F!Waiting, Command, Phases
<1>2. fin' = F!Waiting /\ UNCHANGED <<man, cfg, gen, rec>>
  BY DEF F!Refuses, F!Goes
<1>3. FinishType' /\ fin'.pc = "idle"
  BY <1>1, <1>2 DEF FinishInv, FinishType, F!Waiting
<1>4. Allowed'
  BY <1>2 DEF FinishInv, Allowed
<1> QED
  BY <1>3, <1>4 DEF FinishInv, Accepted, Finding, Found

LEMMA FinishBegins ==
  ASSUME F!Registered, FinishInv, F!FStart \/ F!FHash \/ F!FStatus
  PROVE  FinishInv'
<1>1. fin \in Command /\ man \in Policies /\ cfg \in [Sources -> Configs]
  BY DEF FinishInv, FinishType
<1>2. F!World \in Worlds
  BY <1>1 DEF F!World, Worlds
<1>3. CASE F!FStart
  <2>1. PICK rows \in (SUBSET Sources) \ {{}} :
          F!Goes([F!Waiting EXCEPT !.pc = "hash", !.ws = man, !.rows = rows,
                    !.stood = {F!World}, !.undone = {s \in rows : rec[s] = "recovered"}])
    BY <1>3 DEF F!FStart
  <2>2. UNCHANGED <<man, cfg, gen, rec>> /\ F!World' = F!World
    BY <2>1 DEF F!Goes, F!World
  <2>3. /\ fin'.pc = "hash" /\ fin'.rows = rows /\ fin'.stood = {F!World}
        /\ fin'.undone = {s \in rows : rec[s] = "recovered"}
    BY <2>1 DEF F!Goes, F!Waiting
  <2>4. fin' \in Command
    <3>1. {s \in rows : rec[s] = "recovered"} \in SUBSET Sources
      OBVIOUS
    <3>2. {F!World} \in SUBSET Worlds
      BY <1>2
    <3> HIDE DEF Worlds
    <3> QED
      BY <1>1, <2>1, <3>1, <3>2 DEF F!Goes, F!Waiting, Command, Phases
  <2>5. Accepted' = {} /\ rows # {}
    BY <2>3 DEF Accepted, Finding, Found
  <2>6. FinishType' /\ Allowed'
    BY <2>2, <2>4 DEF FinishInv, FinishType, Allowed
  <2>7. F!World' \in fin'.stood /\ fin'.rows # {} /\ man' \in Policies
    BY <1>1, <2>2, <2>3, <2>5
  <2>8. fin'.undone \subseteq {s \in fin'.rows : rec'[s] = "recovered"}
    BY <2>2, <2>3
  <2> QED
    BY <2>3, <2>5, <2>6, <2>7, <2>8 DEF FinishInv, Finding
<1>4. CASE F!FHash
  <2>1. fin' = [fin EXCEPT !.pc = "status", !.hash = man] /\ fin.pc = "hash"
    BY <1>4 DEF F!FHash, F!Goes
  <2>2. UNCHANGED <<man, cfg, gen, rec>> /\ F!World' = F!World
    BY <1>4 DEF F!FHash, F!Goes, F!World
  <2>3. fin' \in Command
    BY <1>1, <2>1 DEF Command, Phases
  <2>4. /\ fin'.pc = "status" /\ fin'.rows = fin.rows /\ fin'.stood = fin.stood
        /\ fin'.undone = fin.undone
    BY <1>1, <2>1 DEF Command
  <2> QED
    BY <2>1, <2>2, <2>3, <2>4 DEF FinishInv, FinishType, Allowed, Accepted, Finding, Found
<1>5. CASE F!FStatus /\ ~F!Refuses
  <2>1. fin' = [fin EXCEPT !.todo = fin.rows, !.pc = "config"] /\ fin.pc = "status"
    BY <1>5 DEF F!FStatus, F!Goes
  <2>2. UNCHANGED <<man, cfg, gen, rec>> /\ F!World' = F!World
    BY <1>5 DEF F!FStatus, F!Goes, F!World
  <2>3. fin' \in Command
    BY <1>1, <2>1 DEF Command, Phases
  <2>4. /\ fin'.pc = "config" /\ fin'.rows = fin.rows /\ fin'.stood = fin.stood
        /\ fin'.undone = fin.undone /\ fin'.todo = fin.rows /\ fin'.hash = fin.hash
    BY <1>1, <2>1 DEF Command
  <2>5. Accepted' = {} /\ Read' = {}
    BY <2>4 DEF Accepted, Read, Finding
  <2>6. fin.hash \in Policies
    BY <2>1 DEF FinishInv
  <2> QED
    BY <2>1, <2>2, <2>3, <2>4, <2>5, <2>6 DEF FinishInv, FinishType, Allowed
<1> QED
  BY <1>3, <1>4, <1>5, FinishEnds

\* A participant's configuration and the evidence of its generation are read.
LEMMA FinishReads ==
  ASSUME F!Registered, FinishInv, F!FConfig \/ F!FEvidence
  PROVE  FinishInv'
<1> DEFINE s == F!First(fin.todo)
<1>1. fin \in Command /\ fin.pc \in {"config", "evidence"}
  BY DEF FinishInv, FinishType, F!FConfig, F!FEvidence
<1>2. fin.todo # {} /\ fin.todo \subseteq fin.rows /\ fin.rows \subseteq Sources
  BY <1>1 DEF FinishInv, Finding, Command
<1>3. s \in fin.todo
  BY <1>2, Least DEF F!Registered
<1>4. Accepted = fin.rows \ fin.todo
  BY <1>1 DEF Accepted, Finding
<1> HIDE DEF s
<1>5. CASE F!FConfig /\ ~F!Refuses
  <2>1. fin' = [fin EXCEPT !.pc = "evidence", !.conf[s] = cfg[s]]
    BY <1>5 DEF F!FConfig, F!Goes, s
  <2>2. UNCHANGED <<man, cfg, gen, rec>> /\ F!World' = F!World
    BY <1>5 DEF F!FConfig, F!Goes, F!World
  <2>3. /\ fin'.pc = "evidence" /\ fin'.rows = fin.rows /\ fin'.stood = fin.stood
        /\ fin'.undone = fin.undone /\ fin'.todo = fin.todo /\ fin'.hash = fin.hash
        /\ fin'.moved = fin.moved /\ fin'.conf = [fin.conf EXCEPT ![s] = cfg[s]]
    BY <1>1, <2>1 DEF Command
  <2>4. cfg[s] \in Configs /\ s \in Sources
    BY <1>2, <1>3 DEF FinishInv, FinishType
  <2>5. FinishType' /\ Allowed'
    <3>1. fin' \in Command
      BY <1>1, <2>1, <2>4 DEF Command, Phases
    <3> QED
      BY <2>2, <3>1 DEF FinishInv, FinishType, Allowed
  <2>6. Accepted' = Accepted /\ Read' = Accepted \cup {s}
    BY <1>4, <2>3 DEF Accepted, Read, Finding, s
  <2>7. \A r \in Accepted : fin'.conf[r] = fin.conf[r]
    BY <1>1, <1>2, <1>3, <1>4, <2>3, <2>4 DEF Command
  <2>8. fin'.conf[s] = cfg[s]
    BY <1>1, <2>3, <2>4 DEF Command
  <2>9. \A r \in Accepted : cfg[r] = fin.conf[r] \/ r \in fin.moved
    BY <1>1, <1>5 DEF FinishInv, Finding, Read, F!FConfig
  <2>10. \A r \in Accepted :
           /\ gen[r] = [state |-> "applied", ours |-> TRUE,
                        man |-> fin.hash, cfg |-> fin.conf[r]]
           /\ r \notin fin.undone
    BY DEF FinishInv
  <2>11. /\ F!World \in fin.stood /\ fin.rows # {} /\ fin.hash \in Policies
         /\ fin.undone \subseteq {r \in fin.rows : rec[r] = "recovered"}
    BY <1>1 DEF FinishInv
  <2> QED
    BY <1>2, <2>2, <2>3, <2>5, <2>6, <2>7, <2>8, <2>9, <2>10, <2>11 DEF FinishInv
<1>6. CASE F!FEvidence /\ ~F!Refuses
  <2>1. /\ fin' = [fin EXCEPT !.pc = "records"] /\ fin.pc = "evidence"
        /\ gen[s] = [state |-> "applied", ours |-> TRUE,
                     man |-> fin.hash, cfg |-> fin.conf[s]]
    BY <1>6 DEF F!FEvidence, F!Goes, s
  <2>2. UNCHANGED <<man, cfg, gen, rec>> /\ F!World' = F!World
    BY <1>6 DEF F!FEvidence, F!Goes, F!World
  <2>3. /\ fin'.pc = "records" /\ fin'.rows = fin.rows /\ fin'.stood = fin.stood
        /\ fin'.undone = fin.undone /\ fin'.todo = fin.todo /\ fin'.hash = fin.hash
        /\ fin'.moved = fin.moved /\ fin'.conf = fin.conf
    BY <1>1, <2>1 DEF Command
  <2>4. FinishType' /\ Allowed'
    <3>1. fin' \in Command
      BY <1>1, <2>1 DEF Command, Phases
    <3> QED
      BY <2>2, <3>1 DEF FinishInv, FinishType, Allowed
  <2>5. Accepted' = Accepted /\ Read' = Read
    BY <2>1, <2>3 DEF Accepted, Read, Finding
  <2>6. \A r \in Read : cfg[r] = fin.conf[r] \/ r \in fin.moved
    BY <2>1 DEF FinishInv, Finding
  <2>7. \A r \in Accepted :
          /\ gen[r] = [state |-> "applied", ours |-> TRUE,
                       man |-> fin.hash, cfg |-> fin.conf[r]]
          /\ r \notin fin.undone
    BY DEF FinishInv
  <2>8. /\ F!World \in fin.stood /\ fin.rows # {} /\ fin.hash \in Policies
        /\ fin.undone \subseteq {r \in fin.rows : rec[r] = "recovered"}
    BY <1>1 DEF FinishInv
  <2>9. F!First(fin'.todo) = s
    BY <2>3 DEF s
  <2> QED
    BY <1>2, <2>1, <2>2, <2>3, <2>4, <2>5, <2>6, <2>7, <2>8, <2>9 DEF FinishInv
<1> QED
  BY <1>5, <1>6, FinishEnds

\* A generation without a recovery record was not undone when the command began.
LEMMA FinishRecords ==
  ASSUME F!Registered, FinishInv, F!FRecords
  PROVE  FinishInv'
<1> DEFINE s == F!First(fin.todo)
<1>1. fin \in Command /\ fin.pc = "records"
  BY DEF FinishInv, FinishType, F!FRecords
<1>2. fin.todo # {} /\ fin.todo \subseteq fin.rows /\ fin.rows \subseteq Sources
  BY <1>1 DEF FinishInv, Finding, Command
<1>3. s \in fin.todo
  BY <1>2, Least DEF F!Registered
<1>4. Accepted = fin.rows \ fin.todo /\ Read = Accepted \cup {s}
  BY <1>1 DEF Accepted, Read, Finding
<1>5. /\ gen[s] = [state |-> "applied", ours |-> TRUE,
                   man |-> fin.hash, cfg |-> fin.conf[s]]
      /\ \A r \in Read : cfg[r] = fin.conf[r] \/ r \in fin.moved
      /\ \A r \in Accepted :
           /\ gen[r] = [state |-> "applied", ours |-> TRUE,
                        man |-> fin.hash, cfg |-> fin.conf[r]]
           /\ r \notin fin.undone
      /\ F!World \in fin.stood /\ fin.rows # {} /\ fin.hash \in Policies
      /\ fin.undone \subseteq {r \in fin.rows : rec[r] = "recovered"}
  BY <1>1 DEF FinishInv, Finding
<1>6. CASE ~F!Refuses
  <2>1. /\ rec[s] = "none" /\ UNCHANGED <<man, cfg, gen, rec>>
        /\ fin' = F!Advance(fin, "config", "manifest", fin.rows)
    BY <1>6 DEF F!FRecords, F!Goes
  <2>2. s \notin fin.undone /\ F!World' = F!World
    BY <1>5, <2>1 DEF F!World
  <2>3. \/ /\ fin.todo = {s}
           /\ fin' = [fin EXCEPT !.pc = "manifest", !.todo = fin.rows]
        \/ /\ fin.todo # {s}
           /\ fin' = [fin EXCEPT !.pc = "config", !.todo = fin.todo \ {s}]
    BY <2>1 DEF F!Advance
  <2>4. /\ fin'.rows = fin.rows /\ fin'.stood = fin.stood
        /\ fin'.undone = fin.undone /\ fin'.hash = fin.hash
        /\ fin'.moved = fin.moved /\ fin'.conf = fin.conf
    BY <1>1, <2>3 DEF Command
  <2>5. \/ fin'.pc = "manifest" /\ fin'.todo = fin.rows /\ fin.todo = {s}
        \/ fin'.pc = "config" /\ fin'.todo = fin.todo \ {s} /\ fin.todo # {s}
    BY <1>1, <2>3 DEF Command
  <2>6. FinishType' /\ Allowed'
    <3>1. fin' \in Command
      <4>1. fin.rows \in SUBSET Sources /\ fin.todo \ {s} \in SUBSET Sources
        BY <1>2
      <4> HIDE DEF s
      <4> QED
        BY <1>1, <2>3, <4>1 DEF Command, Phases
    <3> QED
      BY <2>1, <3>1 DEF FinishInv, FinishType, Allowed
  <2>7. Accepted' = Read /\ Read' = Read
    <3>1. Accepted' = Read
      BY <1>2, <1>3, <1>4, <2>4, <2>5 DEF Accepted, Finding, Found
    <3> QED
      BY <2>5, <3>1 DEF Read
  <2> HIDE DEF s
  <2>8. fin'.pc = "config" => fin'.todo # {} /\ fin'.todo \subseteq fin.rows
    BY <1>2, <1>3, <2>5
  <2> QED
    BY <1>4, <1>5, <2>1, <2>2, <2>4, <2>5, <2>6, <2>7, <2>8 DEF FinishInv, Finding
<1> QED
  BY <1>6, FinishEnds

\* The manifest is compared last of what was read first: whatever differs now
\* has changed since it was read.
LEMMA FinishManifest ==
  ASSUME F!Registered, FinishInv, F!FManifest
  PROVE  FinishInv'
<1>1. fin \in Command /\ fin.pc = "manifest"
  BY DEF FinishInv, FinishType, F!FManifest
<1>2. CASE ~F!Refuses
  <2>1. /\ man = fin.hash /\ UNCHANGED <<man, cfg, gen, rec>>
        /\ fin' = [fin EXCEPT !.pc = "recheck"]
    BY <1>2 DEF F!FManifest, F!Goes
  <2>2. /\ fin'.pc = "recheck" /\ fin'.rows = fin.rows /\ fin'.stood = fin.stood
        /\ fin'.undone = fin.undone /\ fin'.hash = fin.hash /\ fin'.todo = fin.todo
        /\ fin'.moved = fin.moved /\ fin'.conf = fin.conf
    BY <1>1, <2>1 DEF Command
  <2>3. FinishType' /\ Allowed'
    <3>1. fin' \in Command
      BY <1>1, <2>1 DEF Command, Phases
    <3> QED
      BY <2>1, <3>1 DEF FinishInv, FinishType, Allowed
  <2>4. Accepted = fin.rows /\ Accepted' = fin.rows /\ Read = fin.rows
    BY <1>1, <2>2 DEF Accepted, Read, Finding, Found
  <2>5. /\ F!World \in fin.stood /\ F!World' = F!World
        /\ F!World.man = fin.hash /\ F!World.cfg = cfg
    BY <1>1, <2>1 DEF FinishInv, F!World
  <2>6. /\ fin.todo = fin.rows /\ fin.rows # {} /\ fin.hash \in Policies
        /\ \A r \in fin.rows : cfg[r] = fin.conf[r] \/ r \in fin.moved
        /\ \A r \in fin.rows :
             /\ gen[r] = [state |-> "applied", ours |-> TRUE,
                          man |-> fin.hash, cfg |-> fin.conf[r]]
             /\ r \notin fin.undone
        /\ fin.undone \subseteq {r \in fin.rows : rec[r] = "recovered"}
    BY <1>1, <2>4 DEF FinishInv
  <2>7. \E w \in fin.stood : w.man = fin.hash /\
          \A r \in fin.rows :
            \/ w.cfg[r] = fin.conf[r]
            \/ r \in fin.todo /\ r \in fin.moved /\ cfg[r] # fin.conf[r]
    BY <2>5, <2>6
  <2> QED
    BY <2>1, <2>2, <2>3, <2>4, <2>5, <2>6, <2>7 DEF FinishInv, Finding
<1> QED
  BY <1>2, FinishEnds

\* A configuration that compares equal is the one that stood with the manifest,
\* or has changed twice.
LEMMA FinishRecheck ==
  ASSUME F!Registered, FinishInv, F!FRecheck
  PROVE  FinishInv'
<1> DEFINE s == F!First(fin.todo)
<1>1. fin \in Command /\ fin.pc = "recheck"
  BY DEF FinishInv, FinishType, F!FRecheck
<1>2. fin.todo # {} /\ fin.todo \subseteq fin.rows /\ fin.rows \subseteq Sources
  BY <1>1 DEF FinishInv, Finding, Command
<1>3. s \in fin.todo
  BY <1>2, Least DEF F!Registered
<1>4. Accepted = fin.rows
  BY <1>1 DEF Accepted, Finding, Found
<1> HIDE DEF s
<1>5. CASE ~F!Refuses
  <2>1. /\ cfg[s] = fin.conf[s] /\ UNCHANGED <<man, cfg, gen, rec>>
        /\ fin' = F!Advance(fin, "recheck", "packet", {})
    BY <1>5 DEF F!FRecheck, F!Goes, s
  <2>2. \/ /\ fin.todo = {s}
           /\ fin' = [fin EXCEPT !.pc = "packet", !.todo = {}]
        \/ /\ fin.todo # {s}
           /\ fin' = [fin EXCEPT !.pc = "recheck", !.todo = fin.todo \ {s}]
    BY <2>1 DEF F!Advance, s
  <2>3. /\ fin'.rows = fin.rows /\ fin'.stood = fin.stood /\ fin'.twice = fin.twice
        /\ fin'.undone = fin.undone /\ fin'.hash = fin.hash
        /\ fin'.moved = fin.moved /\ fin'.conf = fin.conf
    BY <1>1, <2>2 DEF Command
  <2>4. \/ fin'.pc = "packet" /\ fin.todo = {s}
        \/ fin'.pc = "recheck" /\ fin'.todo = fin.todo \ {s} /\ fin.todo # {s}
    BY <1>1, <2>2 DEF Command
  <2>5. FinishType' /\ Allowed'
    <3>1. fin' \in Command
      <4>1. {} \in SUBSET Sources /\ fin.todo \ {s} \in SUBSET Sources
        BY <1>2
      <4> QED
        BY <1>1, <2>2, <4>1 DEF Command, Phases
    <3> QED
      BY <2>1, <3>1 DEF FinishInv, FinishType, Allowed
  <2>6. Accepted' = fin.rows /\ F!World' = F!World
    BY <2>1, <2>3, <2>4 DEF Accepted, Finding, Found, F!World
  <2>7. ASSUME ~fin.twice
        PROVE  \E w \in fin.stood : w.man = fin.hash /\
                 \A r \in fin.rows :
                   \/ w.cfg[r] = fin.conf[r]
                   \/ fin'.pc = "recheck" /\ r \in fin'.todo /\ r \in fin.moved
                      /\ cfg[r] # fin.conf[r]
    <3>1. PICK w \in fin.stood : w.man = fin.hash /\
            \A r \in fin.rows :
              \/ w.cfg[r] = fin.conf[r]
              \/ r \in fin.todo /\ r \in fin.moved /\ cfg[r] # fin.conf[r]
      BY <1>1, <2>7 DEF FinishInv
    <3> QED
      BY <2>1, <2>4, <3>1
  <2>8. /\ fin.rows # {} /\ fin.hash \in Policies /\ F!World \in fin.stood
        /\ \A r \in fin.rows :
             /\ gen[r] = [state |-> "applied", ours |-> TRUE,
                          man |-> fin.hash, cfg |-> fin.conf[r]]
             /\ r \notin fin.undone
        /\ fin.undone \subseteq {r \in fin.rows : rec[r] = "recovered"}
    BY <1>1, <1>4 DEF FinishInv
  <2>9. fin'.pc = "recheck" => fin'.todo # {} /\ fin'.todo \subseteq fin.rows
    BY <1>2, <1>3, <2>4
  <2> QED
    BY <2>1, <2>3, <2>4, <2>5, <2>6, <2>7, <2>8, <2>9 DEF FinishInv, Finding
<1> QED
  BY <1>5, FinishEnds

LEMMA FinishInvNext ==
  ASSUME F!Registered, FinishInv, [F!Next]_(F!vars)
  PROVE  FinishInv'
<1>1. CASE UNCHANGED F!vars
  BY <1>1 DEF F!vars, FinishInv, FinishType, Allowed, Accepted, Read, F!World
<1>2. CASE F!FPacket
  BY <1>2, FinishEnds DEF F!FPacket, F!Refuses
<1> QED
  BY <1>1, <1>2, FinishWrite, FinishChange, FinishBegins, FinishReads, FinishRecords,
     FinishManifest, FinishRecheck DEF F!Next

LEMMA PacketFollows ==
  ASSUME FinishInv
  PROVE  F!PacketIsTrue
<1> SUFFICES ASSUME fin.pc = "packet"
             PROVE  /\ \A s \in fin.rows : gen[s].state = "applied" /\ gen[s].ours
                    /\ fin.undone = {}
                    /\ \/ fin.twice
                       \/ \E w \in fin.stood : \A s \in fin.rows :
                            gen[s].man = w.man /\ s \in w.man /\ gen[s].cfg = w.cfg[s]
  BY DEF F!PacketIsTrue
<1>1. Accepted = fin.rows /\ fin.rows \subseteq Sources
  BY DEF Accepted, Finding, Found, FinishInv, FinishType, Command
<1>2. /\ fin.hash \in Policies
      /\ \A s \in fin.rows :
           /\ gen[s] = [state |-> "applied", ours |-> TRUE,
                        man |-> fin.hash, cfg |-> fin.conf[s]]
           /\ s \notin fin.undone
      /\ fin.undone \subseteq fin.rows
  BY <1>1 DEF FinishInv
<1>5. \A s \in fin.rows :
        /\ gen[s].state = "applied" /\ gen[s].ours = TRUE
        /\ gen[s].man = fin.hash /\ gen[s].cfg = fin.conf[s]
  <2> SUFFICES ASSUME NEW s \in fin.rows
               PROVE  /\ gen[s].state = "applied" /\ gen[s].ours = TRUE
                      /\ gen[s].man = fin.hash /\ gen[s].cfg = fin.conf[s]
    OBVIOUS
  <2>1. gen[s] = [state |-> "applied", ours |-> TRUE,
                  man |-> fin.hash, cfg |-> fin.conf[s]]
    BY <1>2
  <2>2. gen[s].ours = TRUE
    BY <2>1
  <2> QED
    BY <2>1, <2>2
<1>6. Allowed
  BY DEF FinishInv
<1>3. \A s \in fin.rows : s \in fin.hash
  BY <1>1, <1>2, <1>5, <1>6 DEF Allowed
<1>4. fin.twice \/ \E w \in fin.stood : w.man = fin.hash /\
        \A s \in fin.rows : w.cfg[s] = fin.conf[s]
  BY DEF FinishInv
<1>7. ASSUME ~fin.twice
      PROVE  \E w \in fin.stood : \A s \in fin.rows :
               gen[s].man = w.man /\ s \in w.man /\ gen[s].cfg = w.cfg[s]
  BY <1>3, <1>4, <1>5, <1>7
<1>8. fin.undone = {}
  BY <1>2
<1> QED
  BY <1>5, <1>7, <1>8

(* A finish packet is true of all its participants together: applied writes of
   this workstream, none undone when the command began, and unless a file
   changed and changed back there was one moment at which the manifest and
   every configuration were those of the writes (federation finish,
   shared_finish.py), whatever journals and files did between the reads. *)
THEOREM PacketTrue ==
  ASSUME F!Registered
  PROVE  F!Spec => []F!PacketIsTrue
<1>1. F!Init => FinishInv
  BY FinishInit
<1>2. FinishInv /\ [F!Next]_(F!vars) => FinishInv'
  BY FinishInvNext
<1>3. FinishInv => F!PacketIsTrue
  BY PacketFollows
<1> QED
  BY <1>1, <1>2, <1>3, PTL DEF F!Spec

-----------------------------------------------------------------------------
(* workstream-status *)

\* Entry i leaves attempt k by a correction.
Corrects(h, i, k) == h[i].state = "correcting" /\ h[i].attempt = k

\* A legal history goes through its attempts one by one, and leaves every one
\* but the last by one correction.
Counted(h) ==
  /\ Len(h) # 0 /\ h[Len(h)].attempt \in Nat
  /\ \A i \in 1 .. Len(h) : h[i].attempt \in 1 .. h[Len(h)].attempt
  /\ \A k \in 1 .. h[Len(h)].attempt : \E i \in 1 .. Len(h) : h[i].attempt = k
  /\ \A k \in 1 .. h[Len(h)].attempt - 1 :
       \E i \in 1 .. Len(h) : Corrects(h, i, k) /\
         \A j \in 1 .. Len(h) : Corrects(h, j, k) => j = i
  /\ \A i \in 1 .. Len(h) : Corrects(h, i, h[Len(h)].attempt) => i = Len(h)

RecordInv ==
  /\ history \in Seq(W!Entries)
  /\ W!Legal(history) => Counted(history)
  /\ verdict.judged = "ready" =>
       /\ W!Legal(history) /\ history[Len(history)].state = "completed"
       /\ verdict.findings \subseteq W!Findings
       /\ W!Consistent(history, verdict.findings)
       /\ \A f \in verdict.findings : f.resolved # 0

\* What each of the last states can only have come from.
LEMMA Predecessors ==
  ASSUME NEW s \in W!States
  PROVE  /\ "completed" \in W!Transitions[s] => s = "finishing"
         /\ "finishing" \in W!Transitions[s] => s = "accepted"
         /\ "accepted" \in W!Transitions[s] => s = "reviewing"
         /\ "reviewing" \in W!Transitions[s] => s = "validating"
<1>1. s \in {"mandated", "planned", "implementing", "validating", "reviewing",
             "correcting", "accepted", "finishing", "blocked", "completed",
             "cancelled", "failed"}
  BY DEF W!States, W!Transitions
<1>2. /\ W!Transitions["mandated"] = {"planned", "blocked", "cancelled", "failed"}
      /\ W!Transitions["planned"] = {"implementing", "blocked", "cancelled", "failed"}
      /\ W!Transitions["implementing"] = {"validating", "blocked", "cancelled", "failed"}
      /\ W!Transitions["validating"] = {"reviewing", "correcting", "blocked", "failed"}
      /\ W!Transitions["reviewing"] = {"correcting", "accepted", "blocked", "failed"}
      /\ W!Transitions["correcting"] = {"validating", "blocked", "failed"}
  BY DEF W!Transitions
<1>3. /\ W!Transitions["accepted"] = {"finishing", "correcting", "blocked", "failed"}
      /\ W!Transitions["finishing"] = {"completed", "correcting", "blocked", "failed"}
      /\ W!Transitions["blocked"] = {} /\ W!Transitions["completed"] = {}
      /\ W!Transitions["cancelled"] = {} /\ W!Transitions["failed"] = {}
  BY DEF W!Transitions
<1>4. "completed" \in W!Transitions[s] => s = "finishing"
  BY <1>1, <1>2, <1>3
<1>5. "finishing" \in W!Transitions[s] => s = "accepted"
  BY <1>1, <1>2, <1>3
<1>6. "accepted" \in W!Transitions[s] => s = "reviewing"
  BY <1>1, <1>2, <1>3
<1>7. "reviewing" \in W!Transitions[s] => s = "validating"
  BY <1>1, <1>2, <1>3
<1> QED
  BY <1>4, <1>5, <1>6, <1>7

LEMMA RecordInit == W!Init => RecordInv
<1> SUFFICES ASSUME W!Init PROVE RecordInv
  OBVIOUS
<1>1. history = <<>> /\ verdict = [judged |-> "none"]
  BY DEF W!Init, W!Unjudged
<1>2. ~W!Legal(history)
  BY <1>1 DEF W!Legal
<1>3. history \in Seq(W!Entries)
  BY <1>1
<1> QED
  BY <1>1, <1>2, <1>3 DEF RecordInv

\* An entry that follows opens the attempt after a correction, and no other.
LEMMA EntryCounts ==
  ASSUME W!Numbered, NEW h \in Seq(W!Entries), NEW e \in W!Entries,
         h = <<>> \/ (W!Legal(h) /\ Counted(h)), W!Legal(Append(h, e))
  PROVE  Counted(Append(h, e))
<1> DEFINE H == Append(h, e)  n == Len(h)
<1>1. /\ n \in Nat /\ Len(H) = n + 1 /\ H[n + 1] = e
      /\ \A i \in 1 .. n : H[i] = h[i]
  OBVIOUS
<1>2. e.attempt \in Nat
  BY DEF W!Entries, W!Numbered
<1>3. CASE h = <<>>
  <2>1. n = 0
    BY <1>3
  <2>2. e = [state |-> "mandated", attempt |-> 1]
    <3>1. Head(H) = [state |-> "mandated", attempt |-> 1]
      BY DEF W!Legal
    <3>2. Head(H) = H[1]
      BY <1>1
    <3> HIDE DEF H, n
    <3>3. H[1] = e
      BY <1>1, <2>1
    <3> QED
      BY <3>1, <3>2, <3>3
  <2>3. e.attempt = 1
    BY <2>2
  <2> HIDE DEF H, n
  <2> QED
    BY <1>1, <2>1, <2>3 DEF Counted, Corrects, H
<1>4. CASE h # <<>>
  <2>1. n # 0 /\ W!Legal(h) /\ Counted(h)
    BY <1>4
  <2>2. W!Follows(h[n], e)
    BY <1>1, <2>1 DEF W!Legal
  <2> DEFINE a == h[n].attempt
  <2>3. e.attempt = IF h[n].state = "correcting" THEN a + 1 ELSE a
    BY <2>1, <2>2 DEF W!Follows, Counted
  <2>4. /\ a \in Nat
        /\ \A i \in 1 .. n : h[i].attempt \in 1 .. a
        /\ \A k \in 1 .. a : \E i \in 1 .. n : h[i].attempt = k
        /\ \A k \in 1 .. a - 1 :
             \E i \in 1 .. n : Corrects(h, i, k) /\
               \A j \in 1 .. n : Corrects(h, j, k) => j = i
        /\ \A i \in 1 .. n : Corrects(h, i, a) => i = n
    BY <2>1 DEF Counted
  <2>5. \A i \in 1 .. n, k \in Nat : Corrects(H, i, k) <=> Corrects(h, i, k)
    BY <1>1 DEF Corrects
  <2>6. \A k \in Nat : Corrects(H, n + 1, k) <=> e.state = "correcting" /\ e.attempt = k
    BY <1>1 DEF Corrects
  <2>7. Corrects(h, n, a) <=> h[n].state = "correcting"
    BY DEF Corrects
  <2>8. \A i \in 1 .. n, k \in Nat : Corrects(h, i, k) => h[i].attempt = k
    BY DEF Corrects
  <2> HIDE DEF H, n, a
  <2>9. \A i \in 1 .. n + 1 : i \in 1 .. n \/ i = n + 1
    BY <1>1
  <2>10. n \in 1 .. n /\ a \in 1 .. a
    <3>1. n \in 1 .. n
      BY <1>1, <2>1
    <3> QED
      BY <3>1, <2>4 DEF a
  <2>11. CASE h[n].state = "correcting"
    <3>1. e.attempt = a + 1
      BY <2>3, <2>11
    <3>2. \A i \in 1 .. n + 1 : H[i].attempt \in 1 .. a + 1
      BY <1>1, <2>4, <2>9, <3>1
    <3>3. ASSUME NEW k \in 1 .. a + 1
          PROVE  \E i \in 1 .. n + 1 : H[i].attempt = k
      <4>1. CASE k = a + 1
        BY <1>1, <3>1, <4>1
      <4>2. CASE k \in 1 .. a
        <5>1. PICK i \in 1 .. n : h[i].attempt = k
          BY <2>4, <4>2
        <5> QED
          BY <1>1, <5>1
      <4> QED
        BY <2>4, <4>1, <4>2
    <3>4. ASSUME NEW k \in 1 .. a
          PROVE  \E i \in 1 .. n + 1 : Corrects(H, i, k) /\
                   \A j \in 1 .. n + 1 : Corrects(H, j, k) => j = i
      <4>1. ~Corrects(H, n + 1, k)
        BY <2>4, <2>6, <3>1
      <4>2. PICK i \in 1 .. n : Corrects(h, i, k) /\
                   \A j \in 1 .. n : Corrects(h, j, k) => j = i
        <5>1. CASE k = a
          BY <2>4, <2>7, <2>10, <2>11, <5>1
        <5>2. CASE k \in 1 .. a - 1
          BY <2>4, <5>2
        <5> QED
          BY <2>4, <5>1, <5>2
      <4>3. k \in Nat
        OBVIOUS
      <4> QED
        BY <1>1, <2>5, <2>9, <4>1, <4>2, <4>3
    <3>5. \A i \in 1 .. n + 1 : Corrects(H, i, a + 1) => i = n + 1
      <4>1. \A i \in 1 .. n : ~Corrects(h, i, a + 1)
        BY <2>4, <2>8
      <4> QED
        BY <2>4, <2>5, <2>9, <4>1
    <3>6. Len(H) = n + 1 /\ H[n + 1].attempt = a + 1 /\ (a + 1) - 1 = a /\ n + 1 # 0
      BY <1>1, <2>4, <3>1
    <3>7. Counted(H)
      BY <2>4, <3>2, <3>3, <3>4, <3>5, <3>6 DEF Counted
    <3> QED
      BY <3>7 DEF H
  <2>12. CASE h[n].state # "correcting"
    <3>1. e.attempt = a
      BY <2>3, <2>12
    <3>2. \A i \in 1 .. n + 1 : H[i].attempt \in 1 .. a
      BY <1>1, <2>4, <2>9, <2>10, <3>1
    <3>3. ASSUME NEW k \in 1 .. a
          PROVE  \E i \in 1 .. n + 1 : H[i].attempt = k
      <4>1. PICK i \in 1 .. n : h[i].attempt = k
        BY <2>4
      <4> QED
        BY <1>1, <4>1
    <3>4. ASSUME NEW k \in 1 .. a - 1
          PROVE  \E i \in 1 .. n + 1 : Corrects(H, i, k) /\
                   \A j \in 1 .. n + 1 : Corrects(H, j, k) => j = i
      <4>1. ~Corrects(H, n + 1, k)
        BY <2>4, <2>6, <3>1
      <4>2. PICK i \in 1 .. n : Corrects(h, i, k) /\
                   \A j \in 1 .. n : Corrects(h, j, k) => j = i
        BY <2>4
      <4>3. k \in Nat
        OBVIOUS
      <4> QED
        BY <1>1, <2>5, <2>9, <4>1, <4>2, <4>3
    <3>5. \A i \in 1 .. n + 1 : Corrects(H, i, a) => i = n + 1
      <4>1. \A i \in 1 .. n : ~Corrects(h, i, a)
        BY <2>4, <2>7, <2>12
      <4> QED
        BY <2>4, <2>5, <2>9, <4>1
    <3>6. Len(H) = n + 1 /\ H[n + 1].attempt = a /\ n + 1 # 0
      BY <1>1, <3>1
    <3>7. Counted(H)
      BY <2>4, <3>2, <3>3, <3>4, <3>5, <3>6 DEF Counted
    <3> QED
      BY <3>7 DEF H
  <2> QED
    BY <2>11, <2>12
<1> QED
  BY <1>3, <1>4

LEMMA RecordNext ==
  ASSUME W!Numbered, RecordInv, [W!Next]_(W!vars)
  PROVE  RecordInv'
<1>1. history \in Seq(W!Entries) /\ (W!Legal(history) => Counted(history))
  BY DEF RecordInv
<1>2. CASE W!Enter
  <2>1. PICK e \in W!Entries : history' = Append(history, e)
    BY <1>2 DEF W!Enter
  <2>2. verdict'.judged = "none" /\ (history = <<>> \/ W!Legal(history))
    BY <1>2 DEF W!Enter, W!Unjudged
  <2>3. history' \in Seq(W!Entries)
    BY <1>1, <2>1
  <2>4. W!Legal(history)' => Counted(history)'
    <3>1. W!Legal(Append(history, e)) => Counted(Append(history, e))
      BY <1>1, <2>2, EntryCounts
    <3> QED
      BY <2>1, <3>1 DEF W!Legal, Counted
  <2> QED
    BY <2>2, <2>3, <2>4 DEF RecordInv
<1>3. CASE W!Refuse
  <2>1. UNCHANGED history /\ verdict'.judged = "unreadable"
    BY <1>3 DEF W!Refuse
  <2> QED
    BY <1>1, <2>1 DEF RecordInv, W!Legal, Counted
<1>4. CASE W!Status
  <2>1. UNCHANGED history /\ W!Legal(history)
    BY <1>4 DEF W!Status
  <2>2. PICK F0 \in SUBSET W!Findings, e \in Evidence :
          LET judged == W!Judge(history, F0, e) IN
            verdict' = IF judged = "ready" THEN [judged |-> judged, findings |-> F0]
                                           ELSE [judged |-> judged]
    BY <1>4, Zenon DEF W!Status
  <2>3. ASSUME verdict'.judged = "ready"
        PROVE  /\ history[Len(history)].state = "completed"
               /\ verdict'.findings \subseteq W!Findings
               /\ W!Consistent(history, verdict'.findings)
               /\ \A f \in verdict'.findings : f.resolved # 0
    <3>1. W!Judge(history, F0, e) = "ready" /\ verdict'.findings = F0
      BY <2>2, <2>3
    <3>2. /\ history[Len(history)].state = "completed" /\ W!Consistent(history, F0)
          /\ W!Complete(F0, e)
      BY <3>1 DEF W!Judge, W!Last
    <3> QED
      BY <3>1, <3>2 DEF W!Complete
  <2> QED
    BY <1>1, <2>1, <2>3 DEF RecordInv, W!Legal, Counted, W!Consistent
<1>5. CASE UNCHANGED W!vars
  BY <1>5 DEF W!vars, RecordInv
<1> QED
  BY <1>2, <1>3, <1>4, <1>5 DEF W!Next

LEMMA SameCardinality ==
  ASSUME NEW S PROVE W!Cardinality(S) = Cardinality(S)
BY DEF W!Cardinality, Cardinality

\* The verdict of a ready record, read backwards from its last entry.
LEMMA LastPhases ==
  ASSUME RecordInv, W!Legal(history), history[Len(history)].state = "completed"
  PROVE  /\ Len(history) \in Nat /\ Len(history) > 5
         /\ history[Len(history) - 1].state = "finishing"
         /\ history[Len(history) - 2].state = "accepted"
         /\ history[Len(history) - 3].state = "reviewing"
         /\ history[Len(history) - 4].state = "validating"
<1> DEFINE n == Len(history)
<1>1. n \in Nat /\ n # 0 /\ history[1].state = "mandated"
  <2>1. history \in Seq(W!Entries) /\ history # <<>>
        /\ Head(history) = [state |-> "mandated", attempt |-> 1]
    BY DEF RecordInv, W!Legal
  <2> QED
    BY <2>1
<1>2. ASSUME NEW i \in 2 .. n
      PROVE  /\ history[i - 1].state \in W!States
             /\ history[i].state \in W!Transitions[history[i - 1].state]
  <2>1. i - 1 \in 1 .. n - 1 /\ i - 1 \in 1 .. n /\ (i - 1) + 1 = i
    BY <1>1
  <2>2. history[i - 1] \in W!Entries
    BY <2>1 DEF RecordInv
  <2>3. W!Follows(history[i - 1], history[(i - 1) + 1])
    BY <2>1 DEF W!Legal
  <2> QED
    BY <2>1, <2>2, <2>3 DEF W!Follows, W!Entries
<1> HIDE DEF n
<1>3. n > 1
  BY <1>1 DEF n
<1>4. history[n - 1].state = "finishing"
  BY <1>1, <1>2, <1>3, Predecessors DEF n
<1>5. n > 2
  BY <1>1, <1>3, <1>4
<1>6. history[n - 2].state = "accepted"
  <2>1. n - 1 \in 2 .. n /\ (n - 1) - 1 = n - 2
    BY <1>1, <1>5
  <2> QED
    BY <1>2, <1>4, <2>1, Predecessors
<1>7. n > 3
  BY <1>1, <1>5, <1>6
<1>8. history[n - 3].state = "reviewing"
  <2>1. n - 2 \in 2 .. n /\ (n - 2) - 1 = n - 3
    BY <1>1, <1>7
  <2> QED
    BY <1>2, <1>6, <2>1, Predecessors
<1>9. n > 4
  BY <1>1, <1>7, <1>8
<1>10. history[n - 4].state = "validating"
  <2>1. n - 3 \in 2 .. n /\ (n - 3) - 1 = n - 4
    BY <1>1, <1>9
  <2> QED
    BY <1>2, <1>8, <2>1, Predecessors
<1>11. n > 5
  BY <1>1, <1>9, <1>10
<1> QED
  BY <1>1, <1>4, <1>6, <1>8, <1>10, <1>11 DEF n

LEMMA Five ==
  ASSUME NEW v, NEW w, NEW x, NEW y, NEW z
  PROVE  <<v, w, x, y, z>> = [i \in 1 .. 5 |-> <<v, w, x, y, z>>[i]]
<1> DEFINE s == <<v, w, x, y, z>>
<1>1. s \in Seq({v, w, x, y, z}) /\ Len(s) = 5
  OBVIOUS
<1> HIDE DEF s
<1>2. s = [i \in 1 .. 5 |-> s[i]]
  BY <1>1
<1> QED
  BY <1>2 DEF s

LEMMA VerdictFollows ==
  ASSUME W!Numbered, RecordInv
  PROVE  W!ReadyIsVerified
<1> DEFINE h == history  n == Len(history)  used == history[Len(history)].attempt
<1> SUFFICES ASSUME verdict.judged = "ready"
             PROVE  /\ [i \in 1 .. 5 |-> h[n - 5 + i].state] =
                         <<"validating", "reviewing", "accepted", "finishing", "completed">>
                    /\ \A k \in 1 .. used - 1 :
                         /\ W!Cardinality({i \in DOMAIN h : h[i].state = "correcting"
                                                            /\ h[i].attempt = k}) = 1
                         /\ \E f \in verdict.findings :
                              f.attempt = k /\ \E i \in DOMAIN h : h[i].attempt = f.resolved
                    /\ used <= MaxAttempts
  BY DEF W!ReadyIsVerified, W!Used, W!Last
<1>1. /\ W!Legal(h) /\ h[n].state = "completed" /\ Counted(h)
      /\ verdict.findings \subseteq W!Findings
      /\ W!Consistent(h, verdict.findings)
      /\ \A f \in verdict.findings : f.resolved # 0
      /\ h \in Seq(W!Entries)
  BY DEF RecordInv
<1>2. /\ n \in Nat /\ n > 5
      /\ h[n - 1].state = "finishing" /\ h[n - 2].state = "accepted"
      /\ h[n - 3].state = "reviewing" /\ h[n - 4].state = "validating"
  BY <1>1, LastPhases
<1>3. [i \in 1 .. 5 |-> h[n - 5 + i].state] =
        <<"validating", "reviewing", "accepted", "finishing", "completed">>
  <2>1. /\ n - 5 + 1 = n - 4 /\ n - 5 + 2 = n - 3 /\ n - 5 + 3 = n - 2
        /\ n - 5 + 4 = n - 1 /\ n - 5 + 5 = n
    BY <1>2
  <2> HIDE DEF h, n
  <2> DEFINE phase == [i \in 1 .. 5 |-> h[n - 5 + i].state]
             t == <<"validating", "reviewing", "accepted", "finishing", "completed">>
  <2>2. /\ phase[1] = "validating" /\ phase[2] = "reviewing" /\ phase[3] = "accepted"
        /\ phase[4] = "finishing" /\ phase[5] = "completed"
    BY <1>1, <1>2, <2>1
  <2>3. phase = [i \in 1 .. 5 |-> phase[i]]
    OBVIOUS
  <2>4. \A i \in 1 .. 5 : i = 1 \/ i = 2 \/ i = 3 \/ i = 4 \/ i = 5
    OBVIOUS
  <2>5. \A i \in 1 .. 5 : phase[i] = t[i]
    <3> HIDE DEF phase
    <3> QED
      BY <2>2, <2>4
  <2>6. t = [i \in 1 .. 5 |-> t[i]]
    BY Five
  <2> HIDE DEF phase, t
  <2>7. phase = t
    BY <2>3, <2>5, <2>6
  <2> QED
    BY <2>7 DEF phase, t
<1>4. /\ used <= MaxAttempts /\ W!Corrected(h) \subseteq {f.attempt : f \in verdict.findings}
      /\ \A f \in verdict.findings : f.attempt <= used /\ f.resolved <= used
  BY <1>1 DEF W!Consistent, W!Used, W!Last
<1>5. DOMAIN h = 1 .. n /\ used \in Nat
  BY <1>1 DEF Counted
<1>6. ASSUME NEW k \in 1 .. used - 1
      PROVE  /\ W!Cardinality({i \in DOMAIN h : h[i].state = "correcting"
                                                /\ h[i].attempt = k}) = 1
             /\ \E f \in verdict.findings :
                  f.attempt = k /\ \E i \in DOMAIN h : h[i].attempt = f.resolved
  <2>1. PICK i \in 1 .. n : Corrects(h, i, k) /\
               \A j \in 1 .. n : Corrects(h, j, k) => j = i
    BY <1>1 DEF Counted
  <2>2. {j \in DOMAIN h : h[j].state = "correcting" /\ h[j].attempt = k} = {i}
    BY <1>5, <2>1 DEF Corrects
  <2>3. Cardinality({i}) = 1
    BY FS_Singleton
  <2>4. h[i] \in W!ToSet(h) /\ h[i].state = "correcting" /\ h[i].attempt = k
    BY <1>5, <2>1 DEF W!ToSet, Corrects
  <2>5. k \in W!Corrected(h)
    BY <2>4 DEF W!Corrected
  <2>6. PICK f \in verdict.findings : f.attempt = k
    BY <1>4, <2>5
  <2>7. f \in W!Findings /\ f.resolved # 0 /\ f.resolved <= used
    BY <1>1, <1>4
  <2>8. f.resolved \in Nat /\ f.resolved > k
    BY <2>6, <2>7 DEF W!Findings, W!Numbered
  <2>9. f.resolved \in 1 .. used
    BY <1>5, <2>7, <2>8
  <2>10. \E m \in 1 .. n : h[m].attempt = f.resolved
    BY <1>1, <2>9 DEF Counted
  <2> QED
    BY <1>5, <2>2, <2>3, <2>6, <2>10, SameCardinality
<1> QED
  BY <1>3, <1>4, <1>6

(* A record is ready to finish only if its last attempt was validated,
   reviewed and accepted without a later correction, and each earlier attempt
   was left by exactly one correction with a finding that a later attempt
   resolved (evaluate_record), whatever entries an agent appends. *)
THEOREM ReadyVerified ==
  ASSUME W!Numbered
  PROVE  W!Spec => []W!ReadyIsVerified
<1>1. W!Init => RecordInv
  BY RecordInit
<1>2. RecordInv /\ [W!Next]_(W!vars) => RecordInv'
  BY RecordNext
<1>3. RecordInv => W!ReadyIsVerified
  BY VerdictFollows
<1> QED
  BY <1>1, <1>2, <1>3, PTL DEF W!Spec

-----------------------------------------------------------------------------
(* the evidence of a provider *)

Anchored(g, d) == {0} \cup DOMAIN Sections[g[d].text]
\* What is observed of a document or of a section of it.
Sight(g, d, a) ==
  IF a = 0 THEN [id |-> d, anchor |-> 0, hash |-> g[d].text, path |-> g[d].path,
                 lines |-> <<1, Length[g[d].text]>>]
  ELSE [id |-> d, anchor |-> a, hash |-> Sections[g[d].text][a].hash,
        path |-> g[d].path, lines |-> Sections[g[d].text][a].lines]

\* Every document and every section is observed once.
LEMMA ObservedIs ==
  ASSUME P!Observable, NEW g \in Gens
  PROVE  /\ \A o : o \in P!Observed(g) <=>
                     \E d \in DOMAIN g : \E a \in Anchored(g, d) : o = Sight(g, d, a)
         /\ \A o \in P!Observed(g) :
              /\ o.id \in DOMAIN g /\ o.anchor \in Anchored(g, o.id)
              /\ o = Sight(g, o.id, o.anchor)
              /\ P!Key(o) = <<o.id, o.anchor>> /\ P!Key(o) \in Nat \X Nat
         /\ \A o, p \in P!Observed(g) : P!Key(o) = P!Key(p) => o = p
<1>1. /\ DOMAIN g \subseteq Nat
      /\ \A d \in DOMAIN g : DOMAIN Sections[g[d].text] \subseteq Nat \ {0}
  BY DEF P!Observable
<1>2. ASSUME NEW o
      PROVE  o \in P!Observed(g) <=>
               \E d \in DOMAIN g : \E a \in Anchored(g, d) : o = Sight(g, d, a)
  <2>1. ASSUME o \in P!Observed(g)
        PROVE  \E d \in DOMAIN g : \E a \in Anchored(g, d) : o = Sight(g, d, a)
    <3>1. PICK d \in DOMAIN g :
            \/ o = [id |-> d, anchor |-> 0, hash |-> g[d].text, path |-> g[d].path,
                    lines |-> <<1, Length[g[d].text]>>]
            \/ \E a \in DOMAIN Sections[g[d].text] :
                 o = [id |-> d, anchor |-> a, hash |-> Sections[g[d].text][a].hash,
                      path |-> g[d].path, lines |-> Sections[g[d].text][a].lines]
      BY <2>1 DEF P!Observed
    <3>2. \A a \in DOMAIN Sections[g[d].text] : a # 0
      BY <1>1
    <3>3. 0 \in Anchored(g, d) /\ DOMAIN Sections[g[d].text] \subseteq Anchored(g, d)
      BY DEF Anchored
    <3> QED
      BY <3>1, <3>2, <3>3, Zenon DEF Sight
  <2>2. ASSUME NEW d \in DOMAIN g, NEW a \in Anchored(g, d), o = Sight(g, d, a)
        PROVE  o \in P!Observed(g)
    <3>1. a = 0 \/ (a # 0 /\ a \in DOMAIN Sections[g[d].text])
      BY DEF Anchored
    <3>2. CASE a = 0
      BY <2>2, <3>2 DEF P!Observed, Sight
    <3>3. CASE a # 0 /\ a \in DOMAIN Sections[g[d].text]
      <4>1. o = [id |-> d, anchor |-> a, hash |-> Sections[g[d].text][a].hash,
                 path |-> g[d].path, lines |-> Sections[g[d].text][a].lines]
        BY <2>2, <3>3, Zenon DEF Sight
      <4>2. o \in {[id |-> d, anchor |-> b, hash |-> Sections[g[d].text][b].hash,
                    path |-> g[d].path, lines |-> Sections[g[d].text][b].lines] :
                     b \in DOMAIN Sections[g[d].text]}
        BY <3>3, <4>1, Zenon
      <4> DEFINE T(e) ==
            {[id |-> e, anchor |-> 0, hash |-> g[e].text, path |-> g[e].path,
              lines |-> <<1, Length[g[e].text]>>]}
            \cup {[id |-> e, anchor |-> b, hash |-> Sections[g[e].text][b].hash,
                   path |-> g[e].path, lines |-> Sections[g[e].text][b].lines] :
                    b \in DOMAIN Sections[g[e].text]}
      <4>3. P!Observed(g) = UNION {T(e) : e \in DOMAIN g}
        BY DEF P!Observed
      <4>4. o \in T(d)
        BY <4>2
      <4> HIDE DEF T
      <4> QED
        BY <4>3, <4>4
    <3> QED
      BY <3>1, <3>2, <3>3
  <2> QED
    BY <2>1, <2>2
<1>3. ASSUME NEW o \in P!Observed(g)
      PROVE  /\ o.id \in DOMAIN g /\ o.anchor \in Anchored(g, o.id)
             /\ o = Sight(g, o.id, o.anchor)
             /\ P!Key(o) = <<o.id, o.anchor>> /\ P!Key(o) \in Nat \X Nat
  <2>1. PICK d \in DOMAIN g : \E a \in Anchored(g, d) : o = Sight(g, d, a)
    BY <1>2
  <2>2. PICK a \in Anchored(g, d) : o = Sight(g, d, a)
    BY <2>1
  <2>3. o.id = d /\ o.anchor = a
    BY <2>2 DEF Sight
  <2>4. a \in Nat
    BY <1>1 DEF Anchored
  <2> QED
    BY <1>1, <2>2, <2>3, <2>4 DEF P!Key
<1>4. ASSUME NEW o \in P!Observed(g), NEW p \in P!Observed(g), P!Key(o) = P!Key(p) PROVE o = p
  <2>1. o.id = p.id /\ o.anchor = p.anchor
    BY <1>4 DEF P!Key
  <2> QED
    BY <1>3, <2>1
<1> QED
  BY <1>2, <1>3, <1>4

\* There are as many observations as documents and sections.
LEMMA ObservedCounts ==
  ASSUME P!Observable, NEW g \in Gens
  PROVE  LET whole == {o \in P!Observed(g) : o.anchor = 0}
             parts == {o \in P!Observed(g) : o.anchor # 0} IN
         /\ IsFiniteSet(P!Observed(g))
         /\ Cardinality(whole) = Cardinality(DOMAIN g)
         /\ Cardinality(DOMAIN g) \in Nat /\ Cardinality(parts) \in Nat
         /\ Cardinality(P!Observed(g)) = Cardinality(DOMAIN g) + Cardinality(parts)
<1> DEFINE O == P!Observed(g)
           whole == {o \in O : o.anchor = 0}
           parts == {o \in O : o.anchor # 0}
<1>1. IsFiniteSet(DOMAIN g) /\ \A d \in DOMAIN g : IsFiniteSet(DOMAIN Sections[g[d].text])
  <2>1. ASSUME NEW d \in DOMAIN g PROVE IsFiniteSet(DOMAIN Sections[g[d].text])
    BY Same, Zenon DEF P!Observable
  <2>2. IsFiniteSet(DOMAIN g)
    BY Same DEF P!Observable
  <2> QED
    BY <2>1, <2>2
<1>2. /\ \A o : o \in O <=> \E d \in DOMAIN g : \E a \in Anchored(g, d) : o = Sight(g, d, a)
      /\ \A o \in O : o.id \in DOMAIN g /\ o = Sight(g, o.id, o.anchor)
  BY ObservedIs
<1> HIDE DEF O
<1>3. IsFiniteSet(O)
  <2> DEFINE f == [d \in DOMAIN g |-> {Sight(g, d, a) : a \in Anchored(g, d)}]
  <2>1. ASSUME NEW d \in DOMAIN g PROVE IsFiniteSet(f[d])
    <3> DEFINE h == [a \in Anchored(g, d) |-> Sight(g, d, a)]
    <3>1. IsFiniteSet(Anchored(g, d))
      BY <1>1, FS_Singleton, FS_Union DEF Anchored
    <3>2. DOMAIN h = Anchored(g, d) /\ f[d] = {h[a] : a \in Anchored(g, d)}
      OBVIOUS
    <3> HIDE DEF h, f
    <3> QED
      BY <3>1, <3>2, ImageIs
  <2>2. O = UNION {f[d] : d \in DOMAIN g}
    BY <1>2
  <2>3. DOMAIN f = DOMAIN g
    OBVIOUS
  <2> HIDE DEF f
  <2>4. IsFiniteSet({f[d] : d \in DOMAIN g})
    BY <1>1, <2>3, ImageIs
  <2> QED
    BY <2>1, <2>2, <2>4, FS_UNION
<1>4. Cardinality(whole) = Cardinality(DOMAIN g)
  <2> DEFINE h == [d \in DOMAIN g |-> Sight(g, d, 0)]
  <2>1. whole = {h[d] : d \in DOMAIN g}
    <3>1. ASSUME NEW o \in whole PROVE \E d \in DOMAIN g : o = h[d]
      <4>1. o.id \in DOMAIN g /\ o = Sight(g, o.id, 0)
        BY <1>2
      <4> QED
        BY <4>1
    <3>2. ASSUME NEW d \in DOMAIN g PROVE h[d] \in whole
      <4>1. 0 \in Anchored(g, d)
        BY DEF Anchored
      <4>2. Sight(g, d, 0) \in O
        BY <1>2, <4>1
      <4>3. Sight(g, d, 0).anchor = 0
        BY DEF Sight
      <4> QED
        BY <4>2, <4>3
    <3> HIDE DEF h, whole
    <3> QED
      BY <3>1, <3>2
  <2>2. \A c, d \in DOMAIN g : h[c] = h[d] => c = d
    BY DEF Sight
  <2>3. DOMAIN h = DOMAIN g
    OBVIOUS
  <2> HIDE DEF h, whole
  <2> QED
    BY <1>1, <2>1, <2>2, <2>3, ImageIs
<1>5. IsFiniteSet(whole) /\ IsFiniteSet(parts)
  <2>1. whole \in SUBSET O /\ parts \in SUBSET O
    OBVIOUS
  <2> HIDE DEF whole, parts
  <2> QED
    BY <1>3, <2>1, FS_Subset
<1>6. O = whole \cup parts /\ whole \cap parts = {}
  OBVIOUS
<1> HIDE DEF whole, parts
<1>7. Cardinality(O) = Cardinality(whole) + Cardinality(parts)
      /\ Cardinality(whole) \in Nat /\ Cardinality(parts) \in Nat
  <2>1. Cardinality(whole \cup parts)
          = Cardinality(whole) + Cardinality(parts) - Cardinality(whole \cap parts)
    BY <1>5, FS_Union
  <2>2. Cardinality(whole) \in Nat /\ Cardinality(parts) \in Nat
    BY <1>5, FS_CardinalityType
  <2>3. Cardinality(whole \cap parts) = 0
    BY <1>6, FS_EmptySet
  <2> QED
    BY <1>6, <2>1, <2>2, <2>3
<1> QED
  BY <1>3, <1>4, <1>7 DEF whole, parts, O

\* What is observed under a key, if anything.
LEMMA OfIs ==
  ASSUME P!Observable, NEW g \in Gens
  PROVE  LET O == P!Observed(g) IN
         /\ \A k : /\ P!Of(O, k) = Nothing <=> k \notin P!Keys(O)
                   /\ k \in P!Keys(O) => P!Of(O, k) \in O /\ P!Key(P!Of(O, k)) = k
         /\ \A o \in O : P!Key(o) \in P!Keys(O) /\ P!Of(O, P!Key(o)) = o /\ o # Nothing
<1> DEFINE O == P!Observed(g)
<1>1. Nothing \notin O /\ \A o, p \in O : P!Key(o) = P!Key(p) => o = p
  BY ObservedIs DEF P!Observable
<1> HIDE DEF O
<1>2. ASSUME NEW k, k \in P!Keys(O) PROVE P!Of(O, k) \in O /\ P!Key(P!Of(O, k)) = k
  <2>1. \E o \in O : P!Key(o) = k
    BY <1>2 DEF P!Keys
  <2> QED
    BY <1>2, <2>1, Zenon DEF P!Of
<1>3. ASSUME NEW k, k \notin P!Keys(O) PROVE P!Of(O, k) = Nothing
  BY <1>3 DEF P!Of
<1>4. ASSUME NEW o \in O PROVE P!Key(o) \in P!Keys(O) /\ P!Of(O, P!Key(o)) = o
  <2>1. P!Key(o) \in P!Keys(O)
    BY DEF P!Keys
  <2> QED
    BY <1>1, <1>2, <2>1
<1> QED
  BY <1>1, <1>2, <1>3, <1>4 DEF O

\* A comparison has one entry for each key of either generation.
LEMMA ComparedIs ==
  ASSUME P!Observable, NEW q \in P!Queries(Gens), q.before # Nothing
  PROVE  LET Prior == P!Observed(q.before)
             A == P!Observed(q.after)
             C == P!Compared(q) IN
         /\ q.before \in Gens /\ q.after \in Gens /\ IsFiniteSet(C)
         /\ \A x \in C :
              /\ x.key \in P!Keys(A) \cup P!Keys(Prior) /\ x.key \in Nat \X Nat
              /\ x.before = P!Of(Prior, x.key) /\ x.after = P!Of(A, x.key)
              /\ x.class = P!Classified(x.before, x.after)
         /\ \A k \in P!Keys(A) \cup P!Keys(Prior) : \E x \in C : x.key = k
         /\ \A x, y \in C : x.key = y.key => x = y
<1> DEFINE Prior == P!Observed(q.before)
           A == P!Observed(q.after)
           C == P!Compared(q)
           K == P!Keys(A) \cup P!Keys(Prior)
           f == [k \in K |-> [key |-> k, class |-> P!Classified(P!Of(Prior, k), P!Of(A, k)),
                              before |-> P!Of(Prior, k), after |-> P!Of(A, k)]]
<1>1. q.before \in Gens /\ q.after \in Gens
  BY DEF P!Queries
<1>2. C = {f[k] : k \in K}
  BY DEF P!Compared
<1>3. \A k \in K : /\ f[k].key = k /\ f[k].before = P!Of(Prior, k) /\ f[k].after = P!Of(A, k)
                   /\ f[k].class = P!Classified(f[k].before, f[k].after)
  OBVIOUS
<1>4. DOMAIN f = K
  OBVIOUS
<1>5. IsFiniteSet(A) /\ IsFiniteSet(Prior)
      /\ \A o \in A \cup Prior : P!Key(o) \in Nat \X Nat
  BY <1>1, ObservedIs, ObservedCounts
<1> HIDE DEF A, Prior, C, f
<1>6. ASSUME NEW O, IsFiniteSet(O) PROVE IsFiniteSet(P!Keys(O))
  <2> DEFINE h == [o \in O |-> P!Key(o)]
  <2>1. DOMAIN h = O /\ P!Keys(O) = {h[o] : o \in O}
    BY DEF P!Keys
  <2> HIDE DEF h
  <2> QED
    BY <1>6, <2>1, ImageIs
<1>7. IsFiniteSet(K)
  BY <1>5, <1>6, FS_Union
<1>8. K \subseteq Nat \X Nat
  BY <1>5 DEF P!Keys
<1> HIDE DEF K
<1>9. IsFiniteSet(C)
  BY <1>2, <1>4, <1>7, ImageIs
<1>10. ASSUME NEW x \in C
       PROVE  /\ x.key \in K /\ x.key \in Nat \X Nat /\ x = f[x.key]
              /\ x.before = P!Of(Prior, x.key) /\ x.after = P!Of(A, x.key)
              /\ x.class = P!Classified(x.before, x.after)
  <2>1. PICK k \in K : x = f[k]
    BY <1>2
  <2> QED
    BY <1>3, <1>8, <2>1
<1>11. \A k \in K : \E x \in C : x.key = k
  BY <1>2, <1>3
<1>12. \A x, y \in C : x.key = y.key => x = y
  BY <1>10
<1> QED
  BY <1>1, <1>9, <1>10, <1>11, <1>12 DEF A, Prior, C, K

LEMMA ItemsAre ==
  ASSUME P!Observable, NEW q \in P!Queries(Gens)
  PROVE  LET S == P!Items(q) IN
         /\ IsFiniteSet(S)
         /\ \A x \in S : x.key \in Nat \X Nat
         /\ \A x, y \in S : x.key = y.key => x = y
<1> DEFINE S == P!Items(q)
<1>1. CASE q.before # Nothing
  <2>1. S \in SUBSET P!Compared(q)
    BY <1>1 DEF P!Items
  <2> HIDE DEF S
  <2>2. IsFiniteSet(S)
    BY <1>1, <2>1, ComparedIs, FS_Subset
  <2>3. /\ \A x \in P!Compared(q) : x.key \in Nat \X Nat
        /\ \A x, y \in P!Compared(q) : x.key = y.key => x = y
    BY <1>1, ComparedIs, Zenon
  <2> QED
    BY <2>1, <2>2, <2>3 DEF S
<1>2. CASE q.before = Nothing
  <2> DEFINE O == P!Observed(q.after)
             f == [o \in O |-> [key |-> P!Key(o), class |-> "observed", before |-> Nothing,
                                after |-> o]]
  <2>1. S = {f[o] : o \in O} /\ DOMAIN f = O
    BY <1>2 DEF P!Items
  <2>2. \A o \in O : f[o].key = P!Key(o)
    OBVIOUS
  <2>3. q.after \in Gens
    BY DEF P!Queries
  <2>4. /\ IsFiniteSet(O) /\ \A o \in O : P!Key(o) \in Nat \X Nat
        /\ \A o, p \in O : P!Key(o) = P!Key(p) => o = p
    BY <2>3, ObservedIs, ObservedCounts
  <2> HIDE DEF S, f, O
  <2>5. IsFiniteSet(S)
    BY <2>1, <2>4, ImageIs
  <2> QED
    BY <2>1, <2>2, <2>4, <2>5 DEF S
<1> QED
  BY <1>1, <1>2

\* The result of a query is its items, each once, in order.
LEMMA ResultIs ==
  ASSUME P!Observable, NEW q \in P!Queries(Gens)
  PROVE  LET r == P!Result(q)
             S == P!Items(q) IN
         /\ r \in Seq(S) /\ DOMAIN r = 1 .. Len(r) /\ Len(r) \in Nat
         /\ P!ToSet(r) = S
         /\ \A i, j \in DOMAIN r : i < j => P!Precedes(r[i].key, r[j].key)
         /\ \A i, j \in DOMAIN r : r[i] = r[j] => i = j
<1> DEFINE r == P!Result(q)
           S == P!Items(q)
           n == P!Cardinality(S)
<1>1. /\ IsFiniteSet(S) /\ \A x \in S : x.key \in Nat \X Nat
      /\ \A x, y \in S : x.key = y.key => x = y
  BY ItemsAre
<1>2. r = [i \in 1 .. n |-> CHOOSE x \in S :
             P!Cardinality({y \in S : P!Precedes(y.key, x.key)}) + 1 = i]
  BY Zenon DEF P!Result
<1> HIDE DEF r, S
<1>3. /\ n \in Nat /\ r \in [1 .. n -> S]
      /\ \A i, j \in 1 .. n : i < j => P!Precedes(r[i].key, r[j].key)
      /\ \A i, j \in 1 .. n : r[i] = r[j] => i = j
      /\ \A x \in S : \E i \in 1 .. n : r[i] = x
  <2> DEFINE t == [i \in 1 .. n |-> CHOOSE x \in S :
             P!Cardinality({y \in S : P!Precedes(y.key, x.key)}) + 1 = i]
  <2>1. /\ n \in Nat /\ t \in [1 .. n -> S]
        /\ \A i, j \in 1 .. n : i < j => P!Precedes(t[i].key, t[j].key)
        /\ \A i, j \in 1 .. n : t[i] = t[j] => i = j
        /\ \A x \in S : \E i \in 1 .. n : t[i] = x
    BY <1>1, PlacesAre, Zenon
  <2> QED
    BY <1>2, <2>1, Zenon
<1> HIDE DEF n
<1>4. r \in Seq(S) /\ Len(r) = n /\ DOMAIN r = 1 .. n
  BY <1>3
<1>5. P!ToSet(r) = S
  BY <1>3, <1>4 DEF P!ToSet
<1> QED
  BY <1>3, <1>4, <1>5 DEF r, S

\* What an entry of a comparison says of the two observations of its key.
LEMMA ClassIs ==
  ASSUME P!Observable, NEW q \in P!Queries(Gens), q.before # Nothing, NEW x \in P!Compared(q)
  PROVE  LET Prior == P!Observed(q.before)
             A == P!Observed(q.after) IN
         /\ x.before # Nothing => x.before \in Prior /\ P!Key(x.before) = x.key
         /\ x.after # Nothing => x.after \in A /\ P!Key(x.after) = x.key
         /\ x.before # Nothing \/ x.after # Nothing
         /\ x.before = Nothing => x.class = "added"
         /\ x.after = Nothing => x.class = "missing"
         /\ x.before # Nothing /\ x.after # Nothing =>
              /\ x.class \in {"changed", "relocated", "unchanged"}
              /\ x.class = "unchanged" <=> x.before = x.after
<1> DEFINE Prior == P!Observed(q.before)
           A == P!Observed(q.after)
<1>1. /\ q.before \in Gens /\ q.after \in Gens
      /\ x.key \in P!Keys(A) \cup P!Keys(Prior)
      /\ x.before = P!Of(Prior, x.key) /\ x.after = P!Of(A, x.key)
      /\ x.class = P!Classified(x.before, x.after)
  BY ComparedIs, Zenon
<1>2. /\ P!Of(Prior, x.key) = Nothing <=> x.key \notin P!Keys(Prior)
      /\ x.key \in P!Keys(Prior) => P!Of(Prior, x.key) \in Prior /\ P!Key(P!Of(Prior, x.key)) = x.key
  BY <1>1, OfIs, Zenon
<1>3. /\ P!Of(A, x.key) = Nothing <=> x.key \notin P!Keys(A)
      /\ x.key \in P!Keys(A) => P!Of(A, x.key) \in A /\ P!Key(P!Of(A, x.key)) = x.key
  BY <1>1, OfIs, Zenon
<1>4. \A o \in Prior : o = Sight(q.before, o.id, o.anchor) /\ P!Key(o) = <<o.id, o.anchor>>
  BY <1>1, ObservedIs, Zenon
<1>5. \A o \in A : o = Sight(q.after, o.id, o.anchor) /\ P!Key(o) = <<o.id, o.anchor>>
  BY <1>1, ObservedIs, Zenon
<1> HIDE DEF A, Prior
<1>6. ASSUME x.before # Nothing, x.after # Nothing
      PROVE  /\ x.class \in {"changed", "relocated", "unchanged"}
             /\ x.class = "unchanged" <=> x.before = x.after
  <2> DEFINE b == x.before
             a == x.after
  <2>1. b \in Prior /\ a \in A /\ P!Key(b) = P!Key(a)
    BY <1>1, <1>2, <1>3, <1>6
  <2>2. b.id = a.id /\ b.anchor = a.anchor
    BY <1>4, <1>5, <2>1
  <2>3. b = [id |-> b.id, anchor |-> b.anchor, hash |-> b.hash, path |-> b.path, lines |-> b.lines]
    BY <1>4, <2>1 DEF Sight
  <2>4. a = [id |-> a.id, anchor |-> a.anchor, hash |-> a.hash, path |-> a.path, lines |-> a.lines]
    BY <1>5, <2>1 DEF Sight
  <2> HIDE DEF a, b
  <2>5. b.hash = a.hash /\ b.path = a.path /\ b.lines = a.lines <=> b = a
    BY <2>2, <2>3, <2>4
  <2>6. x.class = IF b.hash # a.hash THEN "changed"
                  ELSE IF <<b.path, b.lines>> # <<a.path, a.lines>> THEN "relocated"
                  ELSE "unchanged"
    BY <1>1, <1>6 DEF P!Classified, a, b
  <2>7. <<b.path, b.lines>> = <<a.path, a.lines>> <=> b.path = a.path /\ b.lines = a.lines
    OBVIOUS
  <2> QED
    BY <2>5, <2>6, <2>7 DEF a, b
<1>7. x.before = Nothing => x.class = "added"
  BY <1>1 DEF P!Classified
<1>8. x.before # Nothing /\ x.after = Nothing => x.class = "missing"
  BY <1>1 DEF P!Classified
<1> QED
  BY <1>1, <1>2, <1>3, <1>6, <1>7, <1>8 DEF A, Prior

\* The items of a query of one generation are what it observes.
LEMMA SingleIs ==
  ASSUME NEW q \in P!Queries(Gens), q.before = Nothing
  PROVE  LET A == P!Observed(q.after)
             S == P!Items(q) IN
         /\ \A i \in S : i.before = Nothing /\ i.after \in A
         /\ \A o \in A : \E i \in S : i.after = o
         /\ \A i, j \in S : i.after = j.after => i = j
<1> DEFINE A == P!Observed(q.after)
           S == P!Items(q)
           f == [o \in A |-> [key |-> P!Key(o), class |-> "observed", before |-> Nothing,
                              after |-> o]]
<1>1. S = {f[o] : o \in A}
  BY DEF P!Items
<1>2. \A o \in A : f[o].before = Nothing /\ f[o].after = o
  OBVIOUS
<1> HIDE DEF A, S, f
<1>3. /\ \A i \in S : i.before = Nothing /\ i.after \in A
      /\ \A o \in A : \E i \in S : i.after = o
      /\ \A i, j \in S : i.after = j.after => i = j
  BY <1>1, <1>2
<1> QED
  BY <1>3 DEF A, S

\* A comparison, applied to what the one generation observes, yields what the
\* other observes.
LEMMA ComparisonIsExact ==
  ASSUME P!Observable, NEW q \in P!Queries(Gens)
  PROVE  LET old == IF q.before = Nothing THEN {} ELSE P!Observed(q.before)
             gone == {i.before : i \in P!Items(q)}
             come == {i.after : i \in P!Items(q)} \ {Nothing} IN
         (old \ gone) \cup come = P!Observed(q.after)
<1> DEFINE A == P!Observed(q.after)
           S == P!Items(q)
<1>1. q.after \in Gens /\ Nothing \notin A
  BY DEF P!Queries, P!Observable
<1>2. CASE q.before = Nothing
  <2>1. /\ \A i \in S : i.after \in A
        /\ \A o \in A : \E i \in S : i.after = o
    BY <1>2, SingleIs
  <2> HIDE DEF S, A
  <2> QED
    BY <1>1, <1>2, <2>1 DEF S, A
<1>3. CASE q.before # Nothing
  <2> DEFINE Prior == P!Observed(q.before)
             C == P!Compared(q)
             gone == {i.before : i \in S}
             come == {i.after : i \in S} \ {Nothing}
  <2>1. /\ \A x \in C : /\ x.key \in P!Keys(A) \cup P!Keys(Prior)
                        /\ x.before = P!Of(Prior, x.key) /\ x.after = P!Of(A, x.key)
        /\ \A k \in P!Keys(A) \cup P!Keys(Prior) : \E x \in C : x.key = k
        /\ \A x, y \in C : x.key = y.key => x = y
    BY <1>3, ComparedIs, Zenon
  <2>2. q.before \in Gens
    BY <1>3 DEF P!Queries
  <2>3. \A o \in A : P!Key(o) \in P!Keys(A) /\ P!Of(A, P!Key(o)) = o /\ o # Nothing
    BY <1>1, OfIs, Zenon
  <2>4. \A o \in Prior : P!Key(o) \in P!Keys(Prior) /\ P!Of(Prior, P!Key(o)) = o /\ o # Nothing
    BY <2>2, OfIs, Zenon
  <2>5. \A x \in C : /\ x.before # Nothing => x.before \in Prior /\ P!Key(x.before) = x.key
                     /\ x.after # Nothing => x.after \in A /\ P!Key(x.after) = x.key
                     /\ x.before # Nothing \/ x.after # Nothing
                     /\ x.class = "unchanged" => x.before = x.after
    <3> TAKE x \in C
    <3>1. /\ x.before # Nothing => x.before \in Prior /\ P!Key(x.before) = x.key
          /\ x.after # Nothing => x.after \in A /\ P!Key(x.after) = x.key
          /\ x.before # Nothing \/ x.after # Nothing
          /\ x.before = Nothing => x.class = "added"
          /\ x.after = Nothing => x.class = "missing"
          /\ x.before # Nothing /\ x.after # Nothing =>
               (x.class = "unchanged" <=> x.before = x.after)
      BY <1>3, ClassIs, Zenon
    <3> QED
      BY <3>1
  <2>6. S = {x \in C : x.class # "unchanged"}
    BY <1>3 DEF P!Items
  <2> HIDE DEF A, Prior, C, S
  <2>7. ASSUME NEW o \in A PROVE o \in (Prior \ gone) \cup come
    <3>1. PICK x \in C : x.key = P!Key(o)
      BY <2>1, <2>3
    <3>2. x.after = o
      BY <2>1, <2>3, <3>1
    <3>3. CASE x.class # "unchanged"
      BY <2>3, <2>6, <3>2, <3>3
    <3>4. CASE x.class = "unchanged"
      <4>1. x.before = o /\ o \in Prior
        BY <2>3, <2>5, <3>2, <3>4
      <4>2. ASSUME NEW i \in S, i.before = o PROVE FALSE
        <5>1. i \in C /\ i.key = x.key /\ i.class # "unchanged"
          BY <2>3, <2>5, <2>6, <3>1, <4>2
        <5> QED
          BY <2>1, <3>4, <5>1
      <4> QED
        BY <4>1, <4>2
    <3> QED
      BY <3>3, <3>4
  <2>8. ASSUME NEW o \in Prior, o \notin gone PROVE o \in A
    <3>1. PICK x \in C : x.key = P!Key(o)
      BY <2>1, <2>4
    <3>2. x.before = o
      BY <2>1, <2>4, <3>1
    <3>3. x.class = "unchanged"
      BY <2>6, <2>8, <3>2
    <3> QED
      BY <2>4, <2>5, <3>2, <3>3
  <2>9. come \subseteq A
    BY <2>5, <2>6
  <2> QED
    BY <1>3, <2>7, <2>8, <2>9 DEF A, Prior, S
<1> QED
  BY <1>2, <1>3

\* A section of an observed document is observed wherever the document stands.
LEMMA SameDocument ==
  ASSUME P!Observable, NEW g \in Gens, NEW h \in Gens, NEW o \in P!Observed(g),
         Sight(g, o.id, 0) \in P!Observed(h)
  PROVE  o \in P!Observed(h)
<1>1. o.id \in DOMAIN g /\ o.anchor \in Anchored(g, o.id) /\ o = Sight(g, o.id, o.anchor)
  BY ObservedIs
<1> DEFINE d == o.id
           w == Sight(g, d, 0)
<1>2. w.id = d /\ w.anchor = 0 /\ w.hash = g[d].text /\ w.path = g[d].path
  BY DEF Sight
<1>3. w.id \in DOMAIN h /\ w = Sight(h, w.id, w.anchor)
  BY ObservedIs
<1>4. d \in DOMAIN h /\ g[d].text = h[d].text /\ g[d].path = h[d].path
  <2>1. Sight(h, d, 0).hash = h[d].text /\ Sight(h, d, 0).path = h[d].path
    BY DEF Sight
  <2> HIDE DEF w, d
  <2> QED
    BY <1>2, <1>3, <2>1
<1>5. o = Sight(h, d, o.anchor) /\ o.anchor \in Anchored(h, d)
  BY <1>1, <1>4 DEF Sight, Anchored
<1> QED
  BY <1>4, <1>5, ObservedIs

\* What of a generation has the document of each section is related.
LEMMA RelatedIs ==
  ASSUME P!Observable, NEW g \in Gens, NEW O \in SUBSET P!Observed(g),
         \A o \in O : o.anchor # 0 => Sight(g, o.id, 0) \in O
  PROVE  P!Related(O)
<1> SUFFICES ASSUME NEW o \in O, o.anchor # 0
    PROVE  \E d \in O : /\ d.id = o.id /\ d.anchor = 0 /\ d.path = o.path
                        /\ o.lines[2] <= d.lines[2]
  BY DEF P!Related
<1>1. o.id \in DOMAIN g /\ o.anchor \in Anchored(g, o.id) /\ o = Sight(g, o.id, o.anchor)
  BY ObservedIs
<1> DEFINE d == o.id
           w == Sight(g, d, 0)
<1>2. /\ w.id = d /\ w.anchor = 0 /\ w.path = g[d].path
      /\ w.lines = <<1, Length[g[d].text]>>
  BY DEF Sight
<1>3. o.path = g[d].path /\ o.lines = Sections[g[d].text][o.anchor].lines
  BY <1>1 DEF Sight
<1>4. o.anchor \in DOMAIN Sections[g[d].text]
  BY <1>1 DEF Anchored
<1>5. Sections[g[d].text][o.anchor].lines[2] <= Length[g[d].text]
  BY <1>1, <1>4, Zenon DEF P!Observable
<1>6. w \in O
  OBVIOUS
<1>7. o.lines[2] <= w.lines[2]
  BY <1>2, <1>3, <1>5
<1> QED
  BY <1>2, <1>3, <1>6, <1>7

\* What the items of a query name of each of its generations is related.
LEMMA NamedIsRelated ==
  ASSUME P!Observable, NEW q \in P!Queries(Gens)
  PROVE  /\ P!Related({x.before : x \in P!Items(q)} \ {Nothing})
         /\ P!Related({x.after : x \in P!Items(q)} \ {Nothing})
<1> DEFINE A == P!Observed(q.after)
           S == P!Items(q)
           old == {x.before : x \in S} \ {Nothing}
           new == {x.after : x \in S} \ {Nothing}
<1>1. q.after \in Gens /\ Nothing \notin A
  BY DEF P!Queries, P!Observable
<1>2. ASSUME NEW g \in Gens, NEW o \in P!Observed(g)
      PROVE  Sight(g, o.id, 0) \in P!Observed(g) /\ P!Key(Sight(g, o.id, 0)) = <<o.id, 0>>
  <2>1. o.id \in DOMAIN g /\ 0 \in Anchored(g, o.id)
    BY ObservedIs DEF Anchored
  <2> QED
    BY <2>1, ObservedIs DEF Sight, P!Key
<1>3. CASE q.before = Nothing
  <2>2. old = {} /\ new = A
    <3>1. /\ \A i \in S : i.before = Nothing /\ i.after \in A
          /\ \A o \in A : \E i \in S : i.after = o
      BY <1>3, SingleIs
    <3> HIDE DEF S
    <3> QED
      BY <1>1, <3>1
  <2>3. P!Related({})
    BY DEF P!Related
  <2>4. P!Related(A)
    BY <1>1, <1>2, RelatedIs
  <2> HIDE DEF old, new, A, S
  <2>5. P!Related(old) /\ P!Related(new)
    BY <2>2, <2>3, <2>4
  <2> QED
    BY <2>5 DEF old, new, S
<1>4. CASE q.before # Nothing
  <2> DEFINE Prior == P!Observed(q.before)
             C == P!Compared(q)
  <2>1. /\ \A x \in C : /\ x.key \in P!Keys(A) \cup P!Keys(Prior)
                        /\ x.before = P!Of(Prior, x.key) /\ x.after = P!Of(A, x.key)
        /\ \A k \in P!Keys(A) \cup P!Keys(Prior) : \E x \in C : x.key = k
        /\ \A x, y \in C : x.key = y.key => x = y
    BY <1>4, ComparedIs, Zenon
  <2>2. q.before \in Gens
    BY <1>4 DEF P!Queries
  <2>3. \A o \in A : P!Key(o) \in P!Keys(A) /\ P!Of(A, P!Key(o)) = o /\ o # Nothing
    BY <1>1, OfIs, Zenon
  <2>4. \A o \in Prior : P!Key(o) \in P!Keys(Prior) /\ P!Of(Prior, P!Key(o)) = o /\ o # Nothing
    BY <2>2, OfIs, Zenon
  <2>5. ASSUME NEW x \in C
        PROVE  /\ x.before # Nothing => x.before \in Prior /\ P!Key(x.before) = x.key
               /\ x.after # Nothing => x.after \in A /\ P!Key(x.after) = x.key
               /\ x.before # Nothing \/ x.after # Nothing
               /\ x.before = x.after => x.class = "unchanged"
               /\ x.class = "unchanged" => x.before = x.after
    <3>1. /\ x.before # Nothing => x.before \in Prior /\ P!Key(x.before) = x.key
          /\ x.after # Nothing => x.after \in A /\ P!Key(x.after) = x.key
          /\ x.before # Nothing \/ x.after # Nothing
          /\ x.before = Nothing => x.class = "added"
          /\ x.after = Nothing => x.class = "missing"
          /\ x.before # Nothing /\ x.after # Nothing =>
               (x.class = "unchanged" <=> x.before = x.after)
      BY <1>4, ClassIs, Zenon
    <3> QED
      BY <3>1
  <2>6. S = {x \in C : x.class # "unchanged"}
    BY <1>4 DEF P!Items
  <2>7. \A o \in Prior : o.id \in Nat /\ P!Key(o) = <<o.id, o.anchor>>
    BY <2>2, ObservedIs
  <2>8. \A o \in A : o.id \in Nat /\ P!Key(o) = <<o.id, o.anchor>>
    BY <1>1, ObservedIs
  <2>9. \A o \in Prior : Sight(q.before, o.id, 0) \in Prior /\ P!Key(Sight(q.before, o.id, 0)) = <<o.id, 0>>
    BY <1>2, <2>2
  <2>10. \A o \in A : Sight(q.after, o.id, 0) \in A /\ P!Key(Sight(q.after, o.id, 0)) = <<o.id, 0>>
    BY <1>1, <1>2
  <2>11. \A o \in Prior : Sight(q.before, o.id, 0) \in A => o \in A
    BY <1>1, <2>2, SameDocument
  <2>12. \A o \in A : Sight(q.after, o.id, 0) \in Prior => o \in Prior
    BY <1>1, <2>2, SameDocument
  <2> HIDE DEF A, Prior, C, S
  <2>13. ASSUME NEW x \in C, x.before \in Prior, x.after # x.before PROVE x.before \notin A
    <3>1. x.key = P!Key(x.before)
      BY <2>4, <2>5, <2>13
    <3> QED
      BY <2>1, <2>3, <2>13, <3>1
  <2>14. ASSUME NEW x \in C, x.after \in A, x.after # x.before PROVE x.after \notin Prior
    <3>1. x.key = P!Key(x.after)
      BY <2>3, <2>5, <2>14
    <3> QED
      BY <2>1, <2>4, <2>14, <3>1
  <2>15. old \in SUBSET Prior /\ new \in SUBSET A
    BY <2>5, <2>6
  <2>16. ASSUME NEW o \in old PROVE Sight(q.before, o.id, 0) \in old
    <3> DEFINE w == Sight(q.before, o.id, 0)
    <3>1. PICK x \in S : o = x.before /\ x.before # Nothing
      OBVIOUS
    <3>2. x \in C /\ o \in Prior /\ x.after # x.before
      BY <2>5, <2>6, <3>1
    <3>3. o \notin A
      BY <2>13, <3>1, <3>2
    <3>4. w \in Prior /\ w \notin A
      BY <2>9, <2>11, <3>2, <3>3
    <3> HIDE DEF w
    <3>5. PICK y \in C : y.key = P!Key(w)
      BY <2>1, <2>4, <3>4
    <3>6. y.before = w
      BY <2>1, <2>4, <3>4, <3>5
    <3>7. y.class # "unchanged"
      BY <2>4, <2>5, <3>4, <3>6
    <3> QED
      BY <2>4, <2>6, <3>4, <3>6, <3>7 DEF w
  <2>17. ASSUME NEW o \in new PROVE Sight(q.after, o.id, 0) \in new
    <3> DEFINE w == Sight(q.after, o.id, 0)
    <3>1. PICK x \in S : o = x.after /\ x.after # Nothing
      OBVIOUS
    <3>2. x \in C /\ o \in A /\ x.after # x.before
      BY <2>5, <2>6, <3>1
    <3>3. o \notin Prior
      BY <2>14, <3>1, <3>2
    <3>4. w \in A /\ w \notin Prior
      BY <2>10, <2>12, <3>2, <3>3
    <3> HIDE DEF w
    <3>5. PICK y \in C : y.key = P!Key(w)
      BY <2>1, <2>3, <3>4
    <3>6. y.after = w
      BY <2>1, <2>3, <3>4, <3>5
    <3>7. y.class # "unchanged"
      BY <2>3, <2>5, <3>4, <3>6
    <3> QED
      BY <2>3, <2>6, <3>4, <3>6, <3>7 DEF w
  <2> HIDE DEF old, new
  <2>18. P!Related(old) /\ P!Related(new)
    BY <1>1, <2>2, <2>15, <2>16, <2>17, RelatedIs DEF A, Prior
  <2> QED
    BY <2>18 DEF old, new, S
<1> QED
  BY <1>3, <1>4

Number(C, c) == Cardinality({x \in C : x.class = c})

\* The entries of two classes together are as many as those of each.
LEMMA ClassesAdd ==
  ASSUME NEW C, IsFiniteSet(C), NEW D, NEW c, c \notin D
  PROVE  /\ Number(C, c) \in Nat
         /\ Cardinality({x \in C : x.class \in D}) \in Nat
         /\ Cardinality({x \in C : x.class \in D \cup {c}})
              = Cardinality({x \in C : x.class \in D}) + Number(C, c)
<1> DEFINE U == {x \in C : x.class \in D}
           V == {x \in C : x.class = c}
           both == {x \in C : x.class \in D \cup {c}}
<1>1. both = U \cup V /\ U \cap V = {} /\ U \in SUBSET C /\ V \in SUBSET C
  OBVIOUS
<1>2. Number(C, c) = Cardinality(V)
  BY DEF Number
<1> HIDE DEF U, V, both
<1>3. IsFiniteSet(U) /\ IsFiniteSet(V)
  BY <1>1, FS_Subset
<1>4. Cardinality(U) \in Nat /\ Cardinality(V) \in Nat /\ Cardinality(U \cap V) = 0
  BY <1>1, <1>3, FS_CardinalityType, FS_EmptySet
<1>5. Cardinality(both) = Cardinality(U) + Cardinality(V)
  <2>1. Cardinality(U \cup V) = Cardinality(U) + Cardinality(V) - Cardinality(U \cap V)
    BY <1>3, FS_Union
  <2> QED
    BY <1>1, <1>4, <2>1
<1> QED
  BY <1>2, <1>4, <1>5 DEF U, V, both

\* The items of a class are as many as the entries of it.
LEMMA ItemsOfClass ==
  ASSUME P!Observable, NEW q \in P!Queries(Gens), q.before # Nothing,
         NEW c, c # "unchanged"
  PROVE  LET r == P!Result(q) IN
         P!Cardinality({i \in DOMAIN r : r[i].class = c}) = Number(P!Compared(q), c)
<1> DEFINE r == P!Result(q)
           C == P!Compared(q)
           D == {i \in DOMAIN r : r[i].class = c}
           X == {x \in C : x.class = c}
           f == [i \in D |-> r[i]]
<1>1. /\ DOMAIN r = 1 .. Len(r) /\ Len(r) \in Nat
      /\ P!ToSet(r) = P!Items(q)
      /\ \A i, j \in DOMAIN r : r[i] = r[j] => i = j
  BY ResultIs, Zenon
<1>2. P!Items(q) = {x \in C : x.class # "unchanged"}
  BY DEF P!Items
<1>3. P!ToSet(r) = {r[i] : i \in DOMAIN r}
  BY DEF P!ToSet
<1>4. D \in SUBSET (1 .. Len(r))
  BY <1>1
<1> HIDE DEF r, C
<1>5. X = {f[i] : i \in D}
  <2>1. ASSUME NEW x \in X PROVE \E i \in D : x = f[i]
    <3>1. x \in P!ToSet(r)
      BY <1>1, <1>2
    <3>2. PICK i \in DOMAIN r : x = r[i]
      BY <1>3, <3>1
    <3> QED
      BY <3>2
  <2>2. ASSUME NEW i \in D PROVE f[i] \in X
    BY <1>1, <1>2, <1>3
  <2> HIDE DEF f, X, D
  <2> QED
    BY <2>1, <2>2
<1>6. \A i, j \in D : f[i] = f[j] => i = j
  BY <1>1
<1>7. DOMAIN f = D
  OBVIOUS
<1> HIDE DEF D, X, f
<1>8. IsFiniteSet(D)
  <2>1. IsFiniteSet(1 .. Len(r))
    BY <1>1, FS_Interval
  <2> QED
    BY <1>4, <2>1, FS_Subset
<1>9. Cardinality(X) = Cardinality(D)
  BY <1>5, <1>6, <1>7, <1>8, ImageIs
<1>10. P!Cardinality(D) = Cardinality(X)
  BY <1>9, Same
<1> QED
  BY <1>10 DEF D, X, Number, C, r

\* The coverage of a generation is the number of its observations.
LEMMA CoverageIs ==
  ASSUME P!Observable, NEW g \in Gens
  PROVE  P!Total(P!Coverage(g)) = Cardinality(P!Observed(g))
<1>1. Cardinality(P!Observed(g))
        = Cardinality(DOMAIN g) + Cardinality({o \in P!Observed(g) : o.anchor # 0})
  BY ObservedCounts, Zenon
<1>2. P!Coverage(g).documents = Cardinality(DOMAIN g)
      /\ P!Coverage(g).sections = Cardinality({o \in P!Observed(g) : o.anchor # 0})
  BY Same DEF P!Coverage
<1> QED
  BY <1>1, <1>2 DEF P!Total

\* The observations of each generation are as many as the entries that name one.
LEMMA EntriesCount ==
  ASSUME P!Observable, NEW q \in P!Queries(Gens), q.before # Nothing
  PROVE  LET C == P!Compared(q)
             shared == Number(C, "unchanged") + Number(C, "relocated") + Number(C, "changed") IN
         /\ P!Total(P!Coverage(q.before)) = shared + Number(C, "missing")
         /\ P!Total(P!Coverage(q.after)) = shared + Number(C, "added")
<1> DEFINE Prior == P!Observed(q.before)
           A == P!Observed(q.after)
           C == P!Compared(q)
           both == {"unchanged", "relocated", "changed"}
           X == {x \in C : x.class \in both \cup {"missing"}}
           Y == {x \in C : x.class \in both \cup {"added"}}
           f == [x \in X |-> x.before]
           h == [y \in Y |-> y.after]
<1>1. /\ q.before \in Gens /\ q.after \in Gens /\ IsFiniteSet(C)
      /\ \A x \in C : /\ x.key \in P!Keys(A) \cup P!Keys(Prior)
                      /\ x.before = P!Of(Prior, x.key) /\ x.after = P!Of(A, x.key)
      /\ \A k \in P!Keys(A) \cup P!Keys(Prior) : \E x \in C : x.key = k
      /\ \A x, y \in C : x.key = y.key => x = y
  BY ComparedIs, Zenon
<1>2. \A o \in A : P!Key(o) \in P!Keys(A) /\ P!Of(A, P!Key(o)) = o /\ o # Nothing
  BY <1>1, OfIs, Zenon
<1>3. \A o \in Prior : P!Key(o) \in P!Keys(Prior) /\ P!Of(Prior, P!Key(o)) = o /\ o # Nothing
  BY <1>1, OfIs, Zenon
<1>4. ASSUME NEW x \in C
      PROVE  /\ x.before # Nothing => x.before \in Prior /\ P!Key(x.before) = x.key
             /\ x.after # Nothing => x.after \in A /\ P!Key(x.after) = x.key
             /\ x.before # Nothing <=> x.class \in both \cup {"missing"}
             /\ x.after # Nothing <=> x.class \in both \cup {"added"}
  <2>1. /\ x.before # Nothing => x.before \in Prior /\ P!Key(x.before) = x.key
        /\ x.after # Nothing => x.after \in A /\ P!Key(x.after) = x.key
        /\ x.before # Nothing \/ x.after # Nothing
        /\ x.before = Nothing => x.class = "added"
        /\ x.after = Nothing => x.class = "missing"
        /\ x.before # Nothing /\ x.after # Nothing =>
             x.class \in {"changed", "relocated", "unchanged"}
    BY ClassIs, Zenon
  <2> QED
    BY <2>1
<1>5. /\ Number(C, "unchanged") \in Nat /\ Number(C, "relocated") \in Nat
      /\ Number(C, "changed") \in Nat /\ Number(C, "missing") \in Nat
      /\ Number(C, "added") \in Nat
      /\ Cardinality({x \in C : x.class \in both})
           = Number(C, "unchanged") + Number(C, "relocated") + Number(C, "changed")
      /\ Cardinality(X) = Cardinality({x \in C : x.class \in both}) + Number(C, "missing")
      /\ Cardinality(Y) = Cardinality({x \in C : x.class \in both}) + Number(C, "added")
  <2> DEFINE K(D) == Cardinality({x \in C : x.class \in D})
  <2> HIDE DEF C
  <2>1. ASSUME NEW D, NEW c, c \notin D
        PROVE  Number(C, c) \in Nat /\ K(D) \in Nat /\ K(D \cup {c}) = K(D) + Number(C, c)
    <3>1. IsFiniteSet(C)
      BY <1>1
    <3> QED
      BY <2>1, <3>1, ClassesAdd, Zenon
  <2>2. K({}) = 0
    <3>1. {x \in C : x.class \in {}} = {} /\ Cardinality({}) = 0
      BY FS_EmptySet
    <3> QED
      BY <3>1
  <2>3. Cardinality(X) = K(both \cup {"missing"}) /\ Cardinality(Y) = K(both \cup {"added"})
    OBVIOUS
  <2>4. /\ {} \cup {"unchanged"} = {"unchanged"}
        /\ {"unchanged"} \cup {"relocated"} = {"unchanged", "relocated"}
        /\ {"unchanged", "relocated"} \cup {"changed"} = both
    OBVIOUS
  <2>5. Cardinality({x \in C : x.class \in both}) = K(both)
    OBVIOUS
  <2> HIDE DEF K, X, Y
  <2>6. Number(C, "unchanged") \in Nat /\ K({"unchanged"}) = Number(C, "unchanged")
    <3>1. "unchanged" \notin {}
      OBVIOUS
    <3>2. Number(C, "unchanged") \in Nat
          /\ K({} \cup {"unchanged"}) = K({}) + Number(C, "unchanged")
      BY <2>1, <3>1, Zenon
    <3> QED
      BY <2>2, <2>4, <3>2
  <2>7. /\ Number(C, "relocated") \in Nat
        /\ K({"unchanged", "relocated"}) = K({"unchanged"}) + Number(C, "relocated")
    <3>1. "relocated" \notin {"unchanged"}
      OBVIOUS
    <3> QED
      BY <2>1, <2>4, <3>1, Zenon
  <2>8. /\ Number(C, "changed") \in Nat
        /\ K(both) = K({"unchanged", "relocated"}) + Number(C, "changed")
    <3>1. "changed" \notin {"unchanged", "relocated"}
      OBVIOUS
    <3> HIDE DEF both
    <3> QED
      BY <2>1, <2>4, <3>1, Zenon
  <2>9. "missing" \notin both /\ "added" \notin both
    OBVIOUS
  <2> HIDE DEF both
  <2>10. /\ Number(C, "missing") \in Nat
         /\ K(both \cup {"missing"}) = K(both) + Number(C, "missing")
    BY <2>1, <2>9, Zenon
  <2>11. /\ Number(C, "added") \in Nat
         /\ K(both \cup {"added"}) = K(both) + Number(C, "added")
    BY <2>1, <2>9, Zenon
  <2> QED
    BY <2>3, <2>5, <2>6, <2>7, <2>8, <2>10, <2>11
<1>6. P!Total(P!Coverage(q.before)) = Cardinality(Prior)
      /\ P!Total(P!Coverage(q.after)) = Cardinality(A)
  BY <1>1, CoverageIs
<1>7. X \in SUBSET C /\ Y \in SUBSET C
  OBVIOUS
<1>8. DOMAIN f = X /\ DOMAIN h = Y
  OBVIOUS
<1> HIDE DEF A, Prior, C
<1>9. Prior = {f[x] : x \in X}
  <2>1. ASSUME NEW o \in Prior PROVE \E x \in X : o = f[x]
    <3>1. PICK x \in C : x.key = P!Key(o)
      BY <1>1, <1>3
    <3>2. x.before = o /\ o # Nothing
      BY <1>1, <1>3, <3>1
    <3>3. x \in X
      BY <1>4, <3>2
    <3> QED
      BY <3>2, <3>3
  <2>2. ASSUME NEW x \in X PROVE f[x] \in Prior
    BY <1>4
  <2> HIDE DEF f, X
  <2> QED
    BY <2>1, <2>2
<1>10. A = {h[y] : y \in Y}
  <2>1. ASSUME NEW o \in A PROVE \E y \in Y : o = h[y]
    <3>1. PICK x \in C : x.key = P!Key(o)
      BY <1>1, <1>2
    <3>2. x.after = o /\ o # Nothing
      BY <1>1, <1>2, <3>1
    <3>3. x \in Y
      BY <1>4, <3>2
    <3> QED
      BY <3>2, <3>3
  <2>2. ASSUME NEW y \in Y PROVE h[y] \in A
    BY <1>4
  <2> HIDE DEF h, Y
  <2> QED
    BY <2>1, <2>2
<1>11. \A x, y \in X : f[x] = f[y] => x = y
  <2> TAKE x, y \in X
  <2> HAVE f[x] = f[y]
  <2>1. x.before = y.before /\ x.before # Nothing /\ y.before # Nothing
    BY <1>4
  <2>2. P!Key(x.before) = x.key /\ P!Key(y.before) = y.key
    BY <1>4, <2>1
  <2> QED
    BY <1>1, <2>1, <2>2
<1>12. \A x, y \in Y : h[x] = h[y] => x = y
  <2> TAKE x, y \in Y
  <2> HAVE h[x] = h[y]
  <2>1. x.after = y.after /\ x.after # Nothing /\ y.after # Nothing
    BY <1>4
  <2>2. P!Key(x.after) = x.key /\ P!Key(y.after) = y.key
    BY <1>4, <2>1
  <2> QED
    BY <1>1, <2>1, <2>2
<1> HIDE DEF X, Y, f, h
<1>13. IsFiniteSet(X) /\ IsFiniteSet(Y)
  BY <1>1, <1>7, FS_Subset
<1>14. Cardinality(Prior) = Cardinality(X) /\ Cardinality(A) = Cardinality(Y)
  BY <1>8, <1>9, <1>10, <1>11, <1>12, <1>13, ImageIs
<1> HIDE DEF both
<1> QED
  BY <1>5, <1>6, <1>14 DEF C

\* What the engine assembles passes its own verification.
LEMMA AssembledIsVerified ==
  ASSUME P!Observable, NEW q \in P!Queries(Gens)
  PROVE  P!Verified(P!Artifact(q))
<1> DEFINE a == P!Artifact(q)
           r == P!Result(q)
           S == P!Items(q)
           A == P!Observed(q.after)
           C == P!Compared(q)
           old == {x.before : x \in S} \ {Nothing}
           new == {x.after : x \in S} \ {Nothing}
           number(c) == P!Cardinality({i \in DOMAIN r : r[i].class = c})
<1>1. q.after \in Gens /\ (q.before # Nothing => q.before \in Gens)
  BY DEF P!Queries
<1>2. /\ a.items = r /\ a.after = P!Coverage(q.after)
      /\ q.before = Nothing => a.before = Nothing
      /\ q.before # Nothing =>
           /\ a.before = P!Coverage(q.before) /\ a.before # Nothing
           /\ a.summary = [c \in P!Classes |-> P!Cardinality({x \in C : x.class = c})]
  <2>1. q.before # Nothing => P!Coverage(q.before) # Nothing
    BY <1>1 DEF P!Observable
  <2>2. a = [query |-> q, items |-> r, after |-> P!Coverage(q.after),
             before |-> IF q.before = Nothing THEN Nothing ELSE P!Coverage(q.before),
             summary |-> IF q.before = Nothing THEN Nothing
               ELSE [c \in P!Classes |-> P!Cardinality({x \in C : x.class = c})]]
    BY DEF P!Artifact
  <2> HIDE DEF a, r, C
  <2> QED
    BY <2>1, <2>2
<1>3. /\ P!ToSet(r) = S
      /\ \A i, j \in DOMAIN r : i < j => P!Precedes(r[i].key, r[j].key)
  BY ResultIs, Zenon
<1>4. P!Related(old) /\ P!Related(new)
  BY NamedIsRelated, Zenon
<1>5. ASSUME q.before = Nothing
      PROVE  P!Count(new, FALSE) = a.after.documents /\ P!Count(new, TRUE) = a.after.sections
  <2>1. Nothing \notin A
    BY <1>1 DEF P!Observable
  <2>2. new = A
    <3>1. /\ \A i \in S : i.before = Nothing /\ i.after \in A
          /\ \A o \in A : \E i \in S : i.after = o
      BY <1>5, SingleIs
    <3> HIDE DEF S, A
    <3> QED
      BY <2>1, <3>1
  <2>3. Cardinality({o \in A : o.anchor = 0}) = Cardinality(DOMAIN q.after)
    BY <1>1, ObservedCounts, Zenon
  <2>4. /\ P!Coverage(q.after).documents = Cardinality(DOMAIN q.after)
        /\ P!Coverage(q.after).sections = Cardinality({o \in A : o.anchor # 0})
    BY Same DEF P!Coverage
  <2>5. P!Count(A, FALSE) = Cardinality({o \in A : o.anchor = 0})
        /\ P!Count(A, TRUE) = Cardinality({o \in A : o.anchor # 0})
    <3> HIDE DEF A
    <3>1. {o \in A : (o.anchor # 0) = FALSE} = {o \in A : o.anchor = 0}
          /\ {o \in A : (o.anchor # 0) = TRUE} = {o \in A : o.anchor # 0}
      OBVIOUS
    <3> QED
      BY <3>1, Same DEF P!Count
  <2> HIDE DEF a, new, A
  <2> QED
    BY <1>2, <2>2, <2>3, <2>4, <2>5
<1>6. ASSUME q.before # Nothing
      PROVE  /\ \A x \in P!ToSet(a.items) : x.class = P!Classified(x.before, x.after)
             /\ \A c \in P!Classes \ {"unchanged"} : a.summary[c] = number(c)
             /\ P!Total(a.before) = a.summary["unchanged"] + number("relocated")
                                    + number("changed") + number("missing")
             /\ P!Total(a.after) = a.summary["unchanged"] + number("relocated")
                                   + number("changed") + number("added")
  <2>1. \A x \in C : x.class = P!Classified(x.before, x.after)
    BY <1>6, ComparedIs, Zenon
  <2>2. S \subseteq C
    BY <1>6 DEF P!Items
  <2>3. \A c \in P!Classes : a.summary[c] = Number(C, c)
    BY <1>2, <1>6, Same DEF Number
  <2>4. \A c : c # "unchanged" => number(c) = Number(C, c)
    BY <1>6, ItemsOfClass, Zenon
  <2>5. /\ P!Total(P!Coverage(q.before)) = Number(C, "unchanged") + Number(C, "relocated")
             + Number(C, "changed") + Number(C, "missing")
        /\ P!Total(P!Coverage(q.after)) = Number(C, "unchanged") + Number(C, "relocated")
             + Number(C, "changed") + Number(C, "added")
    BY <1>6, EntriesCount, Zenon
  <2>6. "unchanged" \in P!Classes
    BY DEF P!Classes
  <2> HIDE DEF a, r, S, C, number
  <2>7. /\ number("relocated") = Number(C, "relocated") /\ number("changed") = Number(C, "changed")
        /\ number("missing") = Number(C, "missing") /\ number("added") = Number(C, "added")
    BY <2>4
  <2>8. \A x \in P!ToSet(a.items) : x.class = P!Classified(x.before, x.after)
    BY <1>2, <1>3, <2>1, <2>2
  <2>9. \A c \in P!Classes \ {"unchanged"} : a.summary[c] = number(c)
    BY <2>3, <2>4
  <2> QED
    BY <1>2, <1>6, <2>3, <2>5, <2>6, <2>7, <2>8, <2>9
<1>7. a.before = Nothing <=> q.before = Nothing
  BY <1>2, Zenon
<1>8. a.items = r
  BY <1>2, Zenon
<1> HIDE DEF a, r, S, A, C
<1> QED
  BY <1>3, <1>4, <1>5, <1>6, <1>7, <1>8, Zenon DEF P!Verified, a

\* What is exported, or stands at a destination, is an artifact of a query.
Artifacts == {P!Artifact(q) : q \in P!Queries(Gens)}
ArtifactInv ==
  /\ retained \subseteq Gens
  /\ exporter = [x \in Exporters |-> exporter[x]]
  /\ \A x \in Exporters :
       \/ exporter[x] = P!XIdle
       \/ exporter[x].pc \in {"check", "link"} /\ exporter[x].file \in Artifacts
  /\ out \in Artifacts \cup {Nothing}

LEMMA ArtifactInit == P!Init => ArtifactInv
BY DEF P!Init, ArtifactInv

LEMMA ArtifactNext ==
  ASSUME P!Observable, ArtifactInv, [P!Next]_(P!vars)
  PROVE  ArtifactInv'
<1> DEFINE Stage(s) == s = P!XIdle \/ (s.pc \in {"check", "link"} /\ s.file \in Artifacts)
<1> USE DEF ArtifactInv
<1>1. \A q \in P!Queries(retained) : q \in P!Queries(Gens)
  BY DEF P!Queries
<1>2. ASSUME NEW x \in Exporters, NEW s, Stage(s), P!XGoto(x, s)
      PROVE  /\ exporter' = [y \in Exporters |-> exporter'[y]]
             /\ \A y \in Exporters : Stage(exporter'[y])
  <2>1. exporter' = [y \in Exporters |-> IF y = x THEN s ELSE exporter[y]]
    BY <1>2 DEF P!XGoto
  <2>2. \A y \in Exporters : Stage(exporter[y])
    OBVIOUS
  <2> HIDE DEF Stage
  <2> QED
    BY <1>2, <2>1, <2>2
<1>3. Stage(P!XIdle)
  OBVIOUS
<1>4. ASSUME NEW x \in Exporters, P!Export(x) PROVE ArtifactInv'
  <2>1. PICK q \in P!Queries(retained) :
          P!XGoto(x, IF ~P!Fits(q) THEN P!XIdle
                     ELSE IF ~P!Verified(P!Artifact(q)) THEN [pc |-> "rejected", file |-> Nothing]
                     ELSE [pc |-> "check", file |-> P!Artifact(q)])
    BY <1>4 DEF P!Export
  <2>2. P!Verified(P!Artifact(q)) /\ P!Artifact(q) \in Artifacts
    BY <1>1, AssembledIsVerified DEF Artifacts
  <2>3. P!XGoto(x, IF ~P!Fits(q) THEN P!XIdle ELSE [pc |-> "check", file |-> P!Artifact(q)])
    BY <2>1, <2>2
  <2>4. Stage(IF ~P!Fits(q) THEN P!XIdle ELSE [pc |-> "check", file |-> P!Artifact(q)])
    BY <2>2
  <2>5. retained' = retained /\ out' = out
    BY <1>4 DEF P!Export
  <2> QED
    BY <1>2, <2>3, <2>4, <2>5
<1>5. ASSUME NEW x \in Exporters, P!CheckOutput(x) PROVE ArtifactInv'
  <2> DEFINE s == IF out # Nothing THEN P!XIdle ELSE [exporter[x] EXCEPT !.pc = "link"]
  <2>1. P!XGoto(x, s) /\ exporter[x].pc = "check" /\ retained' = retained /\ out' = out
    BY <1>5 DEF P!CheckOutput
  <2>2. exporter[x].file \in Artifacts
    BY <2>1 DEF P!XIdle
  <2>3. [exporter[x] EXCEPT !.pc = "link"].file = exporter[x].file
        /\ [exporter[x] EXCEPT !.pc = "link"].pc \in {"check", "link"}
    OBVIOUS
  <2>4. Stage(s)
    BY <2>2, <2>3
  <2> HIDE DEF s
  <2> QED
    BY <1>2, <2>1, <2>4
<1>6. ASSUME NEW x \in Exporters, P!Link(x) PROVE ArtifactInv'
  <2>1. P!XGoto(x, P!XIdle) /\ exporter[x].pc = "link" /\ retained' = retained
    BY <1>6 DEF P!Link
  <2>2. exporter[x].file \in Artifacts
    BY <2>1 DEF P!XIdle
  <2>3. out' \in Artifacts \cup {Nothing}
    BY <1>6, <2>2 DEF P!Link, P!Publish
  <2> QED
    BY <1>2, <1>3, <2>1, <2>3
<1>7. ASSUME NEW x \in Exporters, P!Abandon(x) PROVE ArtifactInv'
  BY <1>2, <1>3, <1>7 DEF P!Abandon
<1>8. ASSUME P!Index \/ P!Page \/ P!Take \/ UNCHANGED P!vars PROVE ArtifactInv'
  <2>1. exporter' = exporter /\ out' \in {out, Nothing} /\ retained' \subseteq Gens
    BY <1>8 DEF P!Index, P!Page, P!Ask, P!Take, P!vars
  <2> QED
    BY <2>1
<1> QED
  BY <1>4, <1>5, <1>6, <1>7, <1>8 DEF P!Next, P!Write

(* The engine's own verification never refuses what the engine has assembled,
   and an exported comparison, applied to what the one generation observes,
   yields what the other observes (snapshot_artifact, compare_artifact and
   verify_artifact of provider_artifact.py). *)
THEOREM ArtifactExact ==
  ASSUME P!Observable
  PROVE  P!Spec => []P!ArtifactIsExact
<1>1. P!Init => ArtifactInv
  BY ArtifactInit
<1>2. ArtifactInv /\ [P!Next]_(P!vars) => ArtifactInv'
  BY ArtifactNext
<1>3. ASSUME ArtifactInv PROVE P!ArtifactIsExact
  <2>1. ASSUME NEW x \in Exporters PROVE exporter[x].pc # "rejected"
    BY <1>3 DEF ArtifactInv, P!XIdle
  <2>2. ASSUME out # Nothing
        PROVE  LET old == IF out.query.before = Nothing THEN {} ELSE P!Observed(out.query.before)
                   gone == {i.before : i \in P!ToSet(out.items)}
                   come == {i.after : i \in P!ToSet(out.items)} \ {Nothing} IN
               (old \ gone) \cup come = P!Observed(out.query.after)
    <3>1. PICK q \in P!Queries(Gens) : out = P!Artifact(q)
      BY <1>3, <2>2 DEF ArtifactInv, Artifacts
    <3>2. out.query = q /\ out.items = P!Result(q)
      BY <3>1 DEF P!Artifact
    <3>3. P!ToSet(out.items) = P!Items(q)
      BY <3>2, ResultIs
    <3>4. LET old == IF q.before = Nothing THEN {} ELSE P!Observed(q.before)
              gone == {i.before : i \in P!Items(q)}
              come == {i.after : i \in P!Items(q)} \ {Nothing} IN
          (old \ gone) \cup come = P!Observed(q.after)
      BY ComparisonIsExact, Zenon
    <3> QED
      BY <3>2, <3>3, <3>4, Zenon
  <2> QED
    BY <2>1, <2>2, Zenon DEF P!ArtifactIsExact
<1> QED
  BY <1>1, <1>2, <1>3, PTL DEF P!Spec

(* Whatever exports run beside each other, and wherever one of them dies:
   evidence at a destination is only ever taken away by its consumer
   (write_artifact of provider_artifact.py). *)
THEOREM EvidenceStanding == P!Spec => P!EvidenceStands
<1>1. ASSUME [P!Next]_(P!vars), out # Nothing PROVE out' \in {out, Nothing}
  BY <1>1 DEF P!Next, P!Index, P!Page, P!Ask, P!Write, P!Export, P!CheckOutput, P!Link,
              P!Publish, P!Abandon, P!Take, P!vars
<1> QED
  BY <1>1, PTL DEF P!Spec, P!EvidenceStands

-----------------------------------------------------------------------------
(* the pages of a provider *)

\* What pages rely on of what is observable.
Listed ==
  /\ \A q \in P!Queries(Gens) : P!Result(q) \in Seq(P!Items(q)) /\ q # Nothing
  /\ MaxPage \in Nat

LEMMA ListedIs ==
  ASSUME P!Observable
  PROVE  Listed
<1>1. ASSUME NEW q \in P!Queries(Gens) PROVE P!Result(q) \in Seq(P!Items(q)) /\ q # Nothing
  BY ResultIs DEF P!Observable
<1> QED
  BY <1>1 DEF Listed, P!Observable

\* A consumer holds what is before its cursor, or all of it.
PageInv ==
  /\ retained \subseteq Gens
  /\ client = [cursor |-> [query |-> client.cursor.query, offset |-> client.cursor.offset],
               got |-> client.got, done |-> client.done]
  /\ client.cursor.query = Nothing =>
       /\ client.cursor.offset = 0
       /\ client.done = Nothing => client.got = <<>>
  /\ client.cursor.query # Nothing =>
       LET all == P!Result(client.cursor.query) IN
       /\ client.done = Nothing /\ client.cursor.query \in P!Queries(Gens)
       /\ client.cursor.offset \in 1 .. Len(all)
       /\ client.got = SubSeq(all, 1, client.cursor.offset)
  /\ client.done # Nothing =>
       client.done \in P!Queries(Gens) /\ client.got = P!Result(client.done)

\* A page goes on where the one before it ended, and not beyond the result.
LEMMA PageIs ==
  ASSUME Listed, NEW q \in P!Queries(Gens), NEW offset \in Nat, NEW size \in Nat,
         NEW page \in P!Pages(q, offset, size), offset = 0 \/ offset <= Len(P!Result(q))
  PROVE  LET next == offset + Len(page) IN
         /\ next \in 0 .. Len(P!Result(q))
         /\ next = Len(P!Result(q)) \/ next > 0
         /\ SubSeq(P!Result(q), 1, offset) \o page = SubSeq(P!Result(q), 1, next)
<1> DEFINE all == P!Result(q)
           upto == P!Min({Len(all), offset + size})
           ends == {n \in offset + 1 .. upto :
                      P!Weight(SubSeq(all, offset + 1, n)) <= MaxBytes}
<1>1. all \in Seq(P!Items(q)) /\ Len(all) \in Nat
  BY DEF Listed
<1>2. CASE all = <<>>
  <2>1. page = <<>>
    BY <1>2 DEF P!Pages
  <2>2. Len(all) = 0 /\ offset = 0
    BY <1>2
  <2>3. SubSeq(all, 1, 0) = <<>> /\ <<>> \o <<>> = <<>> /\ Len(<<>>) = 0
    BY <1>2
  <2> HIDE DEF all
  <2> QED
    BY <2>1, <2>2, <2>3 DEF all
<1>3. CASE all # <<>>
  <2>0. P!Pages(q, offset, size) = IF offset >= Len(all) \/ ends = {} THEN {}
                                   ELSE {SubSeq(all, offset + 1, P!Max(ends))}
    BY <1>3, Zenon DEF P!Pages
  <2> HIDE DEF ends
  <2>1. page = SubSeq(all, offset + 1, P!Max(ends)) /\ ends # {} /\ offset < Len(all)
    BY <1>1, <2>0
  <2> USE DEF ends
  <2> HIDE DEF all
  <2>2. upto \in Nat /\ upto <= Len(all)
    <3>1. \E x \in {Len(all), offset + size} :
            \A y \in {Len(all), offset + size} : x <= y
      BY <1>1
    <3>2. /\ upto \in {Len(all), offset + size}
          /\ \A y \in {Len(all), offset + size} : upto <= y
      BY <3>1 DEF P!Min
    <3> QED
      BY <1>1, <3>2
  <2> HIDE DEF upto
  <2>3. ends \in SUBSET (1 .. upto)
    OBVIOUS
  <2> HIDE DEF ends
  <2>4. P!Max(ends) \in ends
    <3>1. \E x \in ends : \A y \in ends : y <= x
      BY <2>1, <2>2, <2>3, Largest
    <3>2. \E x \in ends : \A y \in ends : x >= y
      BY <2>3, <3>1
    <3> QED
      BY <3>2 DEF P!Max
  <2> DEFINE m == P!Max(ends)
  <2>5. m \in offset + 1 .. Len(all)
    BY <2>2, <2>4, <1>1 DEF ends
  <2> HIDE DEF m
  <2>6. page = SubSeq(all, offset + 1, m)
    BY <2>1 DEF m
  <2>7. Len(page) = m - offset
    BY <1>1, <2>5, <2>6
  <2>8. offset \in 0 .. Len(all) /\ m \in offset .. Len(all)
    BY <1>1, <2>5
  <2>9. SubSeq(all, 1, offset) \o page = SubSeq(all, 1, m)
    BY <1>1, <2>6, <2>8, ConcatAdjacentSubSeq
  <2>10. offset + Len(page) = m
    BY <1>1, <2>5, <2>7
  <2> QED
    BY <1>1, <2>5, <2>9, <2>10 DEF all
<1> QED
  BY <1>2, <1>3

LEMMA PageStep ==
  ASSUME Listed, PageInv, NEW q \in P!Queries(Gens), NEW size \in Nat, P!Ask(q, size)
  PROVE  PageInv'
<1> DEFINE offset == client.cursor.offset
           begun == IF client.done = Nothing THEN client.got ELSE <<>>
           all == P!Result(q)
<1>1. retained' \subseteq Gens
  BY DEF P!Ask, PageInv
<1>2. CASE client' = P!NoClient
  BY <1>1, <1>2 DEF P!NoClient, P!Fresh, PageInv
<1>3. CASE client' # P!NoClient
  <2>1. P!Continues(client.cursor, q) /\ P!Pages(q, offset, size) # {}
    BY <1>3 DEF P!Ask
  <2>2. PICK page \in P!Pages(q, offset, size) :
          client' = IF offset + Len(page) < Len(all)
                    THEN [cursor |-> [query |-> q, offset |-> offset + Len(page)],
                          got |-> begun \o page, done |-> Nothing]
                    ELSE [cursor |-> P!Fresh, got |-> begun \o page, done |-> q]
    BY <2>1 DEF P!Ask
  <2>3. all \in Seq(P!Items(q)) /\ Len(all) \in Nat /\ q # Nothing
    BY DEF Listed
  <2>4. client.cursor.query = Nothing \/ client.cursor.query = q
    BY <2>1 DEF P!Continues
  <2>5. /\ offset \in Nat /\ (offset = 0 \/ offset <= Len(all))
        /\ begun = SubSeq(all, 1, offset)
    <3>1. CASE client.cursor.query = Nothing
      <4>1. offset = 0 /\ begun = <<>>
        BY <3>1 DEF PageInv
      <4> HIDE DEF offset, begun, all
      <4>2. SubSeq(all, 1, 0) = <<>>
        BY <2>3
      <4> QED
        BY <4>1, <4>2
    <3>2. CASE client.cursor.query # Nothing
      <4>1. /\ client.done = Nothing /\ offset \in 1 .. Len(all)
            /\ client.got = SubSeq(all, 1, offset)
        BY <2>4, <3>2 DEF PageInv
      <4> QED
        BY <2>3, <4>1
    <3> QED
      BY <3>1, <3>2
  <2> HIDE DEF offset, begun, all
  <2> DEFINE next == offset + Len(page)
  <2>6. /\ next \in 0 .. Len(all) /\ (next = Len(all) \/ next > 0)
        /\ begun \o page = SubSeq(all, 1, next)
    BY <2>5, PageIs DEF all
  <2> HIDE DEF next
  <2>7. CASE next < Len(all)
    <3>1. client' = [cursor |-> [query |-> q, offset |-> next],
                     got |-> SubSeq(all, 1, next), done |-> Nothing]
      BY <2>2, <2>6, <2>7 DEF next
    <3>2. next \in 1 .. Len(all)
      BY <2>3, <2>6, <2>7
    <3> QED
      BY <1>1, <2>3, <3>1, <3>2 DEF PageInv, all
  <2>8. CASE ~(next < Len(all))
    <3>1. client' = [cursor |-> P!Fresh, got |-> SubSeq(all, 1, next), done |-> q]
      BY <2>2, <2>6, <2>8 DEF next
    <3>2. SubSeq(all, 1, next) = all
      BY <2>3, <2>6, <2>8
    <3> QED
      BY <1>1, <2>3, <3>1, <3>2 DEF PageInv, all, P!Fresh
  <2> QED
    BY <2>7, <2>8
<1> QED
  BY <1>2, <1>3

LEMMA PageNext ==
  ASSUME Listed, PageInv, [P!Next]_(P!vars)
  PROVE  PageInv'
<1>1. CASE P!Page
  <2>1. PICK q \in P!Queries(retained), size \in 1 .. MaxPage : P!Ask(q, size)
    BY <1>1 DEF P!Page
  <2>2. q \in P!Queries(Gens) /\ size \in Nat
    BY DEF P!Queries, PageInv, Listed
  <2> QED
    BY <2>1, <2>2, PageStep
<1>2. CASE P!Index \/ P!Write \/ UNCHANGED P!vars
  <2>1. client' = client /\ retained' \subseteq Gens
    BY <1>2 DEF P!Index, P!Write, P!Export, P!CheckOutput, P!Link, P!Abandon, P!Take,
                P!vars, PageInv
  <2> QED
    BY <2>1 DEF PageInv
<1> QED
  BY <1>1, <1>2 DEF P!Next

(* Whatever page sizes a consumer asks for, whatever the byte limit cuts off
   and whatever is indexed and evicted between its requests, the pages that it
   followed to a null cursor are together the whole result of one query
   (_bounded_page, the cursor of provider.py). *)
THEOREM PagesWhole ==
  ASSUME P!Observable
  PROVE  P!Spec => []P!PagesReconstruct
<1>1. P!Init => PageInv
  BY DEF P!Init, P!NoClient, P!Fresh, PageInv
<1>2. PageInv /\ [P!Next]_(P!vars) => PageInv'
  BY ListedIs, PageNext
<1>3. PageInv => P!PagesReconstruct
  BY DEF PageInv, P!PagesReconstruct
<1> QED
  BY <1>1, <1>2, <1>3, PTL DEF P!Spec

-----------------------------------------------------------------------------
(* intake *)

\* The decisions that allocate an ID.
Allocates == proposal.decision \in {"create-draft", "create-workstream"}

\* What a guard lists was in use when the proposal was made, so that the
\* proposed number is none of the listed ones.
Unlisted ==
  Allocates =>
    \A p \in Numbers, u \in Numbers :
      <<u, p>> \in proposal.guard.listed => u # proposal.id

\* A number beyond every used one is not used (cli._intake_new_target).
LEMMA NewTargetFree ==
  ASSUME Numbers \subseteq Nat, NEW n \in I!NewTarget
  PROVE  n \in Numbers /\ n \notin I!Used
<1>1. n \in I!Above
  BY DEF I!NewTarget
<1>2. n \in Numbers /\ \A u \in I!Used : n > u
  BY <1>1 DEF I!Above
<1>3. I!Used \subseteq Nat
  BY DEF I!Used
<1> QED
  BY <1>2, <1>3

\* What the guard of this moment lists is in use at this moment.
LEMMA ListedUsed ==
  ASSUME NEW u \in Numbers, NEW p \in Numbers
  PROVE  <<u, p>> \in I!Guard.listed <=> files[p] = u
BY DEF I!Guard

LEMMA UnlistedInit == I!Init => Unlisted
BY DEF I!Init, I!NoProposal, Unlisted, Allocates

\* Only Propose makes a proposal; whatever authors do leaves it as it was.
LEMMA UnlistedStep ==
  ASSUME Numbers \subseteq Nat, Unlisted, [I!Next]_(I!vars)
  PROVE  Unlisted'
<1>1. CASE I!Propose
  <2>1. PICK s \in I!Signals, owners \in 0 .. 2, allowed \in Decisions :
          LET decision == I!Decide(s, owners, allowed) IN
          IF decision \in {"create-draft", "create-workstream"}
            THEN \E n \in I!NewTarget :
                   proposal' = [decision |-> decision, id |-> n, guard |-> I!Guard]
            ELSE proposal' = [decision |-> decision]
    BY <1>1 DEF I!Propose
  <2> DEFINE decision == I!Decide(s, owners, allowed)
  <2>2. CASE decision \in {"create-draft", "create-workstream"}
    <3>1. PICK n \in I!NewTarget :
            proposal' = [decision |-> decision, id |-> n, guard |-> I!Guard]
      BY <2>1, <2>2
    <3>2. proposal'.id = n /\ proposal'.guard = I!Guard
      BY <3>1
    <3>3. ASSUME NEW p \in Numbers, NEW u \in Numbers, <<u, p>> \in I!Guard.listed
          PROVE  u # n
      <4>1. files[p] = u
        BY <3>3, ListedUsed
      <4>2. u \in I!Used
        BY <4>1 DEF I!Used
      <4> QED
        BY <4>2, NewTargetFree
    <3> QED
      BY <3>2, <3>3 DEF Unlisted
  <2>3. CASE decision \notin {"create-draft", "create-workstream"}
    <3>1. proposal'.decision = decision
      BY <2>1, <2>3
    <3> QED
      BY <2>3, <3>1 DEF Unlisted, Allocates
  <2> QED
    BY <2>2, <2>3
<1>2. CASE I!Author \/ UNCHANGED I!vars
  <2>1. proposal' = proposal
    BY <1>2 DEF I!Author, I!vars
  <2> QED
    BY <2>1 DEF Unlisted, Allocates
<1> QED
  BY <1>1, <1>2 DEF I!Next

\* As long as the guard of a proposal matches the catalog, its ID belongs to
\* no document (intake.py, cli._catalog_allocation_guard).
THEOREM GuardSafe ==
  ASSUME Numbers \subseteq Nat
  PROVE  I!Spec => []I!GuardProvesFree
<1>1. Unlisted => I!GuardProvesFree
  <2> SUFFICES ASSUME Unlisted, Allocates, proposal.guard = I!Guard,
                      proposal.id \in I!Used
               PROVE  FALSE
    BY DEF I!GuardProvesFree, Allocates
  <2>1. PICK p \in Numbers : files[p] = proposal.id /\ files[p] \in Numbers
    BY DEF I!Used
  <2>2. <<proposal.id, p>> \in proposal.guard.listed
    BY <2>1, ListedUsed
  <2> QED
    BY <2>1, <2>2 DEF Unlisted
<1>2. I!Init => Unlisted
  BY UnlistedInit
<1>3. Unlisted /\ [I!Next]_(I!vars) => Unlisted'
  BY UnlistedStep
<1> QED
  BY <1>1, <1>2, <1>3, PTL DEF I!Spec

-----------------------------------------------------------------------------
(* the call of a tool of the MCP adapter: it answers with the whole output or
   with none, it ends in time, and it leaves a child behind only where an
   interruption can make it *)

\* Numbers, names and flags are typed apart, for the provers.
Counts ==
  /\ wrote \in [Streams -> Nat] /\ taken \in [Streams -> Nat]
  /\ buffer \in [Streams -> Nat]
  /\ due \in Nat /\ now \in Nat
Names ==
  /\ child \in {"running", "exited", "killed"}
  /\ thread \in [Streams -> {"new", "reading", "returned"}]
  /\ overflow \subseteq Streams
  /\ pc \in {"start", "poll", "wait", "terminate", "grace", "join", "join again",
             "answer", "done"}
Flags ==
  timedOut \in BOOLEAN /\ interrupted \subseteq {"start", "try", "handler", "end"}

\* Where the caller is tells where it can have been interrupted; once it was
\* interrupted in the try, it is in its handler.
Struck ==
  /\ pc = "start" \/ pc = "poll" \/ pc = "wait" => interrupted = {}
  /\ pc = "terminate" \/ pc = "grace" => "handler" \notin interrupted
  /\ pc # "done" => "start" \notin interrupted /\ "end" \notin interrupted
  /\ "handler" \in interrupted => "try" \in interrupted

\* The threads start before the caller enters the try.
Begun ==
  \A n \in Streams :
    /\ pc = "start" => thread[n] = "new"
    /\ pc # "start" /\ pc # "done" => thread[n] # "new"

\* A thread keeps all that it takes within its limit; without an overflow it
\* returns with all that was written.
ThreadsKeep ==
  \A n \in Streams :
    /\ taken[n] <= wrote[n] /\ buffer[n] <= Limit[n]
    /\ n \notin overflow => buffer[n] = taken[n]
    /\ thread[n] = "returned" /\ n \notin overflow => taken[n] = wrote[n]

\* A thread returns at the end of the stream of a child that runs no more, or
\* with an overflow.
ThreadsEnd ==
  \A n \in Streams :
    /\ n \in overflow => thread[n] = "returned"
    /\ thread[n] = "returned" /\ n \notin overflow => child # "running"

\* A child is killed only by the caller, which remembers why.
KilledForCause ==
  /\ child = "killed" \/ pc = "terminate" \/ pc = "grace" =>
       overflow # {} \/ timedOut \/ interrupted # {}
  /\ pc = "start" \/ pc = "poll" \/ pc = "wait" => child # "killed"

\* The caller has not come to the joins.
Waiting == pc \in {"start", "poll", "wait", "terminate", "grace"}

\* Its termination of the child was interrupted, in the handler.
Escaped == "handler" \in interrupted

\* The moment by which the termination is over: an interruption in the try may
\* begin a second one.
Over ==
  IF interrupted \subseteq {"end"} THEN Deadline + Grace ELSE Deadline + Grace + Grace

\* Nobody waits for longer than granted. The clock stands while a thread that
\* is joined can read, so that a join does not come to its due moment, unless
\* its child was left running.
InTime ==
  /\ pc = "start" => now = 0
  /\ pc = "poll" => now < Deadline
  /\ pc = "wait" => now <= due /\ due <= Deadline
  /\ pc = "terminate" => now <= Deadline \/ (interrupted # {} /\ now <= Deadline + Grace)
  /\ pc = "grace" => now <= due /\ due <= Over
  /\ ~Waiting /\ ~Escaped => now <= Over
  /\ (pc = "join" \/ pc = "join again") /\ ~Escaped => now < due
  /\ pc = "join" /\ Escaped => now <= due /\ due <= Over + Join
  /\ pc = "join again" /\ Escaped => now <= due /\ due <= Over + Join + Join
  /\ (pc = "answer" \/ pc = "done") /\ Escaped => now <= Over + Join + Join

\* The child has ended when the caller joins the threads, unless it was left; a
\* join of a call that nothing interrupted ends with the thread.
Joined ==
  /\ ~Waiting /\ ~Escaped /\ "start" \notin interrupted => child # "running"
  /\ ~Waiting /\ pc # "join" /\ interrupted = {} => thread["stdout"] = "returned"
  /\ ~Waiting /\ pc # "join" /\ pc # "join again" /\ interrupted = {} =>
       thread["stderr"] = "returned"

Answered ==
  /\ pc # "done" => outcome = "none"
  /\ outcome = "payload" =>
       pc = "done" /\ overflow = {} /\ ~timedOut /\ interrupted = {}

CallInv ==
  /\ Counts /\ Names /\ Flags /\ Struck /\ Begun /\ ThreadsKeep /\ ThreadsEnd
  /\ KilledForCause /\ InTime /\ Joined /\ Answered

LEMMA CallInit == B!Sizes /\ B!Init => CallInv
<1> SUFFICES ASSUME B!Sizes, B!Init PROVE CallInv
  OBVIOUS
<1>1. Counts /\ Names
  BY DEF Counts, Names, B!Init, B!Sizes
<1>2. ThreadsKeep /\ ThreadsEnd
  BY DEF ThreadsKeep, ThreadsEnd, B!Init, B!Sizes
<1>3. Flags /\ Struck /\ Begun /\ KilledForCause /\ Answered
  BY DEF Flags, Struck, Begun, KilledForCause, Answered, B!Init
<1>4. InTime /\ Joined
  BY DEF InTime, Joined, Waiting, B!Init, B!Sizes
<1> QED
  BY <1>1, <1>2, <1>3, <1>4 DEF CallInv

\* The child writes.
LEMMA WriteStep ==
  ASSUME B!Sizes, CallInv, NEW n \in Streams, B!Write(n)
  PROVE  CallInv'
<1>1. UNCHANGED <<child, B!threads, B!caller, now>> /\ child = "running"
  BY DEF B!Write
<1>2. wrote' = [wrote EXCEPT ![n] = @ + 1]
  BY DEF B!Write
<1>3. Counts'
  BY <1>1, <1>2 DEF CallInv, Counts, B!threads, B!caller
<1>4. ThreadsKeep'
  <2>1. ASSUME NEW m \in Streams PROVE wrote[m] <= wrote'[m]
    BY <1>2 DEF CallInv, Counts
  <2>2. ASSUME NEW m \in Streams, thread[m] = "returned" PROVE m \in overflow
    BY <1>1, <2>2 DEF CallInv, ThreadsEnd
  <2>3. ASSUME NEW m \in Streams
        PROVE  taken[m] \in Nat /\ wrote[m] \in Nat /\ wrote'[m] \in Nat
    BY <1>3 DEF CallInv, Counts
  <2> QED
    BY <1>1, <2>1, <2>2, <2>3 DEF CallInv, ThreadsKeep, B!threads
<1>5. Names' /\ ThreadsEnd' /\ Flags' /\ KilledForCause' /\ Joined' /\ Answered'
  BY <1>1 DEF CallInv, Names, ThreadsEnd, Flags, KilledForCause, Joined, Waiting,
              Escaped, Answered, B!threads, B!caller
<1>7. Struck' /\ Begun'
  BY <1>1 DEF CallInv, Struck, Begun, B!threads, B!caller
<1>6. InTime'
  BY <1>1 DEF CallInv, InTime, Waiting, Escaped, Over, B!caller
<1> QED
  BY <1>3, <1>4, <1>5, <1>6, <1>7 DEF CallInv

\* The child ends by itself.
LEMMA ExitStep == ASSUME CallInv, B!Exit PROVE CallInv'
<1>1. UNCHANGED <<wrote, B!threads, B!caller, now>> /\ child' = "exited"
  BY DEF B!Exit
<1>2. Counts' /\ ThreadsKeep'
  BY <1>1 DEF CallInv, Counts, ThreadsKeep, B!threads, B!caller
<1>3. Names' /\ ThreadsEnd' /\ Flags' /\ KilledForCause' /\ Joined' /\ Answered'
  BY <1>1 DEF CallInv, Names, ThreadsEnd, Flags, KilledForCause, Joined, Waiting,
              Escaped, Answered, B!threads, B!caller
<1>5. Struck' /\ Begun'
  BY <1>1 DEF CallInv, Struck, Begun, B!threads, B!caller
<1>4. InTime'
  BY <1>1 DEF CallInv, InTime, Waiting, Escaped, Over, B!caller
<1> QED
  BY <1>2, <1>3, <1>4, <1>5 DEF CallInv

\* What a thread that reads leaves as it was.
LEMMA ReadingKeeps ==
  ASSUME B!Sizes, CallInv, NEW n \in Streams, thread[n] = "reading",
         UNCHANGED <<B!process, B!caller, now>>, overflow \subseteq overflow',
         thread'[n] # "new", \A m \in Streams : m # n => thread'[m] = thread[m]
  PROVE  /\ Flags' /\ Struck' /\ Begun' /\ KilledForCause' /\ InTime' /\ Joined'
         /\ Answered'
<1>1. InTime' /\ Struck'
  BY DEF CallInv, InTime, Struck, Waiting, Escaped, Over, B!caller
<1>2. outcome # "payload"
  BY DEF CallInv, Joined, Answered, Waiting, B!Sizes
<1>3. Joined' /\ Begun'
  BY DEF CallInv, Joined, Begun, Waiting, Escaped, B!Sizes, B!process, B!caller
<1>4. Flags' /\ KilledForCause' /\ Answered'
  BY <1>2 DEF CallInv, Flags, KilledForCause, Answered, B!process, B!caller
<1> QED
  BY <1>1, <1>3, <1>4

\* A thread reads a chunk, and cuts it if it does not fit.
LEMMA DrainStep ==
  ASSUME B!Sizes, CallInv, NEW n \in Streams, B!Drain(n)
  PROVE  CallInv'
<1>1. PICK k \in 1 .. wrote[n] - taken[n] :
        /\ taken' = [taken EXCEPT ![n] = @ + k]
        /\ IF k > Limit[n] - buffer[n]
           THEN /\ buffer' = [buffer EXCEPT ![n] = Limit[n]]
                /\ thread' = [thread EXCEPT ![n] = "returned"]
                /\ overflow' = overflow \cup {n}
           ELSE /\ buffer' = [buffer EXCEPT ![n] = @ + k]
                /\ UNCHANGED <<thread, overflow>>
  BY DEF B!Drain
<1>2. UNCHANGED <<B!process, B!caller, now>> /\ thread[n] = "reading"
  BY DEF B!Drain, B!Readable
<1>3. k \in Nat /\ k <= wrote[n] - taken[n]
  BY DEF CallInv, Counts
<1>4. \A m \in Streams :
        taken[m] \in Nat /\ wrote[m] \in Nat /\ buffer[m] \in Nat /\ Limit[m] \in Nat
  BY DEF CallInv, Counts, B!Sizes
<1>5. DOMAIN taken = Streams /\ DOMAIN buffer = Streams /\ DOMAIN thread = Streams
  BY DEF CallInv, Counts, Names
<1>6. Counts'
  BY <1>1, <1>2, <1>3, <1>4 DEF CallInv, Counts, B!process, B!caller
<1>7. CASE k > Limit[n] - buffer[n]
  <2>1. /\ buffer' = [buffer EXCEPT ![n] = Limit[n]]
        /\ thread' = [thread EXCEPT ![n] = "returned"]
        /\ overflow' = overflow \cup {n}
    BY <1>1, <1>7
  <2>2. Names' /\ ThreadsEnd'
    BY <1>2, <2>1 DEF CallInv, Names, ThreadsEnd, B!process, B!caller
  <2>3. ThreadsKeep'
    BY <1>1, <1>2, <1>3, <1>4, <1>5, <2>1 DEF CallInv, ThreadsKeep, B!process
  <2>4. /\ Flags' /\ Struck' /\ Begun' /\ KilledForCause' /\ InTime' /\ Joined'
        /\ Answered'
    BY <1>2, <1>5, <2>1, ReadingKeeps
  <2> QED
    BY <1>6, <2>2, <2>3, <2>4 DEF CallInv
<1>8. CASE ~(k > Limit[n] - buffer[n])
  <2>1. buffer' = [buffer EXCEPT ![n] = @ + k] /\ UNCHANGED <<thread, overflow>>
    BY <1>1, <1>8
  <2>2. Names' /\ ThreadsEnd'
    BY <1>2, <2>1 DEF CallInv, Names, ThreadsEnd, B!process, B!caller
  <2>3. ThreadsKeep'
    BY <1>1, <1>2, <1>3, <1>4, <1>5, <1>8, <2>1 DEF CallInv, ThreadsKeep, B!process
  <2>4. /\ Flags' /\ Struck' /\ Begun' /\ KilledForCause' /\ InTime' /\ Joined'
        /\ Answered'
    BY <1>2, <2>1, ReadingKeeps
  <2> QED
    BY <1>6, <2>2, <2>3, <2>4 DEF CallInv
<1> QED
  BY <1>7, <1>8

\* A thread finds the end of its stream.
LEMMA EndStep ==
  ASSUME B!Sizes, CallInv, NEW n \in Streams, B!EndOfFile(n)
  PROVE  CallInv'
<1>1. /\ UNCHANGED <<B!process, taken, buffer, overflow, B!caller, now>>
      /\ thread' = [thread EXCEPT ![n] = "returned"]
      /\ thread[n] = "reading" /\ child # "running" /\ wrote[n] = taken[n]
  BY DEF B!EndOfFile, B!AtEnd
<1>2. DOMAIN thread = Streams
  BY DEF CallInv, Names
<1>3. Counts'
  BY <1>1 DEF CallInv, Counts, B!process, B!caller
<1>4. ThreadsKeep'
  BY <1>1, <1>2 DEF CallInv, ThreadsKeep, B!process
<1>5. Names' /\ ThreadsEnd'
  BY <1>1 DEF CallInv, Names, ThreadsEnd, B!process, B!caller
<1>6. /\ Flags' /\ Struck' /\ Begun' /\ KilledForCause' /\ InTime' /\ Joined'
      /\ Answered'
  BY <1>1, <1>2, ReadingKeeps
<1> QED
  BY <1>3, <1>4, <1>5, <1>6 DEF CallInv

\* What every step of the caller leaves as it was.
LEMMA CallerKeeps ==
  ASSUME CallInv, UNCHANGED <<wrote, B!threads, now>>, child' \in {child, "killed"},
         due' \in Nat,
         pc' \in {"poll", "wait", "terminate", "grace", "join", "join again",
                  "answer", "done"},
         pc' = "done" \/ (pc # "start" /\ pc # "done")
  PROVE  Counts' /\ Names' /\ Begun' /\ ThreadsKeep' /\ ThreadsEnd'
<1>1. Counts' /\ ThreadsKeep'
  BY DEF CallInv, Counts, ThreadsKeep, B!threads
<1>2. Names' /\ Begun' /\ ThreadsEnd'
  BY DEF CallInv, Names, Begun, ThreadsEnd, B!threads
<1> QED
  BY <1>1, <1>2

\* The due moment of a wait.
LEMMA Due ==
  ASSUME CallInv, B!Sizes
  PROVE  /\ now \in Nat /\ due \in Nat /\ now + 1 \in Nat /\ now + 0 \in Nat
         /\ now + Grace \in Nat /\ now + Join \in Nat /\ now < now + Join
         /\ Deadline \in Nat /\ Grace \in Nat /\ Join \in Nat
BY DEF CallInv, Counts, B!Sizes

\* When a termination is over, with and without an interruption in the try.
LEMMA OverIs ==
  ASSUME B!Sizes
  PROVE  /\ Over \in Nat /\ Deadline + Grace <= Over
         /\ Over <= Deadline + Grace + Grace
         /\ "try" \in interrupted => Over = Deadline + Grace + Grace
BY DEF Over, B!Sizes

\* The joins of a call whose child was left behind end in time.
LEMMA JoinsEnd ==
  ASSUME B!Sizes, CallInv, Escaped
  PROVE  /\ pc = "join" => now <= Over + Join
         /\ pc \in {"join", "join again", "answer", "done"} => now <= Over + Join + Join
<1>1. now \in Nat /\ due \in Nat /\ Join \in Nat /\ Over \in Nat
  BY Due, OverIs
<1>2. CASE pc = "join"
  <2>1. now <= due /\ due <= Over + Join
    BY <1>2 DEF CallInv, InTime
  <2> QED
    BY <1>1, <1>2, <2>1
<1>3. CASE pc = "join again"
  <2>1. now <= due /\ due <= Over + Join + Join
    BY <1>3 DEF CallInv, InTime
  <2>2. now <= Over + Join + Join
    BY <1>1, <2>1
  <2> QED
    BY <1>3, <2>2
<1>4. CASE pc = "answer" \/ pc = "done"
  BY <1>4 DEF CallInv, InTime
<1> QED
  BY <1>2, <1>3, <1>4

\* The caller enters the try, with its threads running.
LEMMA BeginStep == ASSUME B!Sizes, CallInv, B!Begin PROVE CallInv'
<1>1. /\ UNCHANGED <<B!process, taken, buffer, overflow, due, now, timedOut, interrupted,
                     outcome>>
      /\ pc = "start" /\ pc' = "poll" /\ thread' = [n \in Streams |-> "reading"]
  BY DEF B!Begin
<1>2. \A n \in Streams : thread[n] = "new"
  BY <1>1 DEF CallInv, Begun
<1>3. Counts' /\ Names' /\ Flags'
  BY <1>1 DEF CallInv, Counts, Names, Flags, B!process
<1>4. Struck' /\ Begun' /\ Answered'
  BY <1>1 DEF CallInv, Struck, Begun, Answered
<1>5. ThreadsKeep' /\ ThreadsEnd'
  BY <1>1, <1>2 DEF CallInv, ThreadsKeep, ThreadsEnd, B!process
<1>6. KilledForCause' /\ Joined'
  BY <1>1 DEF CallInv, KilledForCause, Joined, Waiting, B!process
<1>7. InTime'
  BY <1>1, Due DEF CallInv, InTime, Waiting, B!Sizes
<1> QED
  BY <1>3, <1>4, <1>5, <1>6, <1>7 DEF CallInv

\* The caller polls the child.
LEMMA PollStep == ASSUME B!Sizes, CallInv, B!Poll PROVE CallInv'
<1>1. UNCHANGED <<B!process, B!threads, now, outcome, timedOut, interrupted>> /\ pc = "poll"
  BY DEF B!Poll, B!Goto
<1>2. child = "running" => pc' = "wait" /\ due' = now + 1
  BY DEF B!Poll, B!Goto
<1>3. child # "running" => pc' = "join" /\ due' = now + Join
  BY DEF B!Poll, B!Goto
<1>4. now < Deadline /\ interrupted = {}
  BY <1>1 DEF CallInv, InTime, Struck
<1>5. Flags' /\ Struck' /\ Answered'
  BY <1>1, <1>2, <1>3, <1>4 DEF CallInv, Flags, Struck, Answered
<1>6. KilledForCause' /\ Joined'
  BY <1>1, <1>2, <1>3 DEF CallInv, KilledForCause, Joined, Waiting, B!process, B!threads
<1>7. CASE child = "running"
  <2>1. Counts' /\ Names' /\ Begun' /\ ThreadsKeep' /\ ThreadsEnd'
    BY <1>1, <1>2, <1>7, Due, CallerKeeps DEF B!process
  <2>2. now <= now + 1 /\ now + 1 <= Deadline
    BY <1>4, Due
  <2>3. InTime'
    BY <1>1, <1>2, <1>7, <2>2 DEF InTime, Waiting
  <2> QED
    BY <1>5, <1>6, <2>1, <2>3 DEF CallInv
<1>8. CASE child # "running"
  <2>1. Counts' /\ Names' /\ Begun' /\ ThreadsKeep' /\ ThreadsEnd'
    BY <1>1, <1>3, <1>8, Due, CallerKeeps DEF B!process
  <2>2. now <= Over
    BY <1>4, Due, OverIs
  <2>3. InTime'
    BY <1>1, <1>3, <1>4, <1>8, <2>2, Due DEF InTime, Waiting, Escaped, Over
  <2> QED
    BY <1>5, <1>6, <2>1, <2>3 DEF CallInv
<1> QED
  BY <1>7, <1>8

\* The caller stops waiting: for an overflow, for the deadline, or to poll.
LEMMA WaitStep == ASSUME B!Sizes, CallInv, B!Wait PROVE CallInv'
<1>1. UNCHANGED <<B!process, B!threads, due, now, interrupted, outcome>> /\ pc = "wait"
  BY DEF B!Wait
<1>2. timedOut' \in BOOLEAN /\ interrupted = {}
  BY <1>1 DEF B!Wait, CallInv, Struck
<1>3. CASE overflow # {} \/ now >= Deadline
  <2>1. pc' = "terminate" /\ (overflow # {} \/ timedOut')
    BY <1>3 DEF B!Wait
  <2>2. Counts' /\ Names' /\ Begun' /\ ThreadsKeep' /\ ThreadsEnd'
    BY <1>1, <2>1, Due, CallerKeeps DEF B!process
  <2>3. now <= Deadline
    BY <1>1, Due DEF CallInv, InTime
  <2>4. InTime'
    BY <1>1, <2>1, <2>3 DEF InTime, Waiting
  <2>5. Flags' /\ Struck' /\ Answered' /\ KilledForCause' /\ Joined'
    BY <1>1, <1>2, <2>1
       DEF CallInv, Flags, Struck, Answered, KilledForCause, Joined, Waiting, B!threads
  <2> QED
    BY <2>2, <2>4, <2>5 DEF CallInv
<1>4. CASE ~(overflow # {} \/ now >= Deadline)
  <2>1. pc' = "poll" /\ overflow = {} /\ timedOut' = FALSE
    BY <1>4 DEF B!Wait
  <2>2. Counts' /\ Names' /\ Begun' /\ ThreadsKeep' /\ ThreadsEnd'
    BY <1>1, <2>1, Due, CallerKeeps DEF B!process
  <2>3. now < Deadline
    BY <1>4, Due
  <2>4. InTime'
    BY <1>1, <2>1, <2>3 DEF InTime, Waiting
  <2>5. child # "killed"
    BY <1>1 DEF CallInv, KilledForCause
  <2>6. Flags' /\ Struck' /\ Answered' /\ KilledForCause' /\ Joined'
    BY <1>1, <1>2, <2>1, <2>5
       DEF CallInv, Flags, Struck, Answered, KilledForCause, Joined, Waiting, B!process,
           B!threads
  <2> QED
    BY <2>2, <2>4, <2>6 DEF CallInv
<1> QED
  BY <1>3, <1>4

\* The wrapper is interrupted: in the try, in the handler that terminates the
\* child, or where nothing handles it.
LEMMA InterruptStep == ASSUME B!Sizes, CallInv, B!Interrupt PROVE CallInv'
<1>1. /\ UNCHANGED <<B!process, B!threads, now, timedOut>> /\ pc # "done"
      /\ interrupted' = interrupted \cup {B!Place}
  BY DEF B!Interrupt
<1>2. B!Place \in {"start", "try", "handler", "end"}
  BY DEF B!Place
<1>3. outcome = "none" /\ outcome' # "payload"
  BY <1>1 DEF B!Interrupt, CallInv, Answered
<1>4. Flags'
  BY <1>1, <1>2 DEF CallInv, Flags
<1>5. CASE B!Place = "try"
  <2>1. pc' = "terminate" /\ UNCHANGED <<due, outcome>>
    BY <1>5 DEF B!Interrupt
  <2>2. interrupted = {} /\ interrupted' = {"try"}
    BY <1>1, <1>5 DEF B!Place
  <2>3. pc \in {"poll", "wait", "terminate", "grace"}
    BY <1>5 DEF B!Place
  <2>4. Counts' /\ Names' /\ Begun' /\ ThreadsKeep' /\ ThreadsEnd'
    BY <1>1, <2>1, <2>3, Due, CallerKeeps DEF B!process
  <2>5. now <= Deadline + Grace
    <3>1. Over = Deadline + Grace
      BY <2>2 DEF Over
    <3>2. CASE pc = "poll"
      BY <3>2, Due DEF CallInv, InTime
    <3>3. CASE pc = "wait"
      BY <3>3, Due DEF CallInv, InTime
    <3>4. CASE pc = "terminate"
      BY <2>2, <3>4, Due DEF CallInv, InTime
    <3>5. CASE pc = "grace"
      BY <3>1, <3>5, Due DEF CallInv, InTime
    <3> QED
      BY <2>3, <3>2, <3>3, <3>4, <3>5
  <2>6. InTime'
    BY <1>1, <2>1, <2>2, <2>5 DEF InTime, Waiting
  <2>7. Struck' /\ Answered' /\ KilledForCause' /\ Joined'
    BY <1>1, <1>3, <2>1, <2>2 DEF Struck, Answered, KilledForCause, Joined, Waiting
  <2> QED
    BY <1>4, <2>4, <2>6, <2>7 DEF CallInv
<1>6. CASE B!Place = "handler"
  <2>1. pc' = "join" /\ due' = now + Join /\ UNCHANGED outcome
    BY <1>6 DEF B!Interrupt
  <2>2. pc \in {"poll", "wait", "terminate", "grace"} /\ interrupted # {}
    BY <1>6 DEF B!Place
  <2>3. pc \in {"terminate", "grace"} /\ interrupted = {"try"}
    BY <2>2 DEF CallInv, Struck, Flags
  <2>4. interrupted' = {"try", "handler"}
    BY <1>1, <1>6, <2>3
  <2>5. Counts' /\ Names' /\ Begun' /\ ThreadsKeep' /\ ThreadsEnd'
    BY <1>1, <2>1, <2>3, Due, CallerKeeps DEF B!process
  <2>6. now <= Deadline + Grace + Grace
    <3>1. CASE pc = "terminate"
      BY <3>1, Due DEF CallInv, InTime
    <3>2. CASE pc = "grace"
      BY <3>2, Due, OverIs DEF CallInv, InTime
    <3> QED
      BY <2>3, <3>1, <3>2
  <2>7. Over' = Deadline + Grace + Grace
    BY <2>4 DEF Over
  <2>8. InTime'
    BY <1>1, <2>1, <2>4, <2>6, <2>7, Due DEF InTime, Waiting, Escaped
  <2>9. Struck' /\ Answered' /\ KilledForCause' /\ Joined'
    BY <1>1, <1>3, <2>1, <2>4
       DEF CallInv, Struck, Answered, KilledForCause, Joined, Waiting, Escaped
  <2> QED
    BY <1>4, <2>5, <2>8, <2>9 DEF CallInv
<1>7. CASE B!Place = "start"
  <2>1. pc = "start" /\ pc' = "done" /\ UNCHANGED due /\ outcome' = "interrupted"
    BY <1>7 DEF B!Interrupt, B!Place
  <2>2. interrupted' = {"start"} /\ now = 0
    BY <1>1, <1>7, <2>1 DEF CallInv, Struck, InTime
  <2>3. Counts' /\ Names' /\ Begun' /\ ThreadsKeep' /\ ThreadsEnd'
    BY <1>1, <2>1, Due, CallerKeeps DEF B!process
  <2>4. InTime'
    BY <1>1, <2>1, <2>2 DEF InTime, Waiting, Escaped, Over, B!Sizes
  <2>5. Struck' /\ Answered' /\ KilledForCause' /\ Joined'
    BY <1>1, <2>1, <2>2
       DEF CallInv, Struck, Answered, KilledForCause, Joined, Waiting, B!process
  <2> QED
    BY <1>4, <2>3, <2>4, <2>5 DEF CallInv
<1>8. CASE B!Place = "end"
  <2>1. pc' = "done" /\ UNCHANGED due /\ outcome' = "interrupted"
    BY <1>8 DEF B!Interrupt
  <2>2. pc \in {"join", "join again", "answer"}
    BY <1>1, <1>8 DEF B!Place, CallInv, Names
  <2>3. interrupted' = interrupted \cup {"end"}
    BY <1>1, <1>8
  <2>4. Counts' /\ Names' /\ Begun' /\ ThreadsKeep' /\ ThreadsEnd'
    BY <1>1, <2>1, Due, CallerKeeps DEF B!process
  <2>5. Over' = Over /\ Escaped' = Escaped
    BY <2>3 DEF Over, Escaped
  <2>6. Escaped => now <= Over + Join + Join
    BY <2>2, JoinsEnd
  <2>7. InTime'
    BY <1>1, <2>1, <2>2, <2>5, <2>6 DEF CallInv, InTime, Waiting
  <2>8. Struck' /\ Answered'
    BY <1>3, <2>1, <2>3 DEF CallInv, Struck, Answered
  <2>9. KilledForCause' /\ Joined'
    BY <1>1, <2>1, <2>2, <2>3, <2>5
       DEF CallInv, KilledForCause, Joined, Waiting, B!process, B!threads
  <2> QED
    BY <1>4, <2>4, <2>7, <2>8, <2>9 DEF CallInv
<1> QED
  BY <1>2, <1>5, <1>6, <1>7, <1>8

\* The caller sends SIGTERM, or finds the child ended.
LEMMA TerminateStep == ASSUME B!Sizes, CallInv, B!Terminate PROVE CallInv'
<1>1. /\ UNCHANGED <<wrote, B!threads, now, outcome, timedOut, interrupted>>
      /\ pc = "terminate"
  BY DEF B!Terminate, B!Goto
<1>2. now <= Over /\ now + Grace <= Over
  <2>1. CASE now <= Deadline
    BY <2>1, Due, OverIs
  <2>2. CASE interrupted # {} /\ now <= Deadline + Grace
    <3>1. "try" \in interrupted
      BY <1>1, <2>2 DEF CallInv, Flags, Struck
    <3> QED
      BY <2>2, <3>1, Due, OverIs
  <2> QED
    BY <1>1, <2>1, <2>2 DEF CallInv, InTime
<1>3. Over' = Over /\ Escaped' = Escaped /\ ~Escaped
  BY <1>1 DEF Over, Escaped, CallInv, Struck
<1>4. Flags' /\ Answered'
  BY <1>1 DEF CallInv, Flags, Answered, B!Terminate, B!Goto
<1>5. CASE child # "running"
  <2>1. pc' = "join" /\ due' = now + Join /\ child' = child
    BY <1>5 DEF B!Terminate, B!Goto
  <2>2. Counts' /\ Names' /\ Begun' /\ ThreadsKeep' /\ ThreadsEnd'
    BY <1>1, <2>1, Due, CallerKeeps
  <2>3. InTime'
    BY <1>1, <1>2, <1>3, <2>1, Due DEF InTime, Waiting
  <2>4. Struck' /\ KilledForCause' /\ Joined'
    BY <1>1, <1>5, <2>1 DEF CallInv, Struck, KilledForCause, Joined, Waiting, B!threads
  <2> QED
    BY <1>4, <2>2, <2>3, <2>4 DEF CallInv
<1>6. CASE child = "running"
  <2>1. pc' = "grace" /\ due' = now + Grace /\ child' \in {child, "killed"}
    BY <1>6 DEF B!Terminate, B!Goto
  <2>2. Counts' /\ Names' /\ Begun' /\ ThreadsKeep' /\ ThreadsEnd'
    BY <1>1, <2>1, Due, CallerKeeps
  <2>3. now <= now + Grace
    BY Due
  <2>4. InTime'
    BY <1>1, <1>2, <1>3, <2>1, <2>3 DEF InTime, Waiting
  <2>5. Struck' /\ KilledForCause' /\ Joined'
    BY <1>1, <2>1 DEF CallInv, Struck, KilledForCause, Joined, Waiting, B!threads
  <2> QED
    BY <1>4, <2>2, <2>4, <2>5 DEF CallInv
<1> QED
  BY <1>5, <1>6

\* The grace ends, with SIGKILL if need be.
LEMMA ReapStep == ASSUME B!Sizes, CallInv, B!Reap PROVE CallInv'
<1>1. /\ UNCHANGED <<wrote, B!threads, now, outcome, timedOut, interrupted>>
      /\ pc = "grace" /\ pc' = "join" /\ due' = now + Join
      /\ child' = IF child = "running" THEN "killed" ELSE child
  BY DEF B!Reap, B!Kill, B!Goto
<1>2. Counts' /\ Names' /\ Begun' /\ ThreadsKeep' /\ ThreadsEnd'
  BY <1>1, Due, CallerKeeps
<1>3. now <= Over
  BY <1>1, Due, OverIs DEF CallInv, InTime
<1>4. Over' = Over /\ Escaped' = Escaped /\ ~Escaped
  BY <1>1 DEF Over, Escaped, CallInv, Struck
<1>5. InTime'
  BY <1>1, <1>3, <1>4, Due DEF InTime, Waiting
<1>6. Struck' /\ KilledForCause' /\ Joined'
  BY <1>1 DEF CallInv, Struck, KilledForCause, Joined, Waiting, B!threads
<1>7. Flags' /\ Answered'
  BY <1>1 DEF CallInv, Flags, Answered
<1> QED
  BY <1>2, <1>5, <1>6, <1>7 DEF CallInv

\* A join ends. Unless the child was left running, its due moment has not come,
\* so that its thread has returned.
LEMMA JoinStep == ASSUME B!Sizes, CallInv, B!JoinThread PROVE CallInv'
<1>1. UNCHANGED <<B!process, B!threads, now, outcome, timedOut, interrupted>>
  BY DEF B!JoinThread, B!Goto
<1>2. Over' = Over /\ Escaped' = Escaped
  BY <1>1 DEF Over, Escaped
<1>3. CASE pc = "join"
  <2>1. pc' = "join again" /\ due' = now + Join
    BY <1>3 DEF B!JoinThread, B!Goto
  <2>2. ~Escaped => now < due /\ now <= Over
    BY <1>3 DEF CallInv, InTime, Waiting
  <2>3. Escaped => now <= Over + Join
    BY <1>3, JoinsEnd
  <2>4. interrupted = {} => thread["stdout"] = "returned"
    <3>1. interrupted = {} => ~(now >= due)
      BY <2>2, Due DEF Escaped
    <3> QED
      BY <1>3, <3>1 DEF B!JoinThread, B!JoinEnds
  <2>5. Counts' /\ Names' /\ Begun' /\ ThreadsKeep' /\ ThreadsEnd'
    BY <1>1, <1>3, <2>1, Due, CallerKeeps DEF B!process
  <2>6. InTime'
    <3>1. ASSUME Escaped PROVE now + Join <= Over + Join + Join
      <4>1. now <= Over + Join /\ now \in Nat /\ Over \in Nat /\ Join \in Nat
        BY <2>3, <3>1, Due, OverIs
      <4> QED
        BY <4>1
    <3>2. now < now + Join /\ now <= now + Join
      BY Due
    <3> QED
      BY <1>1, <1>2, <2>1, <2>2, <3>1, <3>2 DEF InTime, Waiting
  <2>7. Flags' /\ Struck' /\ Answered' /\ KilledForCause' /\ Joined'
    BY <1>1, <1>2, <1>3, <2>1, <2>4
       DEF CallInv, Flags, Struck, Answered, KilledForCause, Joined, Waiting, B!process,
           B!threads
  <2> QED
    BY <2>5, <2>6, <2>7 DEF CallInv
<1>4. CASE pc = "join again"
  <2>1. pc' = "answer" /\ due' = now + 0
    BY <1>4 DEF B!JoinThread, B!Goto
  <2>2. ~Escaped => now < due /\ now <= Over
    BY <1>4 DEF CallInv, InTime, Waiting
  <2>3. Escaped => now <= Over + Join + Join
    BY <1>4, JoinsEnd
  <2>4. interrupted = {} => thread["stderr"] = "returned"
    <3>1. interrupted = {} => ~(now >= due)
      BY <2>2, Due DEF Escaped
    <3> QED
      BY <1>4, <3>1 DEF B!JoinThread, B!JoinEnds
  <2>5. Counts' /\ Names' /\ Begun' /\ ThreadsKeep' /\ ThreadsEnd'
    BY <1>1, <1>4, <2>1, Due, CallerKeeps DEF B!process
  <2>6. InTime'
    BY <1>1, <1>2, <2>1, <2>2, <2>3 DEF InTime, Waiting
  <2>7. Flags' /\ Struck' /\ Answered' /\ KilledForCause' /\ Joined'
    BY <1>1, <1>2, <1>4, <2>1, <2>4
       DEF CallInv, Flags, Struck, Answered, KilledForCause, Joined, Waiting, B!process,
           B!threads
  <2> QED
    BY <2>5, <2>6, <2>7 DEF CallInv
<1> QED
  BY <1>3, <1>4 DEF B!JoinThread, B!JoinEnds

\* The caller answers.
LEMMA ReturnStep == ASSUME B!Sizes, CallInv, B!Return PROVE CallInv'
<1>1. /\ UNCHANGED <<B!process, B!threads, due, now, timedOut, interrupted>>
      /\ pc = "answer" /\ pc' = "done"
  BY DEF B!Return
<1>2. PICK allow \in BOOLEAN : outcome' = B!Verdict(allow)
  BY DEF B!Return
<1>3. outcome' = "payload" => overflow = {} /\ ~timedOut /\ interrupted = {}
  BY <1>2 DEF B!Verdict
<1>4. Counts' /\ Names' /\ Begun' /\ ThreadsKeep' /\ ThreadsEnd'
  BY <1>1, Due, CallerKeeps DEF B!process
<1>5. Over' = Over /\ Escaped' = Escaped
  BY <1>1 DEF Over, Escaped
<1>6. InTime'
  BY <1>1, <1>5 DEF CallInv, InTime, Waiting
<1>7. Flags' /\ Struck' /\ Answered' /\ KilledForCause' /\ Joined'
  BY <1>1, <1>3, <1>5
     DEF CallInv, Flags, Struck, Answered, KilledForCause, Joined, Waiting, B!process,
         B!threads
<1> QED
  BY <1>4, <1>6, <1>7 DEF CallInv

\* The clock moves while the caller waits, and in the joins only if the child
\* was left: a thread whose child has ended can read or find the end of its
\* stream.
LEMMA TickStep == ASSUME B!Sizes, CallInv, B!Tick PROVE CallInv'
<1>1. UNCHANGED <<B!process, B!threads, B!caller>> /\ now' = now + 1
  BY DEF B!Tick
<1>2. ASSUME child # "running", NEW n \in Streams, thread[n] = "reading" PROVE FALSE
  <2>1. ~(wrote[n] > taken[n]) /\ wrote[n] # taken[n]
    BY <1>2 DEF B!Tick, B!Readable, B!AtEnd
  <2>2. wrote[n] \in Nat /\ taken[n] \in Nat /\ taken[n] <= wrote[n]
    BY DEF CallInv, Counts, ThreadsKeep
  <2> QED
    BY <2>1, <2>2
<1>3. ASSUME pc = "join" \/ pc = "join again" PROVE Escaped /\ ~(now >= due)
  <2>1. \A n \in Streams : thread[n] \in {"reading", "returned"}
    BY <1>3 DEF CallInv, Names, Begun
  <2>2. ~(now >= due) /\ \E n \in Streams : thread[n] # "returned"
    BY <1>3 DEF B!Tick, B!JoinEnds, B!Sizes
  <2>3. child = "running"
    BY <1>2, <2>1, <2>2
  <2> QED
    BY <1>3, <2>2, <2>3 DEF CallInv, Joined, Struck, Waiting
<1>4. pc \in {"wait", "grace", "join", "join again"} /\ ~(now >= due)
  BY <1>3 DEF B!Tick, B!WaitEnds, B!GraceEnds
<1>5. now + 1 <= due
  <2>1. now \in Nat /\ due \in Nat /\ ~(now >= due)
    BY <1>4, Due
  <2> QED
    BY <2>1
<1>6. Counts'
  BY <1>1, Due DEF CallInv, Counts, B!process, B!threads, B!caller
<1>7. UNCHANGED <<pc, due, interrupted, Over, Escaped>>
  BY <1>1 DEF B!caller, Over, Escaped
<1>8. InTime'
  BY <1>1, <1>3, <1>4, <1>5, <1>7 DEF CallInv, InTime, Waiting
<1>9. ThreadsKeep'
  BY <1>1 DEF CallInv, ThreadsKeep, B!process, B!threads
<1>10. Names' /\ ThreadsEnd' /\ Flags' /\ KilledForCause' /\ Joined' /\ Answered'
  BY <1>1 DEF CallInv, Names, ThreadsEnd, Flags, KilledForCause, Joined, Waiting,
              Escaped, Answered, B!process, B!threads, B!caller
<1>11. Struck' /\ Begun'
  BY <1>1 DEF CallInv, Struck, Begun, B!threads, B!caller
<1> QED
  BY <1>6, <1>8, <1>9, <1>10, <1>11 DEF CallInv

LEMMA CallInductive == B!Sizes /\ CallInv /\ [B!Next]_(B!vars) => CallInv'
<1> SUFFICES ASSUME B!Sizes, CallInv, [B!Next]_(B!vars) PROVE CallInv'
  OBVIOUS
<1>1. CASE UNCHANGED B!vars
  <2>1. Counts' /\ ThreadsKeep'
    BY <1>1 DEF B!vars, CallInv, Counts, ThreadsKeep
  <2>2. InTime'
    BY <1>1 DEF B!vars, CallInv, InTime, Waiting, Escaped, Over
  <2>3. Names' /\ ThreadsEnd' /\ Flags' /\ KilledForCause' /\ Joined' /\ Answered'
    BY <1>1 DEF B!vars, CallInv, Names, ThreadsEnd, Flags, KilledForCause, Joined,
                Waiting, Escaped, Answered
  <2>4. Struck' /\ Begun'
    BY <1>1 DEF B!vars, CallInv, Struck, Begun
  <2> QED
    BY <2>1, <2>2, <2>3, <2>4 DEF CallInv
<1>2. CASE B!Next
  BY <1>2, WriteStep, ExitStep, DrainStep, EndStep, BeginStep, PollStep, WaitStep,
     InterruptStep, TerminateStep, ReapStep, JoinStep, ReturnStep, TickStep DEF B!Next
<1> QED
  BY <1>1, <1>2

LEMMA CallInvariant == ASSUME B!Sizes PROVE B!Spec => []CallInv
<1>1. B!Init => CallInv
  BY CallInit
<1>2. CallInv /\ [B!Next]_(B!vars) => CallInv'
  BY CallInductive
<1> QED
  BY <1>1, <1>2, PTL DEF B!Spec

\* A tool answers with all that its child wrote before it ended by itself, or
\* with none of it (mcp_server._execute, _invoke).
THEOREM PayloadWhole == ASSUME B!Sizes PROVE B!Spec => []B!PayloadIsWhole
<1>1. CallInv => B!PayloadIsWhole
  <2> SUFFICES ASSUME CallInv, outcome = "payload"
               PROVE  /\ child = "exited"
                      /\ \A n \in Streams : buffer[n] = wrote[n] /\ buffer[n] <= Limit[n]
    BY DEF B!PayloadIsWhole
  <2>1. pc = "done" /\ overflow = {} /\ ~timedOut /\ interrupted = {}
    BY DEF CallInv, Answered
  <2>2. child = "exited" /\ thread["stdout"] = "returned" /\ thread["stderr"] = "returned"
    BY <2>1 DEF CallInv, Joined, Waiting, Escaped, KilledForCause, Names
  <2>3. \A n \in Streams : thread[n] = "returned"
    BY <2>2 DEF B!Sizes
  <2> QED
    BY <2>1, <2>2, <2>3 DEF CallInv, ThreadsKeep
<1> QED
  BY <1>1, CallInvariant, PTL

\* A call ends by its deadline and the grace of the termination; an interruption
\* in the try may add a second grace, one of the handler the two joins. A child
\* is left behind only if the call was interrupted before the try, or in the
\* handler of an earlier interruption (mcp_server._execute, _terminate_process).
THEOREM CallBounded == ASSUME B!Sizes PROVE B!Spec => []B!CallIsBounded
<1>1. CallInv => B!CallIsBounded
  <2> SUFFICES ASSUME CallInv PROVE B!CallIsBounded
    OBVIOUS
  <2>1. now \in Nat /\ due \in Nat /\ Deadline \in Nat /\ Grace \in Nat /\ Join \in Nat
    BY Due
  <2>2. now <= Over \/ Escaped
    <3>1. CASE pc = "grace"
      BY <2>1, <3>1, OverIs DEF CallInv, InTime
    <3>2. CASE pc = "terminate"
      <4>1. CASE now <= Deadline
        BY <2>1, <4>1, OverIs
      <4>2. CASE interrupted # {} /\ now <= Deadline + Grace
        BY <2>1, <4>2, OverIs
      <4> QED
        BY <3>2, <4>1, <4>2 DEF CallInv, InTime
    <3>3. CASE pc = "wait"
      BY <2>1, <3>3, OverIs DEF CallInv, InTime
    <3>4. CASE pc = "start" \/ pc = "poll"
      <4>1. now = 0 \/ now < Deadline
        BY <3>4 DEF CallInv, InTime
      <4> QED
        BY <2>1, <4>1, OverIs
    <3>5. CASE ~Waiting
      BY <3>5 DEF CallInv, InTime
    <3> QED
      BY <3>1, <3>2, <3>3, <3>4, <3>5 DEF Waiting
  <2>3. Escaped => now <= Over + Join + Join
    <3>1. Escaped => pc \in {"join", "join again", "answer", "done"}
      BY DEF CallInv, Names, Struck, Escaped
    <3> QED
      BY <3>1, JoinsEnd
  <2>4. interrupted \subseteq {"end"} => ~Escaped /\ Over = Deadline + Grace
    BY DEF Escaped, Over
  <2>5. ASSUME pc \in {"join", "join again", "answer", "done"}, child = "running"
        PROVE  "start" \in interrupted \/ {"try", "handler"} \subseteq interrupted
    BY <2>5 DEF CallInv, Joined, Struck, Waiting, Escaped
  <2>6. Over \in Nat /\ Over <= Deadline + Grace + Grace
    BY OverIs
  <2>7. interrupted \subseteq {"end"} => now <= Deadline + 1 + Grace
    BY <2>1, <2>2, <2>4
  <2>8. "handler" \notin interrupted => now <= Deadline + 1 + 2 * Grace
    BY <2>1, <2>2, <2>6 DEF Escaped
  <2>9. now <= Deadline + 1 + 2 * Grace + 2 * Join
    BY <2>1, <2>2, <2>3, <2>6
  <2> QED
    BY <2>5, <2>7, <2>8, <2>9 DEF B!CallIsBounded
<1> QED
  BY <1>1, CallInvariant, PTL

-----------------------------------------------------------------------------
-----------------------------------------------------------------------------
(* the lineage of delegated work: an accepted one is true of the files and of
   the policy *)

\* The commands that judge a result, and the stages only they pass through.
Judging(c) == c.doing = "result" \/ c.doing = "lifecycle"
Early(c) == c.at = "idle" \/ c.at = "refused"
JudgingStage(c) == c.at = "packet" \/ c.at = "result" \/ c.at = "files" \/ c.at = "record"
AdmittingStage(c) == c.at = "scope" \/ c.at = "compare"

Shape(c) ==
  DOMAIN c = {"doing", "at", "policy", "mandate", "request", "packet", "result",
              "read", "blocked"}

\* A judging command never admits and the others never judge; only lifecycle
\* looks at the record.
Flow(c) ==
  /\ JudgingStage(c) => Judging(c)
  /\ AdmittingStage(c) => ~Judging(c)
  /\ c.at = "request" => c.doing # "result"
  /\ c.at = "record" => c.doing = "lifecycle"

\* The request a command has read is judged by the policy it has read.
Judged(c) ==
  c.doing # "result" /\ ~Early(c) /\ c.at # "request" =>
    c.request \in Requests /\ c.blocked = N!Blocked(c.request, c.policy)

\* A handoff that is printed, and a packet that was loaded, have a request.
Sealing(c) ==
  /\ c.doing = "handoff" /\ c.at = "printed" => c.packet.request \in Requests
  /\ Judging(c) /\ (c.at = "result" \/ c.at = "files" \/ c.at = "record" \/ c.at = "printed")
       => c.packet.request \in Requests

\* What was read of a file is what the file held since the command started.
ReadTrue(c, seen) ==
  Judging(c) /\ ~Early(c) =>
    \A p \in DOMAIN c.read : p \in Paths /\ c.read[p] \in seen[p]

\* A result stays within the scope, and once validated it is what was read.
Within(c) ==
  Judging(c) /\ (c.at = "files" \/ c.at = "record" \/ c.at = "printed") =>
    DOMAIN c.result.declared \subseteq DOMAIN c.packet.request.scope
Validated(c) ==
  Judging(c) /\ (c.at = "record" \/ c.at = "printed") =>
    /\ DOMAIN c.read = DOMAIN c.packet.request.scope
    /\ N!Declared(c.read, c.packet.request.scope, c.result.declared)
Accepting(c) ==
  c.doing = "lifecycle" /\ c.at = "printed" =>
    c.packet.request = c.request /\ ~c.blocked

CmdInv(c, seen) ==
  /\ ~Early(c) => Shape(c)
  /\ Flow(c) /\ Judged(c) /\ Sealing(c)
  /\ ReadTrue(c, seen) /\ Within(c) /\ Validated(c) /\ Accepting(c)

\* Every file has held what it holds.
World ==
  /\ DOMAIN tree = Paths /\ DOMAIN since = Paths
  /\ \A p \in Paths : tree[p] \in since[p]
  /\ request \in Requests
  /\ packet # Nothing => packet.request \in Requests

LineageInv == World /\ CmdInv(cmd, since)

LEMMA LineageInit == ASSUME N!Shapes, N!Init PROVE LineageInv
<1>1. World
  BY DEF N!Shapes, N!Init, N!Here, World
<1>2. cmd.doing = "idle" /\ cmd.at = "idle"
  BY DEF N!Init, N!Idle
<1>3. CmdInv(cmd, since)
  BY <1>2 DEF CmdInv, Early, Flow, Judged, Sealing, ReadTrue, Within, Validated,
              Accepting, Judging, JudgingStage, AdmittingStage
<1> QED
  BY <1>1, <1>3 DEF LineageInv

\* The invariant of a command holds for ever longer histories of the files.
LEMMA LongerHistory ==
  ASSUME NEW c, NEW old, NEW new, CmdInv(c, old),
         \A p \in Paths : old[p] \subseteq new[p]
  PROVE  CmdInv(c, new)
BY DEF CmdInv, ReadTrue

\* What others write leaves the command alone and only adds to the histories.
LEMMA OthersStep ==
  ASSUME N!Shapes, LineageInv, N!Edit \/ N!Govern \/ N!Declare \/ N!Evidence
  PROVE  LineageInv'
<1>1. cmd' = cmd
  BY DEF N!Edit, N!Govern, N!Declare, N!Evidence
<1>2. packet' = packet
  BY DEF N!Edit, N!Govern, N!Declare, N!Evidence
<1>3. request' \in Requests
  BY DEF N!Edit, N!Govern, N!Declare, N!Evidence, LineageInv, World
<1>4. /\ DOMAIN tree' = Paths /\ DOMAIN since' = Paths
      /\ \A p \in Paths : tree'[p] \in since'[p] /\ since[p] \subseteq since'[p]
  <2>1. CASE N!Edit
    <3>1. PICK p \in Paths, c \in Contents :
            /\ tree' = [tree EXCEPT ![p] = c]
            /\ since' = [since EXCEPT ![p] = @ \cup {c}]
      BY <2>1 DEF N!Edit
    <3> QED
      BY <3>1 DEF LineageInv, World
  <2>2. CASE N!Govern \/ N!Declare \/ N!Evidence
    BY <2>2 DEF N!Govern, N!Declare, N!Evidence, LineageInv, World
  <2> QED
    BY <2>1, <2>2
<1>5. CmdInv(cmd, since')
  BY <1>4, LongerHistory DEF LineageInv
<1> QED
  BY <1>1, <1>2, <1>3, <1>4, <1>5 DEF LineageInv, World

LEMMA PersistStep == ASSUME LineageInv, N!Persist PROVE LineageInv'
<1>1. cmd.packet.request \in Requests
  BY DEF N!Persist, LineageInv, CmdInv, Sealing
<1>2. World'
  BY <1>1 DEF N!Persist, LineageInv, World
<1>3. CmdInv(cmd, since)' <=> CmdInv(cmd, since)
  BY DEF N!Persist
<1> QED
  BY <1>2, <1>3 DEF LineageInv

\* A command begins with a history that begins.
LEMMA StartStep ==
  ASSUME LineageInv, NEW what \in {"admission", "handoff", "verify", "result", "lifecycle"},
         N!Start(what)
  PROVE  LineageInv'
<1>1. World'
  BY DEF N!Start, LineageInv, World, N!world, N!Here
<1>2. /\ cmd'.doing = what /\ Shape(cmd')
      /\ cmd'.at = IF what = "result" THEN "packet" ELSE "request"
      /\ DOMAIN cmd'.read = {}
  BY DEF N!Start, Shape
<1>3. CmdInv(cmd', since')
  BY <1>2 DEF CmdInv, Early, Flow, Judged, Sealing, ReadTrue, Within, Validated,
              Accepting, Judging, JudgingStage, AdmittingStage
<1> QED
  BY <1>1, <1>3 DEF LineageInv

\* The steps of a command change nothing else.
LEMMA GotoStep ==
  ASSUME LineageInv, NEW next, N!Goto(next), CmdInv(next, since)
  PROVE  LineageInv'
BY DEF N!Goto, N!world, LineageInv, World

LEMMA RefuseStep == ASSUME LineageInv, N!Refuse PROVE LineageInv'
<1> DEFINE next == [doing |-> cmd.doing, at |-> "refused"]
<1>1. CmdInv(next, since)
  BY DEF CmdInv, Early, Flow, Judged, Sealing, ReadTrue, Within, Validated,
         Accepting, Judging, JudgingStage, AdmittingStage
<1> QED
  BY <1>1, GotoStep DEF N!Refuse

LEMMA RequestStep == ASSUME LineageInv, N!Request PROVE LineageInv'
<1> DEFINE blocked == N!Blocked(request, cmd.policy)
           next == [cmd EXCEPT !.request = request, !.blocked = blocked,
                      !.at = IF cmd.doing = "lifecycle" THEN "packet" ELSE "scope"]
<1>1. cmd.at = "request" /\ N!Goto(next)
  BY DEF N!Request
<1>2. Shape(cmd) /\ cmd.doing # "result" /\ ReadTrue(cmd, since) /\ ~Early(cmd)
  BY <1>1 DEF LineageInv, CmdInv, Early, Flow
<1>3. /\ Shape(next) /\ next.doing = cmd.doing /\ next.read = cmd.read
      /\ next.request = request /\ next.policy = cmd.policy /\ next.blocked = blocked
      /\ next.at = IF cmd.doing = "lifecycle" THEN "packet" ELSE "scope"
  BY <1>2 DEF Shape
<1>4. request \in Requests
  BY DEF LineageInv, World
<1>5. CmdInv(next, since)
  <2>1. Flow(next)
    BY <1>2, <1>3 DEF Flow, Judging, JudgingStage, AdmittingStage
  <2>2. Judged(next)
    BY <1>3, <1>4 DEF Judged
  <2>3. ReadTrue(next, since)
    BY <1>2, <1>3 DEF ReadTrue, Judging
  <2>4. Sealing(next) /\ Within(next) /\ Validated(next) /\ Accepting(next)
    BY <1>3 DEF Sealing, Within, Validated, Accepting, Judging
  <2> QED
    BY <1>3, <2>1, <2>2, <2>3, <2>4 DEF CmdInv
<1> QED
  BY <1>1, <1>5, GotoStep

\* Admission and handoff read the files against the request; none of it is
\* part of a judgement.
LEMMA ScopeStep == ASSUME LineageInv, N!Scope PROVE LineageInv'
<1>1. PICK p \in (DOMAIN cmd.request.scope) \ DOMAIN cmd.read :
        IF tree[p] = cmd.request.scope[p]
        THEN N!Goto([cmd EXCEPT !.read = [q \in (DOMAIN cmd.read) \cup {p} |-> tree[p]]])
        ELSE N!Refuse
  BY DEF N!Scope
<1> DEFINE read == [q \in (DOMAIN cmd.read) \cup {p} |-> tree[p]]
           next == [cmd EXCEPT !.read = read]
<1>2. cmd.at = "scope" /\ Shape(cmd) /\ ~Judging(cmd) /\ Judged(cmd)
  BY DEF N!Scope, LineageInv, CmdInv, Early, Flow, AdmittingStage
<1>3. /\ Shape(next) /\ next.doing = cmd.doing /\ next.at = "scope"
      /\ next.request = cmd.request /\ next.policy = cmd.policy
      /\ next.blocked = cmd.blocked
  BY <1>2 DEF Shape
<1>4. CmdInv(next, since)
  <2>1. ~Judging(next) /\ Flow(next)
    BY <1>2, <1>3 DEF Flow, Judging, JudgingStage
  <2>2. Judged(next)
    BY <1>2, <1>3 DEF Judged, Early
  <2>3. Sealing(next) /\ Within(next) /\ Validated(next) /\ Accepting(next)
        /\ ReadTrue(next, since)
    BY <1>3, <2>1 DEF Sealing, Within, Validated, Accepting, ReadTrue, Judging
  <2> QED
    BY <1>3, <2>1, <2>2, <2>3 DEF CmdInv
<1>5. CASE tree[p] = cmd.request.scope[p]
  BY <1>1, <1>4, <1>5, GotoStep
<1>6. CASE tree[p] # cmd.request.scope[p]
  BY <1>1, <1>6, RefuseStep
<1> QED
  BY <1>5, <1>6

\* What is sealed is the request that was judged.
LEMMA AdmitStep == ASSUME LineageInv, N!Admit PROVE LineageInv'
<1>1. cmd.at = "scope" /\ Shape(cmd) /\ ~Judging(cmd) /\ Judged(cmd)
  BY DEF N!Admit, LineageInv, CmdInv, Early, Flow, AdmittingStage
<1>2. cmd.request \in Requests
  BY <1>1 DEF Judged, Judging, Early
<1>3. CASE N!Refuse
  BY <1>3, RefuseStep
<1>4. CASE N!Goto([cmd EXCEPT !.at = "compare"])
  <2> DEFINE next == [cmd EXCEPT !.at = "compare"]
  <2>1. /\ Shape(next) /\ next.doing = cmd.doing /\ next.at = "compare"
        /\ next.request = cmd.request /\ next.policy = cmd.policy
        /\ next.blocked = cmd.blocked
    BY <1>1 DEF Shape
  <2>2. CmdInv(next, since)
    BY <1>1, <2>1 DEF CmdInv, Flow, Judged, Sealing, Within, Validated, Accepting,
                      ReadTrue, Judging, JudgingStage, Early
  <2> QED
    BY <1>4, <2>2, GotoStep
<1>5. CASE N!Goto([cmd EXCEPT !.at = "printed", !.packet = N!Sealed])
  <2> DEFINE next == [cmd EXCEPT !.at = "printed", !.packet = N!Sealed]
  <2>1. /\ Shape(next) /\ next.doing = cmd.doing /\ next.at = "printed"
        /\ next.request = cmd.request /\ next.policy = cmd.policy
        /\ next.blocked = cmd.blocked /\ next.packet = N!Sealed
    BY <1>1 DEF Shape
  <2>2. next.packet.request \in Requests
    BY <1>2, <2>1 DEF N!Sealed
  <2>3. CmdInv(next, since)
    BY <1>1, <2>1, <2>2 DEF CmdInv, Flow, Judged, Sealing, Within, Validated, Accepting,
                      ReadTrue, Judging, JudgingStage, AdmittingStage, Early
  <2> QED
    BY <1>5, <2>3, GotoStep
<1> QED
  BY <1>3, <1>4, <1>5 DEF N!Admit

LEMMA CompareStep == ASSUME LineageInv, N!Compare PROVE LineageInv'
<1>1. cmd.at = "compare" /\ Shape(cmd) /\ ~Judging(cmd) /\ Judged(cmd)
  BY DEF N!Compare, LineageInv, CmdInv, Early, Flow, AdmittingStage
<1>2. CASE N!Refuse
  BY <1>2, RefuseStep
<1>3. CASE packet = N!Sealed /\ N!Goto([cmd EXCEPT !.at = "printed", !.packet = packet])
  <2> DEFINE next == [cmd EXCEPT !.at = "printed", !.packet = packet]
  <2>1. /\ Shape(next) /\ next.doing = cmd.doing /\ next.at = "printed"
        /\ next.request = cmd.request /\ next.policy = cmd.policy
        /\ next.blocked = cmd.blocked /\ next.packet = packet
    BY <1>1 DEF Shape
  <2>2. cmd.request \in Requests
    BY <1>1 DEF Judged, Judging, Early
  <2>3. next.packet.request \in Requests
    BY <1>3, <2>1, <2>2 DEF N!Sealed
  <2>4. CmdInv(next, since)
    BY <1>1, <2>1, <2>3 DEF CmdInv, Flow, Judged, Sealing, Within, Validated, Accepting,
                      ReadTrue, Judging, JudgingStage, AdmittingStage, Early
  <2> QED
    BY <1>3, <2>4, GotoStep
<1> QED
  BY <1>2, <1>3 DEF N!Compare

\* The packet is read from the disk, where only printed handoffs are kept.
LEMMA LoadPacketStep == ASSUME LineageInv, N!LoadPacket PROVE LineageInv'
<1>1. /\ cmd.at = "packet" /\ Shape(cmd) /\ Judging(cmd) /\ Judged(cmd)
      /\ ReadTrue(cmd, since)
  BY DEF N!LoadPacket, LineageInv, CmdInv, Early, Flow, JudgingStage
<1>2. CASE packet = Nothing
  BY <1>2, RefuseStep DEF N!LoadPacket
<1>3. CASE packet # Nothing
  <2> DEFINE next == [cmd EXCEPT !.packet = packet, !.at = "result"]
  <2>1. N!Goto(next)
    BY <1>3 DEF N!LoadPacket
  <2>2. /\ Shape(next) /\ next.doing = cmd.doing /\ next.at = "result"
        /\ next.request = cmd.request /\ next.policy = cmd.policy
        /\ next.blocked = cmd.blocked /\ next.packet = packet /\ next.read = cmd.read
    BY <1>1 DEF Shape
  <2>3. packet.request \in Requests
    BY <1>3 DEF LineageInv, World
  <2>4. ReadTrue(next, since)
    BY <1>1, <2>2 DEF ReadTrue, Judging, Early
  <2>5. CmdInv(next, since)
    BY <1>1, <2>2, <2>3, <2>4 DEF CmdInv, Flow, Judged, Sealing, Within, Validated,
       Accepting, Judging, JudgingStage, AdmittingStage, Early
  <2> QED
    BY <2>1, <2>5, GotoStep
<1> QED
  BY <1>2, <1>3

LEMMA LoadResultStep == ASSUME LineageInv, N!LoadResult PROVE LineageInv'
<1>1. /\ cmd.at = "result" /\ Shape(cmd) /\ Judging(cmd) /\ Judged(cmd)
      /\ ReadTrue(cmd, since) /\ cmd.packet.request \in Requests
  BY DEF N!LoadResult, LineageInv, CmdInv, Early, Flow, JudgingStage, Sealing
<1>2. CASE N!Refuse
  BY <1>2, RefuseStep
<1>3. CASE /\ DOMAIN result.declared \subseteq DOMAIN cmd.packet.request.scope
           /\ N!Goto([cmd EXCEPT !.result = result, !.at = "files"])
  <2> DEFINE next == [cmd EXCEPT !.result = result, !.at = "files"]
  <2>1. /\ Shape(next) /\ next.doing = cmd.doing /\ next.at = "files"
        /\ next.request = cmd.request /\ next.policy = cmd.policy
        /\ next.blocked = cmd.blocked /\ next.packet = cmd.packet
        /\ next.read = cmd.read /\ next.result = result
    BY <1>1 DEF Shape
  <2>2. ReadTrue(next, since)
    BY <1>1, <2>1 DEF ReadTrue, Judging, Early
  <2>3. Within(next)
    BY <1>3, <2>1 DEF Within
  <2>4. CmdInv(next, since)
    BY <1>1, <2>1, <2>2, <2>3 DEF CmdInv, Flow, Judged, Sealing, Validated,
       Accepting, Judging, JudgingStage, AdmittingStage, Early
  <2> QED
    BY <1>3, <2>4, GotoStep
<1> QED
  BY <1>2, <1>3 DEF N!LoadResult

\* One file more is read, as it is now.
LEMMA HashStep == ASSUME N!Shapes, LineageInv, N!Hash PROVE LineageInv'
<1>1. /\ cmd.at = "files" /\ Shape(cmd) /\ Judging(cmd) /\ Judged(cmd) /\ Within(cmd)
      /\ ReadTrue(cmd, since) /\ cmd.packet.request \in Requests
  BY DEF N!Hash, LineageInv, CmdInv, Early, Flow, JudgingStage, Sealing
<1>2. PICK p \in (DOMAIN cmd.packet.request.scope) \ DOMAIN cmd.read :
        N!Goto([cmd EXCEPT !.read =
          [q \in (DOMAIN cmd.read) \cup {p} |-> IF q = p THEN tree[p] ELSE cmd.read[q]]])
  BY DEF N!Hash
<1> DEFINE read == [q \in (DOMAIN cmd.read) \cup {p} |->
                      IF q = p THEN tree[p] ELSE cmd.read[q]]
           next == [cmd EXCEPT !.read = read]
<1>3. p \in Paths /\ tree[p] \in since[p]
  BY <1>1 DEF N!Shapes, LineageInv, World
<1>4. \A q \in DOMAIN read : q \in Paths /\ read[q] \in since[q]
  BY <1>1, <1>3 DEF ReadTrue, Early
<1> HIDE DEF read
<1>5. /\ Shape(next) /\ next.doing = cmd.doing /\ next.at = "files"
      /\ next.request = cmd.request /\ next.policy = cmd.policy
      /\ next.blocked = cmd.blocked /\ next.packet = cmd.packet
      /\ next.read = read /\ next.result = cmd.result
  BY <1>1 DEF Shape
<1>6. ReadTrue(next, since)
  BY <1>4, <1>5 DEF ReadTrue
<1>7. Within(next)
  BY <1>1, <1>5 DEF Within, Judging
<1>8. CmdInv(next, since)
  BY <1>1, <1>5, <1>6, <1>7 DEF CmdInv, Flow, Judged, Sealing, Validated,
     Accepting, Judging, JudgingStage, AdmittingStage, Early
<1> QED
  BY <1>2, <1>8, GotoStep DEF read

\* What is validated is what was declared and read.
LEMMA ValidateStep == ASSUME LineageInv, N!Validate PROVE LineageInv'
<1>1. /\ cmd.at = "files" /\ Shape(cmd) /\ Judging(cmd) /\ Judged(cmd) /\ Within(cmd)
      /\ ReadTrue(cmd, since) /\ cmd.packet.request \in Requests
  BY DEF N!Validate, LineageInv, CmdInv, Early, Flow, JudgingStage, Sealing
<1>2. CASE N!Refuse
  BY <1>2, RefuseStep
<1> DEFINE stage == IF cmd.doing = "lifecycle" THEN "record" ELSE "printed"
           next == [cmd EXCEPT !.at = stage]
<1>3. CASE /\ N!Declared(cmd.read, cmd.packet.request.scope, cmd.result.declared)
           /\ N!Goto(next)
  <2>1. /\ Shape(next) /\ next.doing = cmd.doing /\ next.at = stage
        /\ next.request = cmd.request /\ next.policy = cmd.policy
        /\ next.blocked = cmd.blocked /\ next.packet = cmd.packet
        /\ next.read = cmd.read /\ next.result = cmd.result
    BY <1>1 DEF Shape
  <2>2. ReadTrue(next, since)
    BY <1>1, <2>1 DEF ReadTrue, Judging, Early
  <2>3. Within(next)
    BY <1>1, <2>1 DEF Within, Judging
  <2>4. DOMAIN cmd.read = DOMAIN cmd.packet.request.scope
    BY DEF N!Validate
  <2>5. Validated(next)
    BY <1>3, <2>1, <2>4 DEF Validated
  <2>6. Flow(next)
    BY <1>1, <2>1 DEF Flow, Judging, JudgingStage, AdmittingStage
  <2>7. Judged(next) /\ Sealing(next) /\ Accepting(next)
    BY <1>1, <2>1 DEF Judged, Sealing, Accepting, Judging, Early
  <2> QED
    BY <1>3, <2>1, <2>2, <2>3, <2>5, <2>6, <2>7, GotoStep DEF CmdInv
<1> QED
  BY <1>2, <1>3 DEF N!Validate

\* lifecycle accepts a packet that was sealed for the request it has judged.
LEMMA LifecycleStep == ASSUME LineageInv, N!Lifecycle PROVE LineageInv'
<1>1. /\ cmd.at = "record" /\ cmd.doing = "lifecycle" /\ Shape(cmd) /\ Judging(cmd)
      /\ Judged(cmd) /\ Within(cmd) /\ Validated(cmd)
      /\ ReadTrue(cmd, since) /\ cmd.packet.request \in Requests
  BY DEF N!Lifecycle, LineageInv, CmdInv, Early, Flow, JudgingStage, Sealing
<1>2. CASE N!Refuse
  BY <1>2, RefuseStep
<1> DEFINE next == [cmd EXCEPT !.at = "printed"]
<1>3. CASE ~cmd.blocked /\ N!Linked(cmd.packet, cmd.request) /\ N!Goto(next)
  <2>1. /\ Shape(next) /\ next.doing = cmd.doing /\ next.at = "printed"
        /\ next.request = cmd.request /\ next.policy = cmd.policy
        /\ next.blocked = cmd.blocked /\ next.packet = cmd.packet
        /\ next.read = cmd.read /\ next.result = cmd.result
    BY <1>1 DEF Shape
  <2>2. ReadTrue(next, since)
    BY <1>1, <2>1 DEF ReadTrue, Judging, Early
  <2>3. Within(next) /\ Validated(next)
    BY <1>1, <2>1 DEF Within, Validated, Judging
  <2>4. Accepting(next)
    BY <1>3, <2>1 DEF Accepting, N!Linked
  <2>5. Flow(next) /\ Judged(next) /\ Sealing(next)
    BY <1>1, <2>1 DEF Flow, Judged, Sealing, Judging, JudgingStage, AdmittingStage, Early
  <2> QED
    BY <1>3, <2>1, <2>2, <2>3, <2>4, <2>5, GotoStep DEF CmdInv
<1> QED
  BY <1>2, <1>3 DEF N!Lifecycle

LEMMA LineageStep == ASSUME N!Shapes, LineageInv, [N!Next]_(N!vars) PROVE LineageInv'
<1>1. CASE N!Edit \/ N!Govern \/ N!Declare \/ N!Evidence
  BY <1>1, OthersStep
<1>2. CASE N!Persist
  BY <1>2, PersistStep
<1>3. CASE \E what \in {"admission", "handoff", "verify", "result", "lifecycle"} : N!Start(what)
  BY <1>3, StartStep
<1>4. CASE N!Request \/ N!Scope \/ N!Admit \/ N!Compare
  BY <1>4, RequestStep, ScopeStep, AdmitStep, CompareStep
<1>5. CASE N!LoadPacket \/ N!LoadResult \/ N!Hash
  BY <1>5, LoadPacketStep, LoadResultStep, HashStep
<1>6. CASE N!Validate \/ N!Lifecycle
  BY <1>6, ValidateStep, LifecycleStep
<1>7. CASE UNCHANGED N!vars
  <2>1. World'
    BY <1>7 DEF N!vars, N!world, LineageInv, World
  <2>2. cmd' = cmd /\ since' = since
    BY <1>7 DEF N!vars
  <2> QED
    BY <2>1, <2>2 DEF LineageInv
<1> QED
  BY <1>1, <1>2, <1>3, <1>4, <1>5, <1>6, <1>7 DEF N!Next

LEMMA InvariantImpliesTruth == ASSUME LineageInv PROVE N!LineageIsTrue
<1>1. CASE ~(Judging(cmd) /\ cmd.at = "printed")
  BY <1>1 DEF N!LineageIsTrue, Judging
<1>2. CASE Judging(cmd) /\ cmd.at = "printed"
  <2> DEFINE base == cmd.packet.request.scope
             declared == cmd.result.declared
  <2>1. DOMAIN declared \subseteq DOMAIN base
    BY <1>2 DEF LineageInv, CmdInv, Within
  <2>2. DOMAIN cmd.read = DOMAIN base /\ N!Declared(cmd.read, base, declared)
    BY <1>2 DEF LineageInv, CmdInv, Validated
  <2>3. ~Early(cmd)
    BY <1>2 DEF Early
  <2>4. \A p \in DOMAIN base : cmd.read[p] \in since[p]
    BY <1>2, <2>2, <2>3 DEF LineageInv, CmdInv, ReadTrue
  <2>5. ASSUME NEW p \in DOMAIN base
        PROVE  IF p \in DOMAIN declared
               THEN declared[p] # base[p] /\ declared[p] \in since[p]
               ELSE base[p] \in since[p]
    BY <2>2, <2>4, <2>5 DEF N!Declared
  <2>6. ASSUME N!Accepted
        PROVE  cmd.packet.request = cmd.request /\ cmd.request.actions \subseteq cmd.policy
    <3>1. cmd.doing = "lifecycle" /\ cmd.at = "printed"
      BY <2>6 DEF N!Accepted
    <3>2. cmd.packet.request = cmd.request /\ ~cmd.blocked
      BY <3>1 DEF LineageInv, CmdInv, Accepting
    <3>3. cmd.blocked = N!Blocked(cmd.request, cmd.policy)
      BY <3>1, <2>3 DEF LineageInv, CmdInv, Judged
    <3> QED
      BY <3>2, <3>3 DEF N!Blocked
  <2> QED
    BY <2>1, <2>5, <2>6 DEF N!LineageIsTrue
<1> QED
  BY <1>1, <1>2

\* Whatever is written between a handoff and its acceptance, an accepted result
\* declares what stood in the files, and was sealed for the request that the
\* policy allowed (execution.validate_execution_result,
\* lifecycle.evaluate_lifecycle).
THEOREM LineageTrue == ASSUME N!Shapes PROVE N!Spec => []N!LineageIsTrue
<1>1. N!Init => LineageInv
  BY LineageInit
<1>2. LineageInv /\ [N!Next]_(N!vars) => LineageInv'
  BY LineageStep
<1>3. LineageInv => N!LineageIsTrue
  BY InvariantImpliesTruth
<1> QED
  BY <1>1, <1>2, <1>3, PTL DEF N!Spec

=============================================================================

-------------------------- MODULE VaultImportsProofs --------------------------
(***************************************************************************)
(* Theorems about VaultImports, for every number of processes, of lines in *)
(* a source and of jobs, and whatever the other commands do meanwhile.     *)
(***************************************************************************)
EXTENDS VaultImports, VaultStoreProofs, WellFoundedInduction

USE NoEntryAssumption, StoreAssumption, ImportsAssumption

-----------------------------------------------------------------------------
(* Max, which is a CHOOSE: that there is something to choose is an         *)
(* induction, and WFMin makes it.                                          *)

LEMMA LeastNat ==
  ASSUME NEW T \in SUBSET Nat, T # {}
  PROVE  \E m \in T : \A n \in T : m <= n
<1>1. PICK m \in T : \A n \in T : <<n, m>> \notin OpToRel(<, Nat)
  BY WFMin, NatLessThanWellFounded
<1>2. \A n \in T : ~ (n < m)
  BY <1>1 DEF OpToRel
<1>3. QED
  BY <1>2

LEMMA LastLine ==
  ASSUME NEW S \in SUBSET LineNo, S # {}
  PROVE  Max(S) \in S
<1> DEFINE N == Max(LineNo)
           T == {N - n : n \in S}
<1>1. PICK s \in S : TRUE
  OBVIOUS
<1>2. N \in Nat /\ LineNo = 1 .. N
  OBVIOUS
<1> HIDE DEF N
<1>3. T \in SUBSET Nat /\ T # {}
  <2>1. N - s \in T
    BY <1>1
  <2>2. \A n \in S : N - n \in Nat
    BY <1>2
  <2>3. QED
    BY <2>1, <2>2
<1>4. PICK m \in T : \A n \in T : m <= n
  BY <1>3, LeastNat
<1>5. PICK x \in S : N - x = m
  BY <1>4
<1>6. ASSUME NEW y \in S
      PROVE  x >= y
  <2>1. N - y \in T
    OBVIOUS
  <2>2. m <= N - y
    BY <1>4, <2>1
  <2> HIDE DEF T
  <2>3. QED
    BY <1>2, <1>5, <2>2
<1>7. QED
  BY <1>5, <1>6 DEF Max

-----------------------------------------------------------------------------
(* What the loop over the items makes.                                     *)

LEMMA StoredType ==
  ASSUME NEW j \in JobLine, NEW items \in Texts, NEW body \in Body,
         Stored(j, items, body).taken = {} \/ validate_tier(TierOf(j))
  PROVE  /\ Stored(j, items, body).body \in Body /\ Stored(j, items, body).taken \in SUBSET LineNo
         /\ \A i \in LineNo : items[i] # NoLine => Has(Stored(j, items, body).body, items[i].key)
<1> DEFINE of(k)   == {n \in LineNo : items[n] # NoLine /\ items[n].key = k}
           kept(k) == {n \in of(k) : Forced(j) \/ (~Has(body, k) /\ \A i \in of(k) : n <= i)}
           entry(k, item) == SetEntry(body, k, item.value, TierOf(j))[k]
           taken == UNION {kept(k) : k \in Key}
           new   == [k \in Key |-> IF kept(k) = {} THEN body[k]
                                   ELSE entry(k, items[Max(kept(k))])]
<1>1. Stored(j, items, body).body = new /\ Stored(j, items, body).taken = taken
  BY DEF Stored
<1>2. \A k \in Key : kept(k) \in SUBSET LineNo /\ kept(k) \subseteq of(k)
  OBVIOUS
<1>3. taken \in SUBSET LineNo
  BY <1>2
<1>4. ASSUME NEW k \in Key, kept(k) # {}
      PROVE  entry(k, items[Max(kept(k))]) \in BodyEntry
  <2> DEFINE n == Max(kept(k))
  <2>1. n \in of(k)
    BY <1>2, <1>4, LastLine
  <2>2. n \in LineNo /\ items[n] # NoLine
    BY <2>1
  <2>3. validate_tier(TierOf(j))
    <3>1. kept(k) \subseteq taken
      OBVIOUS
    <3> HIDE DEF taken, kept
    <3>2. QED
      BY <1>1, <1>4, <3>1
  <2> HIDE DEF n
  <2>4. items[n].value \in Value
    BY <2>2 DEF Texts, Pair
  <2>5. TierOf(j) \in Nat
    BY DEF TierOf, JobLine, TIER_USE_ONLY
  <2>6. SetEntry(body, k, items[n].value, TierOf(j)) \in Body
    BY <2>3, <2>4, <2>5, SetEntryType
  <2>7. SetEntry(body, k, items[n].value, TierOf(j))[k] # NoEntry
    <3> DEFINE r == Has(body, k) /\ body[k].rotate
    <3>1. SetEntry(body, k, items[n].value, TierOf(j))[k]
             = [value |-> items[n].value, tier |-> TierOf(j), rotate |-> r, due |-> DueFrom(r)]
      BY DEF SetEntry, Body
    <3>2. r \in BOOLEAN
      BY DEF Has, Body, BodyEntry
    <3>3. TierOf(j) \in Tier
      BY <2>3, <2>5 DEF validate_tier, Tier
    <3> HIDE DEF r
    <3>4. [value |-> items[n].value, tier |-> TierOf(j), rotate |-> r, due |-> DueFrom(r)] \in BodyEntry
      BY <2>4, <3>2, <3>3 DEF BodyEntry, DueFrom
    <3>5. QED
      BY <3>1, <3>4
  <2>8. QED
    BY <2>6, <2>7 DEF Body, n
<1>5. new \in Body
  <2> HIDE DEF kept, entry
  <2>1. ASSUME NEW k \in Key
        PROVE  new[k] \in BodyEntry \cup {NoEntry}
    BY <1>4 DEF Body
  <2> HIDE DEF new
  <2>2. new = [k \in Key |-> new[k]]
    BY DEF new
  <2>3. QED
    BY <2>1, <2>2 DEF Body
<1>6. ASSUME NEW i \in LineNo, items[i] # NoLine
      PROVE  Has(new, items[i].key)
  <2> DEFINE k == items[i].key
  <2>1. k \in Key /\ i \in of(k)
    BY <1>6 DEF Texts, Pair
  <2>2. CASE kept(k) = {}
    <3>1. PICK n \in of(k) : \A m \in of(k) : n <= m
      <4>1. of(k) \in SUBSET Nat
        OBVIOUS
      <4> HIDE DEF of
      <4>2. QED
        BY <2>1, <4>1, LeastNat
    <3>2. Has(body, k)
      <4>1. n \notin kept(k) /\ n \in of(k)
        BY <2>2, <3>1
      <4> HIDE DEF of
      <4>2. QED
        BY <3>1, <4>1
    <3> HIDE DEF kept, entry
    <3>3. new[k] = body[k]
      BY <2>1, <2>2
    <3>4. QED
      BY <3>2, <3>3 DEF Has
  <2>3. CASE kept(k) # {}
    <3>1. entry(k, items[Max(kept(k))]) \in BodyEntry
      BY <1>4, <2>1, <2>3
    <3> HIDE DEF kept, entry
    <3>2. new[k] \in BodyEntry
      BY <2>1, <2>3, <3>1
    <3>3. QED
      BY <3>2 DEF Has
  <2>4. QED
    BY <2>2, <2>3
<1> HIDE DEF of, kept, entry, taken, new
<1>7. QED
  BY <1>1, <1>3, <1>5, <1>6

-----------------------------------------------------------------------------
(* The invariants.                                                         *)

ImportTypeOK ==
    /\ source \in Texts \cup {Wiped, NoSource}
    /\ job \in [Process -> JobState \cup {NoJob}]

\* Where a job stands, and what it holds there.
JobOK(p) ==
    Running(p) =>
        /\ job[p].at = "read" => Idle(p) /\ ~Open(p)
        /\ job[p].at = "open" =>
              \/ pc[p] \in {"idle", "load", "createLock", "createCheck"} /\ ~Open(p)
              \/ pc[p] \in {"check", "write"} /\ Creating(p)
        /\ job[p].at = "refresh" => pc[p] \in {"idle", "refresh"} /\ Open(p)
        /\ job[p].at = "failed" => Idle(p)
        /\ job[p].at \in Locked => Holds(p) /\ ~Creating(p)
        /\ job[p].at \in Locked \ {"save"} => Idle(p)
        /\ job[p].at = "save" => pc[p] \in {"idle", "check", "write"}
        /\ job[p].text # Blank => job[p].at \in Locked \cup {"failed"} /\ Holds(p)

JobInv == \A p \in Process : JobOK(p)

-----------------------------------------------------------------------------
(* The steps of a job, as steps of a client of the store.                  *)

LEMMA JobRecord ==
  ASSUME ImportTypeOK, NEW p \in Process, Running(p)
  PROVE  /\ job[p] \in JobState /\ job[p].job \in JobLine
         /\ job[p].items \in Texts /\ job[p].text \in Texts /\ job[p].taken \subseteq LineNo
  BY DEF ImportTypeOK, Running, JobState

LEMMA EditIsClient ==
  ASSUME TypeInv, ImportTypeOK, JobInv, NEW p \in Process, Edit(p)
  PROVE  EditStep(p) \/ UNCHANGED vars
<1> DEFINE j   == job[p].job
           new == Stored(j, job[p].items, store[p].body)
<1>1. Running(p) /\ job[p].at = "edit" /\ Idle(p)
  BY DEF Edit, At
<1>2. Open(p)
  BY <1>1 DEF JobInv, JobOK, Locked, Holds
<1>3. store[p].body \in Body
  BY <1>2 DEF TypeInv, TypeOK, Open, Store
<1>4. j \in JobLine /\ job[p].items \in Texts
  BY <1>1, JobRecord
<1>5. CASE new.taken = {} \/ validate_tier(TierOf(j))
  <2>1. new.body \in Body
    BY <1>3, <1>4, <1>5, StoredType
  <2>2. SetBody(p, new.body)
    BY <1>5 DEF Edit
  <2> HIDE DEF new
  <2>3. Edits(p)
    BY <1>2, <2>1, <2>2, SetBodyEdits
  <2>4. QED
    BY <1>1, <1>2, <2>2, <2>3 DEF EditStep, SetBody
<1>6. CASE ~(new.taken = {} \/ validate_tier(TierOf(j)))
  BY <1>6, Zenon DEF Edit
<1>7. QED
  BY <1>5, <1>6

LEMMA OtherIsClient ==
  ASSUME TypeInv, NEW p \in Process, OtherCommand(p)
  PROVE  ClientStep(p)
<1>1. CASE OpenStep(p)
  <2>1. ClientOpenStep(p)
    BY <1>1 DEF OpenStep, ClientOpenStep
  <2>2. QED
    BY <2>1 DEF ClientStep
<1>2. CASE \E k \in Key : delete(p, k)
  <2>1. MutateStep(p)
    BY <1>2 DEF MutateStep
  <2>2. QED
    BY <2>1, MutateEdits DEF ClientStep
<1>3. CASE \/ \E n \in Name : RestoreRead(p, n)
           \/ RestoreLock(p) \/ RestoreWrite(p) \/ RestoreFails(p) \/ RestoreReturns(p)
  BY <1>3 DEF CopyStep, ClientStep
<1>4. CASE SaveStep(p) \/ Drop(p) \/ Crash(p)
  BY <1>4 DEF ClientStep
<1>5. QED
  BY <1>1, <1>2, <1>3, <1>4 DEF OtherCommand

\* A step that p takes.
OwnStep(p) == (\E j \in Job : Start(p, j)) \/ JobStep(p) \/ Kill(p) \/ OtherCommand(p)

LEMMA OwnIsClient ==
  ASSUME TypeInv, ImportTypeOK, JobInv, NEW p \in Process, OwnStep(p)
  PROVE  ClientStep(p) \/ UNCHANGED vars
<1>1. CASE \/ \E j \in Job : Start(p, j)
           \/ ReadSource(p) \/ Reread(p) \/ Verify(p)
           \/ Wipe(p) \/ Unlink(p) \/ Truncate(p) \/ Rewrite(p)
  BY <1>1 DEF Start, ReadSource, Reread, Verify, Wipe, Unlink, Truncate, Rewrite
<1>2. CASE OpenVault(p) \/ LoadReturns(p) \/ CreateContinues(p)
  BY <1>2 DEF OpenVault, LoadReturns, CreateContinues, ClientStep, ClientOpenStep
<1>3. CASE Refresh(p) \/ RefreshReturns(p) \/ Save(p) \/ SaveContinues(p) \/ SaveReturns(p)
  BY <1>3 DEF Refresh, RefreshReturns, Save, SaveContinues, SaveReturns, ClientStep, SaveStep
<1>4. CASE Edit(p)
  BY <1>4, EditIsClient DEF ClientStep
<1>5. CASE Exit(p) \/ Kill(p)
  BY <1>5 DEF Exit, Kill, ClientStep
<1>6. CASE OtherCommand(p)
  BY <1>6, OtherIsClient
<1>7. QED
  BY <1>1, <1>2, <1>3, <1>4, <1>5, <1>6 DEF OwnStep, JobStep

\* A step that only moves a job to another place.
LEMMA Moves ==
  ASSUME ImportTypeOK, NEW p \in Process, Running(p),
         NEW a \in {"read", "open", "refresh", "failed"} \cup Locked,
         job' = [job EXCEPT ![p].at = a]
  PROVE  /\ job' \in [Process -> JobState \cup {NoJob}]
         /\ Running(p)' /\ job'[p].at = a /\ job'[p].job = job[p].job
         /\ job'[p].items = job[p].items /\ job'[p].taken = job[p].taken
         /\ job'[p].text = job[p].text
         /\ \A q \in Process \ {p} : job'[q] = job[q]
<1> DEFINE s == [job[p] EXCEPT !.at = a]
<1>1. /\ s \in JobState /\ s.at = a /\ s.job = job[p].job /\ s.items = job[p].items
      /\ s.taken = job[p].taken /\ s.text = job[p].text
  BY JobRecord DEF JobState
<1>2. job' = [job EXCEPT ![p] = s]
  OBVIOUS
<1> HIDE DEF s
<1>3. s # NoJob
  BY <1>1
<1>4. QED
  BY <1>1, <1>2, <1>3 DEF ImportTypeOK, Running

\* Where a call that returns leads.
LEMMA AfterPlace ==
  ASSUME NEW j \in JobLine
  PROVE  /\ After(j, "read") = "open" /\ After(j, "open") = "refresh"
         /\ After(j, "refresh") \in {"reread", "edit"} /\ After(j, "reread") = "edit"
         /\ After(j, "edit") = "save" /\ After(j, "save") = "verify"
         /\ After(j, "verify") \in {"truncate", "done", "wipe"}
         /\ After(j, "wipe") = "unlink" /\ After(j, "truncate") = "rewrite"
         /\ After(j, "unlink") = "done" /\ After(j, "rewrite") = "done"
  BY DEF After, BeforeEdit, AfterEdit

LEMMA Returned ==
  ASSUME ImportTypeOK, NEW p \in Process, Running(p), NEW ok \in BOOLEAN, Return(p, ok),
         job[p].at # "done", job[p].at # "failed"
  PROVE  /\ job' \in [Process -> JobState \cup {NoJob}]
         /\ Running(p)'
         /\ job'[p].at = IF ok THEN After(job[p].job, job[p].at) ELSE "failed"
         /\ job'[p].items = job[p].items /\ job'[p].taken = job[p].taken
         /\ job'[p].text = job[p].text
         /\ \A q \in Process \ {p} : job'[q] = job[q]
<1> DEFINE a == IF ok THEN After(job[p].job, job[p].at) ELSE "failed"
<1>1. job[p].job \in JobLine /\ job[p].at \in {"read", "open", "refresh", "failed"} \cup Locked
  BY JobRecord DEF JobState
<1>2. a \in {"read", "open", "refresh", "failed"} \cup Locked
  BY <1>1, AfterPlace DEF Locked, Destroying
<1>3. job' = [job EXCEPT ![p].at = a]
  BY DEF Return
<1> HIDE DEF a
<1>4. /\ job' \in [Process -> JobState \cup {NoJob}]
      /\ Running(p)' /\ job'[p].at = a
      /\ job'[p].items = job[p].items /\ job'[p].taken = job[p].taken
      /\ job'[p].text = job[p].text
      /\ \A q \in Process \ {p} : job'[q] = job[q]
  BY <1>2, <1>3, Moves
<1>5. QED
  BY <1>4 DEF a

-----------------------------------------------------------------------------
(* The steps keep the invariants.                                          *)

\* What a step of p may make of the jobs: JobKept says it of p, and the others stay.
JobKept(p) ==
    /\ job' \in [Process -> JobState \cup {NoJob}]
    /\ \A q \in Process \ {p} : job'[q] = job[q]
    /\ JobOK(p)'

Before == TypeInv /\ MutexInv /\ ImportTypeOK /\ JobInv

LEMMA ReadKept ==
  ASSUME Before, NEW p \in Process, (\E j \in Job : Start(p, j)) \/ ReadSource(p) \/ Reread(p)
  PROVE  JobKept(p)
<1>1. JobOK(p) /\ UNCHANGED vars /\ ImportTypeOK
  BY DEF Before, JobInv, Start, ReadSource, Reread
<1>2. Blank \in Texts
  BY DEF Blank, Texts
<1>3. CASE \E j \in Job : Start(p, j)
  <2>1. PICK j \in Job : Start(p, j)
    BY <1>3
  <2> DEFINE s == [job |-> j, at |-> "read", items |-> Blank, taken |-> {}, text |-> Blank]
  <2>2. s \in JobState /\ s.at = "read" /\ s.text = Blank
    BY <1>2 DEF JobState
  <2>3. job' = [job EXCEPT ![p] = s] /\ Idle(p) /\ ~Open(p)
    BY <2>1 DEF Start
  <2> HIDE DEF s
  <2>4. /\ job' \in [Process -> JobState \cup {NoJob}] /\ job'[p] = s
        /\ \A q \in Process \ {p} : job'[q] = job[q]
    BY <1>1, <2>2, <2>3 DEF ImportTypeOK
  <2>5. JobOK(p)'
    BY <1>1, <2>2, <2>3, <2>4 DEF JobOK, Locked, Destroying, Idle, Open, vars
  <2>6. QED
    BY <2>4, <2>5 DEF JobKept
<1>4. CASE ReadSource(p)
  <2> DEFINE new == Items(job[p].job, source)
             s == [job[p] EXCEPT !.at = After(job[p].job, @), !.items = new]
  <2>1. /\ Running(p) /\ job[p].at = "read" /\ job[p] \in JobState /\ job[p].job \in JobLine
        /\ Idle(p) /\ ~Open(p)
    BY <1>1, <1>4, JobRecord DEF ReadSource, At, JobOK
  <2>2. CASE Readable(p)
    <3>1. new \in Texts
      <4>1. source \in Texts \cup {Wiped} /\ (Op(p) # "import" => source # Wiped)
        BY <1>1, <2>2 DEF Readable, ImportTypeOK
      <4>2. CASE Op(p) # "import"
        BY <4>1, <4>2 DEF Items, Op
      <4>3. CASE Op(p) = "import"
        <5> DEFINE v == IF source = Wiped THEN Nul ELSE source[1].value
        <5>1. v \in Value
          BY <1>1, <2>2, <4>1, <4>3 DEF Readable, Texts, Pair
        <5>2. job[p].job.key \in Key
          BY <2>1, <4>3 DEF JobLine, Op
        <5>3. new = [Blank EXCEPT ![1] = [key |-> job[p].job.key, value |-> v]]
          BY <4>3 DEF Items, Op
        <5> HIDE DEF v, new
        <5>4. QED
          BY <1>2, <5>1, <5>2, <5>3 DEF Texts, Pair
      <4>4. QED
        BY <4>2, <4>3
    <3>2. job' = [job EXCEPT ![p] = s]
      BY <1>4, <2>2 DEF ReadSource
    <3> HIDE DEF new
    <3>3. After(job[p].job, job[p].at) = "open"
      BY <2>1, AfterPlace
    <3>4. s \in JobState /\ s.at = "open" /\ s.text = job[p].text
      BY <2>1, <3>1, <3>3 DEF JobState
    <3> HIDE DEF s
    <3>5. /\ job' \in [Process -> JobState \cup {NoJob}] /\ job'[p] = s
          /\ \A q \in Process \ {p} : job'[q] = job[q]
      BY <1>1, <3>2, <3>4 DEF ImportTypeOK
    <3>6. JobOK(p)'
      BY <1>1, <2>1, <3>4, <3>5 DEF JobOK, Locked, Destroying, Idle, Open, Holds, vars
    <3>7. QED
      BY <3>5, <3>6 DEF JobKept
  <2>3. CASE ~Readable(p)
    <3>1. job' = [job EXCEPT ![p].at = "failed"]
      BY <1>4, <2>3 DEF ReadSource
    <3>2. /\ job' \in [Process -> JobState \cup {NoJob}]
          /\ job'[p].at = "failed" /\ job'[p].text = job[p].text
          /\ \A q \in Process \ {p} : job'[q] = job[q]
      BY <1>1, <2>1, <3>1, Moves
    <3>3. JobOK(p)'
      BY <1>1, <2>1, <3>2 DEF JobOK, Locked, Destroying, Idle, Open, Holds, vars
    <3>4. QED
      BY <3>2, <3>3 DEF JobKept
  <2>4. QED
    BY <2>2, <2>3
<1>5. CASE Reread(p)
  <2> DEFINE found == job[p].items
             now   == IF source \in {NoSource, Wiped} THEN Blank ELSE source
             items == [i \in LineNo |-> IF found[i] = NoLine \/ now[i] = NoLine THEN NoLine
                                        ELSE [key |-> found[i].key, value |-> now[i].value]]
             s == [job[p] EXCEPT !.at = After(job[p].job, @), !.text = now, !.items = items]
  <2>1. /\ Running(p) /\ job[p].at = "reread" /\ job[p] \in JobState /\ job[p].job \in JobLine
        /\ Holds(p) /\ ~Creating(p) /\ Idle(p)
    BY <1>1, <1>5, JobRecord DEF Reread, At, JobOK, Locked
  <2>2. now \in Texts /\ found \in Texts
    BY <1>1, <1>2, <2>1, JobRecord DEF ImportTypeOK
  <2>3. job' = [job EXCEPT ![p] = s]
    BY <1>5 DEF Reread
  <2> HIDE DEF now, found
  <2>4. items \in Texts
    BY <2>2 DEF Texts, Pair
  <2> HIDE DEF items
  <2>5. s \in JobState /\ s.at = "edit"
    BY <2>1, <2>2, <2>4, AfterPlace DEF JobState, Locked
  <2> HIDE DEF s
  <2>6. /\ job' \in [Process -> JobState \cup {NoJob}] /\ job'[p] = s
        /\ \A q \in Process \ {p} : job'[q] = job[q]
    BY <1>1, <2>3, <2>5 DEF ImportTypeOK
  <2>7. JobOK(p)'
    BY <1>1, <2>1, <2>5, <2>6 DEF JobOK, Locked, Destroying, Idle, Open, Holds, Creating, vars
  <2>8. QED
    BY <2>6, <2>7 DEF JobKept
<1>6. QED
  BY <1>3, <1>4, <1>5

LEMMA OpenKept ==
  ASSUME Before, NEW p \in Process, OpenVault(p) \/ LoadReturns(p) \/ CreateContinues(p)
  PROVE  JobKept(p)
<1>1. JobOK(p) /\ TypeOK /\ ImportTypeOK
  BY DEF Before, JobInv, TypeInv
<1>2. Running(p) /\ job[p].at = "open" /\ job[p].job \in JobLine /\ store[p] \in Store \cup {Closed}
  BY <1>1, JobRecord DEF OpenVault, LoadReturns, CreateContinues, At, TypeOK
<1>3. job[p].text = Blank
  BY <1>1, <1>2 DEF JobOK, Locked, Destroying
<1>4. CASE OpenVault(p) \/ CreateContinues(p)
  <2>1. job' = job
    BY <1>4 DEF OpenVault, CreateContinues, Stay
  <2>2. \/ pc'[p] \in {"idle", "load", "createLock", "createCheck"} /\ ~Open(p)'
        \/ pc'[p] \in {"check", "write"} /\ Creating(p)'
    <3>1. CASE OpenVault(p)
      BY <1>1, <3>1 DEF OpenVault, OpenAtWithPassphrase, Goto, Open, TypeOK
    <3>2. CASE CreateLock(p) \/ CreateYields(p)
      <4>1. ~Open(p)
        BY <3>2 DEF CreateLock, CreateYields, Before, TypeInv, ShapeInv, Open, JobInv, Idle
      <4>2. QED
        BY <1>1, <3>2, <4>1 DEF CreateLock, CreateYields, Goto, Open, TypeOK
    <3>3. CASE create_new(p)
      BY <1>1, <3>3 DEF create_new, MintStore, Goto, Creating, TypeOK
    <3>4. QED
      BY <1>4, <3>1, <3>2, <3>3 DEF CreateContinues
  <2>3. JobOK(p)'
    BY <1>2, <1>3, <2>1, <2>2 DEF JobOK, Running, Locked, Destroying
  <2>4. QED
    BY <1>1, <2>1, <2>3 DEF JobKept, ImportTypeOK
<1>5. CASE LoadReturns(p)
  <2>1. Return(p, store'[p] # Closed) /\ load_v2(p) /\ pc'[p] = "idle"
    BY <1>1, <1>5 DEF LoadReturns, load_v2, Goto, TypeOK
  <2> DEFINE ok == store'[p] # Closed
  <2>2. /\ job' \in [Process -> JobState \cup {NoJob}]
        /\ Running(p)'
        /\ job'[p].at = IF ok THEN After(job[p].job, job[p].at) ELSE "failed"
        /\ job'[p].text = job[p].text
        /\ \A q \in Process \ {p} : job'[q] = job[q]
    BY <1>1, <1>2, <2>1, Returned
  <2>3. After(job[p].job, job[p].at) = "refresh"
    BY <1>2, AfterPlace
  <2>4. JobOK(p)'
    BY <1>3, <2>1, <2>2, <2>3 DEF JobOK, Locked, Destroying, Idle, Open
  <2>5. QED
    BY <2>2, <2>4 DEF JobKept
<1>6. QED
  BY <1>4, <1>5

LEMMA RefreshKept ==
  ASSUME Before, NEW p \in Process, Refresh(p) \/ RefreshReturns(p)
  PROVE  JobKept(p)
<1>1. JobOK(p) /\ TypeOK /\ ImportTypeOK
  BY DEF Before, JobInv, TypeInv
<1>2. /\ Running(p) /\ job[p].at = "refresh" /\ job[p].job \in JobLine /\ job[p].text = Blank
      /\ store[p] \in Store
  BY <1>1, JobRecord DEF Refresh, RefreshReturns, At, TypeOK, JobOK, Locked, Destroying, Open
<1>3. CASE Refresh(p)
  <2>1. job' = job /\ pc'[p] = "refresh" /\ store' = [store EXCEPT ![p].held = TRUE]
    BY <1>1, <1>3 DEF Refresh, lock_and_refresh, Goto, Stay, TypeOK
  <2> DEFINE s == [store[p] EXCEPT !.held = TRUE]
  <2>2. s \in Store /\ store' = [store EXCEPT ![p] = s]
    BY <1>2, <2>1, FieldUpdate
  <2> HIDE DEF s
  <2>3. Open(p)'
    BY <1>1, <2>2 DEF Open, TypeOK
  <2>4. JobOK(p)'
    BY <1>2, <2>1, <2>3 DEF JobOK, Running, Locked, Destroying
  <2>5. QED
    BY <1>1, <2>1, <2>4 DEF JobKept, ImportTypeOK
<1>4. CASE RefreshReturns(p)
  <2>1. RefreshRead(p) /\ Return(p, CanRefresh(p)) /\ CanRefresh(p) \in BOOLEAN /\ pc'[p] = "idle"
    BY <1>1, <1>4 DEF RefreshReturns, RefreshRead, Goto, CanRefresh, TypeOK
  <2>2. /\ job' \in [Process -> JobState \cup {NoJob}]
        /\ Running(p)'
        /\ job'[p].at = IF CanRefresh(p) THEN After(job[p].job, "refresh") ELSE "failed"
        /\ job'[p].text = job[p].text
        /\ \A q \in Process \ {p} : job'[q] = job[q]
    BY <1>1, <1>2, <2>1, Returned
  <2>3. CASE CanRefresh(p)
    <3> DEFINE s == [Loaded(file) EXCEPT !.dk = store[p].dk, !.held = TRUE]
    <3>1. file \in Contents /\ file # NoFile
      BY <1>1, <2>3 DEF CanRefresh, TypeOK
    <3>2. s.fp = file /\ s.held /\ s # Closed
      <4>1. Loaded(file) \in Store /\ Loaded(file).fp = file /\ store[p].dk \in Nat
        BY <1>2, <3>1, LoadedType DEF Loaded, Store
      <4>2. s \in Store /\ s.fp = file /\ s.held
        BY <4>1 DEF Store
      <4> HIDE DEF s
      <4>3. QED
        BY <4>2
    <3>3. store' = [store EXCEPT ![p] = s]
      BY <2>1, <2>3 DEF RefreshRead
    <3> HIDE DEF s
    <3>4. store'[p] = s
      BY <1>1, <3>3 DEF TypeOK
    <3>5. Holds(p)' /\ ~Creating(p)'
      BY <3>1, <3>2, <3>4 DEF Holds, Open, Creating
    <3>6. job'[p].at \in {"reread", "edit"}
      BY <1>2, <2>2, <2>3, AfterPlace
    <3>7. JobOK(p)'
      BY <1>2, <2>1, <2>2, <3>5, <3>6 DEF JobOK, Idle, Locked, Destroying
    <3>8. QED
      BY <2>2, <3>7 DEF JobKept
  <2>4. CASE ~CanRefresh(p)
    <3>1. JobOK(p)'
      BY <1>2, <2>1, <2>2, <2>4 DEF JobOK, Idle, Locked, Destroying
    <3>2. QED
      BY <2>2, <3>1 DEF JobKept
  <2>5. QED
    BY <2>3, <2>4
<1>5. QED
  BY <1>3, <1>4

LEMMA SaveKept ==
  ASSUME Before, NEW p \in Process, Save(p) \/ SaveContinues(p) \/ SaveReturns(p)
  PROVE  JobKept(p)
<1>1. JobOK(p) /\ TypeOK /\ ImportTypeOK /\ ShapeInv
  BY DEF Before, JobInv, TypeInv
<1>2. CASE Save(p) \/ SaveContinues(p)
  <2>1. /\ Running(p) /\ job' = job /\ store' = store
        /\ \/ job[p].at = "save" /\ pc'[p] = "check"
           \/ pc[p] = "check" /\ pc'[p] = "write"
    BY <1>1, <1>2 DEF Save, SaveContinues, save, SaveCheck, Stay, Goto, At, TypeOK
  <2>2. JobOK(p)'
    BY <1>1, <2>1 DEF JobOK, Running, Idle, Open, Holds, Creating, Locked, Destroying
  <2>3. QED
    BY <1>1, <2>1, <2>2 DEF JobKept, ImportTypeOK
<1>3. CASE SaveReturns(p)
  <2>1. /\ Running(p) /\ pc[p] \in {"check", "write"} /\ pc'[p] = "idle"
        /\ store[p] \in Store /\ job[p].job \in JobLine
    BY <1>1, <1>3, JobRecord DEF SaveReturns, SaveWrite, SaveRefused, SaveFails, SaveFailsLate,
         LeaveSave, Goto, TypeOK, ShapeInv, Open
  <2>2. \/ job[p].at = "open" /\ job[p].text = Blank
        \/ job[p].at = "save" /\ Holds(p) /\ ~Creating(p)
    BY <1>1, <2>1, JobRecord DEF JobOK, Idle, JobState, Locked, Destroying
  <2>3. job[p].at # "done" /\ job[p].at # "failed"
    BY <2>2
  <2>4. CASE SaveWrite(p) /\ Return(p, TRUE)
    <3> DEFINE s == [store[p] EXCEPT !.fp = file', !.held = @ /\ ~Creating(p)]
    <3>1. file' \in Contents /\ file' # NoFile
      BY <1>1, <2>1, <2>4, SealedType DEF SaveWrite, TypeOK
    <3>2. (store[p].held /\ ~Creating(p)) \in BOOLEAN
      BY <2>1 DEF Store
    <3>3. store' = [store EXCEPT ![p] = s]
      BY <2>4 DEF SaveWrite
    <3>4. s \in Store /\ s.fp = file' /\ s.held = (store[p].held /\ ~Creating(p))
      <4> DEFINE h == store[p].held /\ ~Creating(p)
      <4>1. h \in BOOLEAN
        BY <3>2
      <4> HIDE DEF h
      <4>2. /\ [store[p] EXCEPT !.fp = file', !.held = h] \in Store
            /\ [store[p] EXCEPT !.fp = file', !.held = h].fp = file'
            /\ [store[p] EXCEPT !.fp = file', !.held = h].held = h
        BY <2>1, <3>1, <4>1 DEF Store
      <4>3. QED
        BY <4>2 DEF h
    <3> HIDE DEF s
    <3>5. store'[p] = s /\ s # Closed
      BY <1>1, <3>3, <3>4 DEF TypeOK
    <3>6. /\ job' \in [Process -> JobState \cup {NoJob}]
          /\ Running(p)'
          /\ job'[p].at = After(job[p].job, job[p].at)
          /\ job'[p].text = job[p].text
          /\ \A q \in Process \ {p} : job'[q] = job[q]
      BY <1>1, <2>1, <2>3, <2>4, Returned
    <3>7. Open(p)' /\ ~Creating(p)'
      BY <3>1, <3>4, <3>5 DEF Open, Creating
    <3>8. CASE job[p].at = "open" /\ job[p].text = Blank
      <4>1. job'[p].at = "refresh"
        BY <2>1, <3>6, <3>8, AfterPlace
      <4>2. JobOK(p)'
        BY <2>1, <3>6, <3>7, <3>8, <4>1 DEF JobOK, Locked, Destroying
      <4>3. QED
        BY <3>6, <4>2 DEF JobKept
    <3>9. CASE job[p].at = "save" /\ Holds(p) /\ ~Creating(p)
      <4>1. job'[p].at = "verify"
        BY <2>1, <3>6, <3>9, AfterPlace
      <4>2. Holds(p)'
        BY <3>4, <3>5, <3>9 DEF Holds, Open
      <4>3. JobOK(p)'
        BY <2>1, <3>6, <3>7, <4>1, <4>2 DEF JobOK, Idle, Locked, Destroying
      <4>4. QED
        BY <3>6, <4>3 DEF JobKept
    <3>10. QED
      BY <2>2, <3>8, <3>9
  <2>5. CASE (SaveRefused(p) \/ SaveFails(p) \/ SaveFailsLate(p)) /\ Return(p, FALSE)
    <3>1. /\ job' \in [Process -> JobState \cup {NoJob}]
          /\ Running(p)' /\ job'[p].at = "failed" /\ job'[p].text = job[p].text
          /\ \A q \in Process \ {p} : job'[q] = job[q]
      BY <1>1, <2>1, <2>3, <2>5, Returned
    <3>2. ~Creating(p) => store' = store
      BY <2>5 DEF SaveRefused, SaveFails, SaveFailsLate, AfterError
    <3>3. JobOK(p)'
      BY <2>1, <2>2, <3>1, <3>2 DEF JobOK, Idle, Holds, Open, Locked, Destroying
    <3>4. QED
      BY <3>1, <3>3 DEF JobKept
  <2>6. QED
    BY <1>3, <2>4, <2>5 DEF SaveReturns
<1>4. QED
  BY <1>2, <1>3

LEMMA EditKept ==
  ASSUME Before, NEW p \in Process, Edit(p)
  PROVE  JobKept(p)
<1> DEFINE j   == job[p].job
           new == Stored(j, job[p].items, store[p].body)
<1>1. JobOK(p) /\ TypeOK /\ ImportTypeOK
  BY DEF Before, JobInv, TypeInv
<1>2. /\ Running(p) /\ job[p].at = "edit" /\ Idle(p) /\ Holds(p) /\ ~Creating(p)
      /\ job[p] \in JobState /\ j \in JobLine /\ job[p].items \in Texts /\ store[p] \in Store
  BY <1>1, JobRecord DEF Edit, At, JobOK, Locked, Holds, Open, TypeOK
<1>3. store[p].body \in Body
  BY <1>2 DEF Store
<1>4. CASE new.taken = {} \/ validate_tier(TierOf(j))
  <2>1. new.body \in Body /\ new.taken \in SUBSET LineNo
    BY <1>2, <1>3, <1>4, StoredType
  <2>2. SetBody(p, new.body) /\ job' = [job EXCEPT ![p].at = "save", ![p].taken = new.taken]
    BY <1>4 DEF Edit
  <2> HIDE DEF new
  <2> DEFINE s == [job[p] EXCEPT !.at = "save", !.taken = new.taken]
             t == [store[p] EXCEPT !.body = new.body]
  <2>3. s \in JobState /\ s.at = "save" /\ s.text = job[p].text
    BY <1>2, <2>1 DEF JobState, Locked
  <2>4. job' = [job EXCEPT ![p] = s]
    BY <2>2
  <2>5. t \in Store /\ t.held = store[p].held /\ t.fp = store[p].fp
    BY <1>2, <2>1, FieldUpdate DEF Store
  <2>6. store' = [store EXCEPT ![p] = t] /\ pc' = pc
    BY <2>2 DEF SetBody
  <2> HIDE DEF s, t
  <2>7. /\ job' \in [Process -> JobState \cup {NoJob}] /\ job'[p] = s
        /\ \A q \in Process \ {p} : job'[q] = job[q]
    BY <1>1, <2>3, <2>4 DEF ImportTypeOK
  <2>8. store'[p] = t
    BY <1>1, <2>6 DEF TypeOK
  <2>9. Holds(p)' /\ ~Creating(p)' /\ Idle(p)'
    BY <1>2, <2>5, <2>6, <2>8 DEF Holds, Open, Creating, Idle
  <2>10. JobOK(p)'
    BY <2>3, <2>7, <2>9 DEF JobOK, Idle, Locked, Destroying
  <2>11. QED
    BY <2>7, <2>10 DEF JobKept
<1>5. CASE ~(new.taken = {} \/ validate_tier(TierOf(j)))
  <2>1. UNCHANGED vars /\ job' = [job EXCEPT ![p].at = "failed"]
    BY <1>5, Zenon DEF Edit
  <2>2. /\ job' \in [Process -> JobState \cup {NoJob}]
        /\ job'[p].at = "failed" /\ job'[p].text = job[p].text
        /\ \A q \in Process \ {p} : job'[q] = job[q]
    BY <1>1, <1>2, <2>1, Moves
  <2>3. Holds(p)' /\ Idle(p)'
    BY <1>2, <2>1 DEF vars, Holds, Open, Idle
  <2>4. JobOK(p)'
    BY <2>2, <2>3 DEF JobOK, Locked, Destroying
  <2>5. QED
    BY <2>2, <2>4 DEF JobKept
<1>6. QED
  BY <1>4, <1>5

\* Verification and destruction leave the store and the lock alone.
LEMMA DestroyKept ==
  ASSUME Before, NEW p \in Process,
         Verify(p) \/ Wipe(p) \/ Unlink(p) \/ Truncate(p) \/ Rewrite(p)
  PROVE  JobKept(p)
<1>1. JobOK(p) /\ TypeOK /\ ImportTypeOK
  BY DEF Before, JobInv, TypeInv
<1>2. Running(p) /\ job[p].at \in {"verify", "wipe", "unlink", "truncate", "rewrite"}
  BY DEF Verify, Wipe, Unlink, Truncate, Rewrite, At
<1>3. Idle(p) /\ Holds(p) /\ ~Creating(p) /\ UNCHANGED vars /\ job[p].job \in JobLine
  BY <1>1, <1>2, JobRecord DEF JobOK, Locked, Destroying, Verify, Wipe, Unlink, Truncate, Rewrite
<1>4. Idle(p)' /\ Holds(p)' /\ ~Creating(p)'
  BY <1>3 DEF vars, Idle, Holds, Open, Creating
<1>5. /\ job' \in [Process -> JobState \cup {NoJob}]
      /\ Running(p)' /\ job'[p].at \in Destroying \cup {"failed"} /\ job'[p].text = job[p].text
      /\ \A q \in Process \ {p} : job'[q] = job[q]
  <2>1. CASE \E ok \in BOOLEAN : Return(p, ok)
    <3>1. PICK ok \in BOOLEAN : Return(p, ok)
      BY <2>1
    <3>2. After(job[p].job, job[p].at) \in Destroying
      BY <1>2, <1>3, AfterPlace DEF Destroying
    <3>3. /\ job' \in [Process -> JobState \cup {NoJob}]
          /\ Running(p)'
          /\ job'[p].at = IF ok THEN After(job[p].job, job[p].at) ELSE "failed"
          /\ job'[p].text = job[p].text
          /\ \A q \in Process \ {p} : job'[q] = job[q]
      BY <1>1, <1>2, <3>1, Returned
    <3>4. QED
      BY <3>2, <3>3
  <2>2. CASE job' = [job EXCEPT ![p].at = "done"]
    BY <1>1, <1>2, <2>2, Moves DEF Locked, Destroying
  <2>3. CASE Verify(p)
    <3> DEFINE ok == file # NoFile /\ file.dk = store[p].dk /\ VaultHasTaken(p)
    <3>1. Return(p, ok)
      BY <2>3 DEF Verify
    <3>2. ok \in BOOLEAN
      BY DEF VaultHasTaken
    <3> HIDE DEF ok
    <3>3. QED
      BY <2>1, <3>1, <3>2
  <2>4. CASE Wipe(p) \/ Unlink(p) \/ Truncate(p) \/ Rewrite(p)
    <3>1. (\E ok \in BOOLEAN : Return(p, ok)) \/ job' = [job EXCEPT ![p].at = "done"]
      BY <2>4 DEF Wipe, Unlink, Truncate, Rewrite
    <3>2. QED
      BY <2>1, <2>2, <3>1
  <2>5. QED
    BY <2>3, <2>4
<1>6. JobOK(p)'
  BY <1>4, <1>5 DEF JobOK, Locked, Destroying
<1>7. QED
  BY <1>5, <1>6 DEF JobKept

LEMMA EndKept ==
  ASSUME Before, NEW p \in Process, Exit(p) \/ Kill(p) \/ OtherCommand(p)
  PROVE  JobKept(p)
<1>1. job' = [job EXCEPT ![p] = NoJob] \/ (job' = job /\ ~Running(p))
  BY DEF Exit, Kill, OtherCommand, Stay
<1>2. /\ job' \in [Process -> JobState \cup {NoJob}]
      /\ \A q \in Process \ {p} : job'[q] = job[q]
  BY <1>1 DEF Before, ImportTypeOK
<1>3. ~Running(p)'
  BY <1>1 DEF Before, ImportTypeOK, Running
<1>4. QED
  BY <1>2, <1>3 DEF JobKept, JobOK

LEMMA OwnKept ==
  ASSUME Before, NEW p \in Process, OwnStep(p)
  PROVE  JobKept(p)
  BY ReadKept, OpenKept, RefreshKept, SaveKept, EditKept, DestroyKept, EndKept DEF OwnStep, JobStep

\* What a step writes at the path of the source.
LEMMA SourceType ==
  ASSUME Before, NEW p \in Process, OwnStep(p)
  PROVE  source' \in Texts \cup {Wiped, NoSource}
<1>1. source \in Texts \cup {Wiped, NoSource}
  BY DEF Before, ImportTypeOK
<1>2. CASE Truncate(p)
  BY <1>1, <1>2 DEF Truncate, Blank, Texts
<1>3. CASE Rewrite(p)
  <2>1. job[p].text \in Texts
    BY <1>3, JobRecord DEF Before, Rewrite, At
  <2>2. QED
    BY <1>1, <1>3, <2>1 DEF Rewrite, Texts
<1>4. CASE Wipe(p) \/ Unlink(p)
  BY <1>1, <1>4 DEF Wipe, Unlink
<1>5. CASE ~(Truncate(p) \/ Rewrite(p) \/ Wipe(p) \/ Unlink(p))
  <2>1. source' = source
    BY <1>5 DEF OwnStep, JobStep, Start, ReadSource, Reread, OpenVault, LoadReturns, CreateContinues,
         Refresh, RefreshReturns, Edit, Save, SaveContinues, SaveReturns, Verify, Exit, Kill,
         OtherCommand, Stay
  <2>2. QED
    BY <1>1, <2>1
<1>6. QED
  BY <1>2, <1>3, <1>4, <1>5

LEMMA JobInit == ImportsInit => ImportTypeOK /\ JobInv
  BY DEF ImportsInit, ImportTypeOK, JobInv, JobOK, Running

LEMMA JobNext == Before /\ [ImportsNext]_importVars => ImportTypeOK' /\ JobInv'
<1> SUFFICES ASSUME Before, [ImportsNext]_importVars
             PROVE  ImportTypeOK' /\ JobInv'
  OBVIOUS
<1>1. ASSUME UNCHANGED <<vars, job>>
      PROVE  JobInv'
  BY <1>1 DEF Before, vars, JobInv, JobOK, Running, Idle, Open, Holds, Creating
<1>2. CASE UNCHANGED importVars
  BY <1>1, <1>2 DEF importVars, vars, Before, ImportTypeOK
<1>3. ASSUME NEW text \in Text, UserWrites(text)
      PROVE  ImportTypeOK' /\ JobInv'
  BY <1>1, <1>3 DEF UserWrites, Before, ImportTypeOK
<1>4. ASSUME NEW p \in Process, OwnStep(p)
      PROVE  ImportTypeOK' /\ JobInv'
  <2>1. JobKept(p)
    BY <1>4, OwnKept
  <2>2. ImportTypeOK'
    BY <1>4, <2>1, SourceType DEF JobKept, ImportTypeOK
  <2>3. ASSUME NEW q \in Process, q # p
        PROVE  JobOK(q)'
    <3>1. store'[q] = store[q] /\ pc'[q] = pc[q]
      BY <1>4, <2>3, OwnIsClient, ClientFrame DEF Before
    <3>2. job'[q] = job[q] /\ JobOK(q)
      BY <2>1, <2>3 DEF JobKept, Before, JobInv
    <3>3. QED
      BY <3>1, <3>2 DEF JobOK, Running, Idle, Open, Holds, Creating
  <2>4. QED
    BY <2>1, <2>2, <2>3 DEF JobKept, JobInv
<1>5. QED
  BY <1>2, <1>3, <1>4 DEF ImportsNext, OwnStep

-----------------------------------------------------------------------------
(* The jobs are clients of the store.                                      *)

LEMMA ImportsStep ==
  ASSUME TypeInv, ImportTypeOK, JobInv, [ImportsNext]_importVars
  PROVE  [ClientNext]_vars
<1>1. ASSUME NEW p \in Process, OwnStep(p)
      PROVE  [ClientNext]_vars
  BY <1>1, OwnIsClient DEF ClientNext
<1>2. QED
  BY <1>1 DEF ImportsNext, OwnStep, UserWrites, importVars, vars

\* Whatever a job or another command does to the store, it does through the
\* methods of VaultStore and edits of what it holds: what is proved of every
\* client is true while `import`, `import-env` and `scan --adopt` run.
THEOREM ImportsAreClients == ImportsSpec => ClientSpec
<1> DEFINE Inv == TypeInv /\ MutexInv /\ ImportTypeOK /\ JobInv
<1>1. ImportsInit => Inv /\ Init
  BY TypeInit, MutexInit, JobInit DEF ImportsInit
<1>2. Inv /\ [ImportsNext]_importVars => Inv' /\ [ClientNext]_vars
  BY ImportsStep, TypeNext, MutexNext, JobNext DEF Before
<1>3. QED
  BY <1>1, <1>2, PTL DEF ImportsSpec, ClientSpec

\* So the flock keeps the processes apart, each save replaces what its store was
\* read from, and every copy of the vault opens with what it was closed with.
THEOREM ImportsKeepTheStore ==
  ImportsSpec => [](LockInv /\ WriteIsCurrent /\ WrapsOpenBody) /\ NoLostUpdate /\ DataKeyIsStable
<1>1. MutexInv => LockInv /\ WriteIsCurrent
  BY DEF MutexInv
<1>2. KeysInv => WrapsOpenBody
  BY DEF KeysInv
<1>3. QED
  BY <1>1, <1>2, ImportsAreClients, MutexAlways, KeysAlways, ClientsKeepUpdates,
     ClientsKeepTheDataKey, PTL

\* While jobs and other commands run, the vault is one atomic register.
THEOREM ImportsImplementAtomicVault == ImportsSpec => Implements
  BY ImportsAreClients, ClientsImplement

-----------------------------------------------------------------------------
(* What is destroyed was stored.  A job that destroys holds the flock and  *)
(* writes nothing, and whoever writes the vault holds the flock: so what   *)
(* it verified stays.  That no key is missing is true of its store from    *)
(* the edit on, and of the vault from the save on, which is that store.    *)

LEMMA JobAlways == ImportsSpec => []Before
<1>1. ImportsInit => Before
  BY TypeInit, MutexInit, JobInit DEF ImportsInit, Before
<1>2. Before /\ [ImportsNext]_importVars => Before'
  BY ImportsStep, TypeNext, MutexNext, JobNext DEF Before
<1>3. QED
  BY <1>1, <1>2, PTL DEF ImportsSpec

Late == {"save", "verify"} \cup Destroying

StoreHasKeys(p) ==
    \A i \in LineNo : job[p].items[i] # NoLine => Has(store[p].body, job[p].items[i].key)

SavedOK(p) ==
    Running(p) =>
        /\ job[p].at \in Late => StoreHasKeys(p)
        /\ job[p].at \in Late \ {"save"} => file # NoFile /\ file.body = store[p].body

SavedInv == \A p \in Process : SavedOK(p)

\* The steps after which a job is at its save or beyond.
LEMMA LateSteps ==
  ASSUME Before, NEW p \in Process, OwnStep(p), Running(p)', job'[p].at \in Late
  PROVE  \/ Edit(p) \/ Save(p) \/ SaveContinues(p) \/ SaveReturns(p)
         \/ Verify(p) \/ Wipe(p) \/ Unlink(p) \/ Truncate(p) \/ Rewrite(p)
<1>1. JobOK(p) /\ TypeOK /\ ImportTypeOK
  BY DEF Before, JobInv, TypeInv
<1>2. ~ \E j \in Job : Start(p, j)
  BY <1>1 DEF Start, ImportTypeOK, Destroying, Late
<1>3. ~ (OpenVault(p) \/ CreateContinues(p) \/ Refresh(p))
  BY <1>1 DEF OpenVault, CreateContinues, Refresh, Stay, At, Destroying, Late
<1>4. ~ (Exit(p) \/ Kill(p) \/ OtherCommand(p))
  BY <1>1 DEF Exit, Kill, OtherCommand, Stay, Running, ImportTypeOK
<1>5. ~ (ReadSource(p) \/ Reread(p))
  <2> SUFFICES ASSUME ReadSource(p) \/ Reread(p)
               PROVE  FALSE
    OBVIOUS
  <2>1. job[p] \in JobState /\ job[p].job \in JobLine /\ job[p].at \in {"read", "reread"}
    BY <1>1, JobRecord DEF ReadSource, Reread, At
  <2>2. \E a \in {After(job[p].job, job[p].at), "failed"} : \E x, y :
           \/ job' = [job EXCEPT ![p].at = a, ![p].items = x]
           \/ job' = [job EXCEPT ![p].at = a, ![p].text = y, ![p].items = x]
           \/ job' = [job EXCEPT ![p].at = a]
    BY DEF ReadSource, Reread
  <2>3. {After(job[p].job, job[p].at), "failed"} \subseteq {"open", "edit", "failed"}
    BY <2>1, AfterPlace
  <2>4. QED
    BY <1>1, <2>1, <2>2, <2>3 DEF ImportTypeOK, JobState, Destroying, Late
<1>6. ~ (LoadReturns(p) \/ RefreshReturns(p))
  <2> SUFFICES ASSUME LoadReturns(p) \/ RefreshReturns(p)
               PROVE  FALSE
    OBVIOUS
  <2>1. PICK ok \in BOOLEAN : Return(p, ok)
    BY DEF LoadReturns, RefreshReturns, CanRefresh
  <2>2. Running(p) /\ job[p].job \in JobLine /\ job[p].at \in {"open", "refresh"}
    BY <1>1, JobRecord DEF LoadReturns, RefreshReturns, At
  <2>3. job'[p].at = IF ok THEN After(job[p].job, job[p].at) ELSE "failed"
    BY <1>1, <2>1, <2>2, Returned
  <2>4. After(job[p].job, job[p].at) \notin Late
    BY <2>2, AfterPlace DEF Destroying, Late
  <2>5. QED
    BY <2>3, <2>4 DEF Destroying, Late
<1>7. QED
  BY <1>2, <1>3, <1>4, <1>5, <1>6 DEF OwnStep, JobStep

\* A job begins to destroy where it verified, and destroys step by step.
LEMMA OwnDestruction ==
  ASSUME Before, \A q \in Process : Running(q) /\ job[q].at \in Destroying => VaultHasTaken(q),
         NEW p \in Process, OwnStep(p), Running(p)', job'[p].at \in Destroying
  PROVE  VaultHasTaken(p)'
<1>1. JobOK(p) /\ TypeOK /\ ImportTypeOK
  BY DEF Before, JobInv, TypeInv
<1>2. ~ (Save(p) \/ SaveContinues(p))
  BY <1>1 DEF Save, SaveContinues, SaveCheck, Stay, At, JobOK, Idle, Locked, Destroying
<1>3. ~ Edit(p)
  <2>1. Edit(p) => \E t : \/ job' = [job EXCEPT ![p].at = "save", ![p].taken = t]
                          \/ job' = [job EXCEPT ![p].at = "failed"]
    BY Zenon DEF Edit
  <2>2. Edit(p) => job[p] \in JobState
    BY JobRecord, <1>1 DEF Edit, At
  <2>3. QED
    BY <1>1, <2>1, <2>2 DEF ImportTypeOK, JobState, Destroying
<1>4. ~ SaveReturns(p)
  <2> SUFFICES ASSUME SaveReturns(p)
               PROVE  FALSE
    OBVIOUS
  <2>1. PICK ok \in BOOLEAN : Return(p, ok)
    BY DEF SaveReturns
  <2>2. Running(p) /\ job[p].job \in JobLine /\ job[p].at \in {"open", "save"}
    BY <1>1, JobRecord DEF SaveReturns, SaveWrite, SaveRefused, SaveFails, SaveFailsLate, JobOK,
       Idle, Locked, JobState
  <2>3. job'[p].at = IF ok THEN After(job[p].job, job[p].at) ELSE "failed"
    BY <1>1, <2>1, <2>2, Returned
  <2>4. After(job[p].job, job[p].at) \notin Destroying
    BY <2>2, AfterPlace DEF Destroying
  <2>5. QED
    BY <2>3, <2>4 DEF Destroying
<1>8. Verify(p) \/ Wipe(p) \/ Unlink(p) \/ Truncate(p) \/ Rewrite(p)
  BY <1>2, <1>3, <1>4, LateSteps DEF Late
<1>9. /\ Running(p) /\ job[p].at \in {"verify"} \cup Destroying /\ file' = file
      /\ job[p].at # "done" /\ job[p].at # "failed"
  BY <1>8 DEF Verify, Wipe, Unlink, Truncate, Rewrite, At, vars, Destroying
<1>10. VaultHasTaken(p)
  <2>1. CASE Verify(p)
    <3> DEFINE ok == file # NoFile /\ file.dk = store[p].dk /\ VaultHasTaken(p)
    <3>1. ok \in BOOLEAN
      BY DEF VaultHasTaken
    <3>2. Return(p, ok)
      BY <2>1 DEF Verify
    <3> HIDE DEF ok
    <3>3. job'[p].at = IF ok THEN After(job[p].job, job[p].at) ELSE "failed"
      BY <1>1, <1>9, <3>1, <3>2, Returned
    <3>4. ok
      BY <3>1, <3>3 DEF Destroying
    <3>5. QED
      BY <3>4 DEF ok
  <2>2. CASE ~ Verify(p)
    <3>1. job[p].at \in Destroying
      BY <1>8, <2>2 DEF Wipe, Unlink, Truncate, Rewrite, At, Destroying
    <3>2. QED
      BY <1>9, <3>1
  <2>3. QED
    BY <2>1, <2>2
<1>11. job'[p].items = job[p].items /\ job'[p].taken = job[p].taken
  <2>1. (\E ok : Return(p, ok)) \/ job' = [job EXCEPT ![p].at = "done"]
    BY <1>8 DEF Verify, Wipe, Unlink, Truncate, Rewrite
  <2>2. \E a : job' = [job EXCEPT ![p].at = a]
    BY <2>1 DEF Return
  <2>3. job[p] \in JobState
    BY <1>1, <1>9, JobRecord
  <2>4. QED
    BY <1>1, <2>2, <2>3 DEF ImportTypeOK, JobState
<1>12. QED
  BY <1>9, <1>10, <1>11 DEF VaultHasTaken

\* The owner of the flock keeps the vault from changing.
LEMMA FileStays ==
  ASSUME TypeInv, MutexInv, NEW p \in Process, ClientStep(p) \/ UNCHANGED vars,
         NEW q \in Process, q # p, Holds(q)
  PROVE  file' = file
<1> SUFFICES ASSUME file' # file
             PROVE  FALSE
  OBVIOUS
<1>1. pc[p] \in {"write", "replace"}
  BY OnlySaveAndRestoreWrite DEF vars
<1>2. QED
  BY <1>1, OneHolder DEF MutexInv, LockedPc

\* A step of p keeps what is said of p.
LEMMA OwnSaved ==
  ASSUME Before, SavedInv, NEW p \in Process, OwnStep(p)
  PROVE  SavedOK(p)'
<1>1. JobOK(p) /\ TypeOK /\ ImportTypeOK /\ SavedOK(p)
  BY DEF Before, JobInv, TypeInv, SavedInv
<1> SUFFICES ASSUME Running(p)', job'[p].at \in Late
             PROVE  SavedOK(p)'
  BY DEF SavedOK
<1>2. CASE Edit(p)
  <2> DEFINE j   == job[p].job
             new == Stored(j, job[p].items, store[p].body)
  <2>1. /\ job[p] \in JobState /\ j \in JobLine /\ job[p].items \in Texts
        /\ store[p] \in Store /\ store[p].body \in Body
    BY <1>1, <1>2, JobRecord DEF Edit, At, JobOK, Locked, Holds, Open, TypeOK, Store
  <2>2. CASE ~(new.taken = {} \/ validate_tier(TierOf(j)))
    <3>1. job' = [job EXCEPT ![p].at = "failed"]
      BY <1>2, <2>2, Zenon DEF Edit
    <3>2. QED
      BY <1>1, <2>1, <3>1 DEF ImportTypeOK, JobState, Late, Destroying
  <2>3. CASE new.taken = {} \/ validate_tier(TierOf(j))
    <3>1. \A i \in LineNo : job[p].items[i] # NoLine => Has(new.body, job[p].items[i].key)
      BY <2>1, <2>3, StoredType
    <3>2. SetBody(p, new.body) /\ job' = [job EXCEPT ![p].at = "save", ![p].taken = new.taken]
      BY <1>2, <2>3 DEF Edit
    <3> HIDE DEF new
    <3>3. store'[p].body = new.body
      BY <1>1, <2>1, <3>2 DEF SetBody, TypeOK, Store
    <3>4. job'[p].at = "save" /\ job'[p].items = job[p].items
      BY <1>1, <2>1, <3>2 DEF ImportTypeOK, JobState
    <3>5. QED
      BY <3>1, <3>3, <3>4 DEF SavedOK, StoreHasKeys, Late, Destroying
  <2>4. QED
    BY <2>2, <2>3
<1>3. CASE Save(p) \/ SaveContinues(p)
  <2>1. job' = job /\ store' = store /\ file' = file
    BY <1>3 DEF Save, SaveContinues, save, SaveCheck, Stay
  <2>2. QED
    BY <1>1, <2>1 DEF SavedOK, StoreHasKeys, Running
<1>4. CASE SaveReturns(p)
  <2>1. PICK ok \in BOOLEAN : Return(p, ok) /\ (ok => SaveWrite(p))
    BY <1>4 DEF SaveReturns
  <2>2. Running(p) /\ job[p].job \in JobLine /\ job[p].at \in {"open", "save"}
    BY <1>1, <1>4, JobRecord DEF SaveReturns, SaveWrite, SaveRefused, SaveFails, SaveFailsLate,
       JobOK, Idle, Locked, JobState
  <2>3. /\ job'[p].at = IF ok THEN After(job[p].job, job[p].at) ELSE "failed"
        /\ job'[p].items = job[p].items
    BY <1>1, <2>1, <2>2, Returned
  <2>4. ok /\ job[p].at = "save" /\ job'[p].at = "verify"
    BY <2>2, <2>3, AfterPlace DEF Late, Destroying
  <2>5. StoreHasKeys(p) /\ Holds(p)
    BY <1>1, <2>2, <2>4 DEF SavedOK, Late, JobOK, Locked
  <2>6. store[p] \in Store /\ SaveWrite(p)
    BY <1>1, <2>1, <2>4, <2>5 DEF Holds, Open, TypeOK
  <2>7. file' \in Contents /\ file' # NoFile /\ file'.body = store[p].body
    BY <1>1, <2>6, SealedType DEF SaveWrite, TypeOK, Sealed
  <2>8. store'[p].body = store[p].body
    BY <1>1, <2>6 DEF SaveWrite, TypeOK, Store
  <2>9. QED
    BY <2>3, <2>4, <2>5, <2>7, <2>8 DEF SavedOK, StoreHasKeys, Late
<1>5. CASE Verify(p) \/ Wipe(p) \/ Unlink(p) \/ Truncate(p) \/ Rewrite(p)
  <2>1. /\ Running(p) /\ job[p].at \in Late \ {"save"} /\ UNCHANGED vars
        /\ job[p] \in JobState
    BY <1>1, <1>5, JobRecord DEF Verify, Wipe, Unlink, Truncate, Rewrite, At, Late, Destroying
  <2>2. (\E ok : Return(p, ok)) \/ job' = [job EXCEPT ![p].at = "done"]
    BY <1>5 DEF Verify, Wipe, Unlink, Truncate, Rewrite
  <2>3. \E a : job' = [job EXCEPT ![p].at = a]
    BY <2>2 DEF Return
  <2>4. job'[p].items = job[p].items
    BY <1>1, <2>1, <2>3 DEF ImportTypeOK, JobState
  <2>5. QED
    BY <1>1, <2>1, <2>4 DEF SavedOK, StoreHasKeys, vars
<1>6. QED
  BY <1>2, <1>3, <1>4, <1>5, LateSteps

LEMMA SavedNext == Before /\ SavedInv /\ [ImportsNext]_importVars => SavedInv'
<1> SUFFICES ASSUME Before, SavedInv, [ImportsNext]_importVars
             PROVE  SavedInv'
  OBVIOUS
<1>1. CASE UNCHANGED importVars \/ \E text \in Text : UserWrites(text)
  BY <1>1 DEF UserWrites, importVars, vars, SavedInv, SavedOK, StoreHasKeys, Running
<1>2. ASSUME NEW p \in Process, OwnStep(p)
      PROVE  SavedInv'
  <2>1. ASSUME NEW q \in Process, q # p
        PROVE  SavedOK(q)'
    <3>1. job'[q] = job[q]
      BY <1>2, <2>1, OwnKept DEF JobKept
    <3>2. store'[q] = store[q]
      BY <1>2, <2>1, OwnIsClient, ClientFrame DEF Before
    <3>3. Running(q) /\ job[q].at \in Late => Holds(q)
      BY DEF Before, JobInv, JobOK, Locked, Late
    <3>4. Holds(q) => file' = file
      BY <1>2, <2>1, OwnIsClient, FileStays DEF Before
    <3>5. SavedOK(q)
      BY DEF SavedInv
    <3>6. QED
      BY <3>1, <3>2, <3>3, <3>4, <3>5 DEF SavedOK, StoreHasKeys, Running
  <2>2. QED
    BY <1>2, <2>1, OwnSaved DEF SavedInv
<1>3. QED
  BY <1>1, <1>2 DEF ImportsNext, OwnStep

TakenInv == \A p \in Process : Running(p) /\ job[p].at \in Destroying => VaultHasTaken(p)

LEMMA TakenNext == Before /\ TakenInv /\ [ImportsNext]_importVars => TakenInv'
<1> SUFFICES ASSUME Before, TakenInv, [ImportsNext]_importVars
             PROVE  TakenInv'
  OBVIOUS
<1>1. CASE UNCHANGED importVars \/ \E text \in Text : UserWrites(text)
  BY <1>1 DEF UserWrites, importVars, vars, TakenInv, Running, VaultHasTaken
<1>2. ASSUME NEW p \in Process, OwnStep(p)
      PROVE  TakenInv'
  <2>1. ASSUME NEW q \in Process, q # p, Running(q)', job'[q].at \in Destroying
        PROVE  VaultHasTaken(q)'
    <3>1. job'[q] = job[q]
      BY <1>2, <2>1, OwnKept DEF JobKept
    <3>2. VaultHasTaken(q) /\ Holds(q)
      BY <2>1, <3>1 DEF TakenInv, Running, Before, JobInv, JobOK, Locked
    <3>3. file' = file
      BY <1>2, <2>1, <3>2, OwnIsClient, FileStays DEF Before
    <3>4. QED
      BY <3>1, <3>2, <3>3 DEF VaultHasTaken
  <2>2. QED
    BY <1>2, <2>1, OwnDestruction DEF TakenInv
<1>3. QED
  BY <1>1, <1>2 DEF ImportsNext, OwnStep

\* From the first zero written over a source until the command says that it is
\* done, the vault holds every pair that the command stored, and an entry for every
\* pair that it read: nothing that another process does between the verification and
\* the removal takes one away.
THEOREM ImportsLoseNothing == ImportsSpec => []StoredBeforeDestroyed
<1>1. ImportsInit => TakenInv /\ SavedInv
  BY DEF ImportsInit, TakenInv, SavedInv, SavedOK, Running
<1>2. TakenInv /\ SavedInv => StoredBeforeDestroyed
  <2> SUFFICES ASSUME TakenInv, SavedInv,
                      NEW p \in Process, Running(p), job[p].at \in Destroying
               PROVE  VaultHasTaken(p) /\ VaultHasKeys(p)
    BY DEF StoredBeforeDestroyed
  <2>1. VaultHasTaken(p)
    BY DEF TakenInv
  <2>2. job[p].at \in Late /\ job[p].at # "save"
    BY DEF Late, Destroying
  <2>3. StoreHasKeys(p) /\ file # NoFile /\ file.body = store[p].body
    BY <2>2 DEF SavedInv, SavedOK
  <2>4. QED
    BY <2>1, <2>3 DEF StoreHasKeys, VaultHasKeys
<1>3. QED
  BY <1>1, <1>2, JobAlways, TakenNext, SavedNext, PTL DEF ImportsSpec

\* No other command of this program touches the source between the moment adopt
\* reads it, under the lock, and the moment adopt writes it back: both hold the
\* flock when they do.
THEOREM AdoptRestoresNothing == ImportsSpec => AdoptWritesBackWhatIsThere
<1> DEFINE Own == \A p \in Process :
                     Running(p) /\ job[p].text # Blank /\ source' # source /\ job' # job
                     => job'[p] # job[p]
<1>1. ASSUME Before, [ImportsNext]_importVars
      PROVE  Own
  <2> SUFFICES ASSUME NEW p \in Process,
                      Running(p), job[p].text # Blank, source' # source, job' # job
               PROVE  job'[p] # job[p]
    OBVIOUS
  <2>1. PICK r \in Process : OwnStep(r)
    BY <1>1 DEF ImportsNext, OwnStep, UserWrites, importVars
  <2>2. Wipe(r) \/ Unlink(r) \/ Truncate(r) \/ Rewrite(r)
    BY <2>1 DEF OwnStep, JobStep, Start, ReadSource, Reread, OpenVault, LoadReturns, CreateContinues,
       Refresh, RefreshReturns, Edit, Save, SaveContinues, SaveReturns, Verify, Exit, Kill,
       OtherCommand, Stay
  <2>3. Running(r) /\ job[r].at \in Destroying
    BY <2>2 DEF Wipe, Unlink, Truncate, Rewrite, At, Destroying
  <2>4. Holds(r) /\ Holds(p)
    BY <1>1, <2>3 DEF Before, JobInv, JobOK, Locked
  <2>5. r = p
    BY <1>1, <2>4, OneHolder DEF Before, MutexInv
  <2>6. /\ job' \in [Process -> JobState \cup {NoJob}]
        /\ job \in [Process -> JobState \cup {NoJob}]
        /\ \A q \in Process \ {p} : job'[q] = job[q]
    BY <1>1, <2>1, <2>5, OwnKept DEF JobKept, Before, ImportTypeOK
  <2>7. QED
    BY <2>6
<1>2. Before /\ [ImportsNext]_importVars => [Own]_importVars
  BY <1>1
<1> HIDE DEF Own
<1>3. ImportsSpec => [][Own]_importVars
  BY <1>2, JobAlways, PTL DEF ImportsSpec
<1>4. QED
  BY <1>3 DEF AdoptWritesBackWhatIsThere, Own
=============================================================================

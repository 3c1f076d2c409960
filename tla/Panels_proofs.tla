---------------------------- MODULE Panels_proofs -----------------------------
(***************************************************************************)
(* Proofs about what the pages show, as parts of MCRecovery.  RunProgress: *)
(* what a run of the worker has still to do is divided into tasks without  *)
(* a common item, so that no item is left behind and none is counted       *)
(* twice. VmConsole: what is on its way to the page was so when it was     *)
(* read, and a search knows of the machines what it has been told.  With   *)
(* the parts of VaultParts_proofs they close OpenedIsOwned.                *)
(***************************************************************************)
EXTENDS MCRecovery_proofs

-----------------------------------------------------------------------------
(* RunProgress.  What runFolderBackup has left is divided into tasks that  *)
(* have no item in common; each step settles items of the task at its head *)
(* and leaves the rest of them in one task or in two halves.               *)

Hows     == Progress!Commands \cup Progress!Singles \cup {"bundle", "forget"}
WorkTask == [how : Hows, items : SUBSET Progress!Items]

\* The tasks of q share the items of W.
Divides(q, W) ==
  /\ q \in Seq(WorkTask)
  /\ UNION {q[i].items : i \in DOMAIN q} = W
  /\ \A i, j \in DOMAIN q : i # j => q[i].items \cap q[j].items = {}
  /\ \A i \in DOMAIN q : q[i].items # {}

LEMMA NoTask == Divides(<<>>, {})
<1>1. <<>> \in Seq(WorkTask) /\ DOMAIN <<>> = {}
  OBVIOUS
<1>2. QED BY <1>1 DEF Divides

LEMMA NothingToDivide == ASSUME NEW q, Divides(q, {}) PROVE q = <<>>
<1>1. q \in Seq(WorkTask) /\ DOMAIN q = {}
  BY DEF Divides
<1>2. DOMAIN q = 1 .. Len(q) /\ Len(q) \in Nat
  BY <1>1, LenProperties
<1>3. Len(q) = 0
  BY <1>1, <1>2
<1>4. QED BY <1>1, <1>3, EmptySeq

LEMMA OneTask ==
  ASSUME NEW how \in Hows, NEW items \in SUBSET Progress!Items, items # {}
  PROVE  Divides(<<Progress!Task(how, items)>>, items)
<1> DEFINE t == Progress!Task(how, items)
<1>1. t \in WorkTask /\ t.items = items
  BY DEF Progress!Task, WorkTask
<1>2. <<t>> \in Seq(WorkTask) /\ DOMAIN <<t>> = {1} /\ <<t>>[1] = t
  BY <1>1
<1> HIDE DEF t
<1>3. Divides(<<t>>, items)
  BY <1>1, <1>2 DEF Divides
<1>4. QED BY <1>3 DEF t

LEMMA WhatIsLeft ==
  ASSUME NEW how \in Hows, NEW items \in SUBSET Progress!Items
  PROVE  Divides(Progress!Left(how, items), items)
BY NoTask, OneTask DEF Progress!Left

LEMMA JoinedTasks ==
  ASSUME NEW q, NEW r, NEW V, NEW W, Divides(q, V), Divides(r, W), V \cap W = {}
  PROVE  Divides(q \o r, V \cup W)
<1> DEFINE m == Len(q)  n == Len(r)  s == q \o r
<1>1. /\ q \in Seq(WorkTask) /\ r \in Seq(WorkTask)
      /\ m \in Nat /\ n \in Nat /\ DOMAIN q = 1 .. m /\ DOMAIN r = 1 .. n
  BY LenProperties DEF Divides
<1>2. /\ s \in Seq(WorkTask) /\ DOMAIN s = 1 .. m + n
      /\ \A i \in 1 .. m + n : s[i] = IF i <= m THEN q[i] ELSE r[i - m]
  BY <1>1, ConcatProperties, LenProperties
<1> HIDE DEF m, n, s
<1>3. \A i \in 1 .. m : i \in 1 .. m + n /\ s[i] = q[i]
  BY <1>1, <1>2
<1>4. \A i \in 1 .. n : i + m \in 1 .. m + n /\ s[i + m] = r[i]
  BY <1>1, <1>2
<1>5. \A i \in DOMAIN s : \/ i \in DOMAIN q /\ s[i] = q[i]
                          \/ i \notin DOMAIN q /\ \E k \in DOMAIN r : i = k + m /\ s[i] = r[k]
  <2>1. TAKE i \in DOMAIN s
  <2>2. CASE i \in 1 .. m
    BY <1>1, <1>3, <2>2
  <2>3. CASE i \notin 1 .. m
    <3>1. i - m \in DOMAIN r /\ i = (i - m) + m
      BY <1>1, <1>2, <2>3
    <3>2. s[i] = r[i - m]
      BY <1>1, <1>2, <2>3
    <3>3. QED BY <1>1, <2>3, <3>1, <3>2
  <2>4. QED BY <2>2, <2>3
<1>6. /\ \A i \in DOMAIN q : q[i].items \subseteq V
      /\ \A i \in DOMAIN r : r[i].items \subseteq W
  BY DEF Divides
<1>7. UNION {s[i].items : i \in DOMAIN s} = V \cup W
  <2>1. \A x \in V : \E i \in DOMAIN s : x \in s[i].items
    <3>1. \A x \in V : \E i \in 1 .. m : x \in q[i].items
      BY <1>1 DEF Divides
    <3>2. QED BY <1>2, <1>3, <3>1
  <2>2. \A x \in W : \E i \in DOMAIN s : x \in s[i].items
    <3>1. \A x \in W : \E i \in 1 .. n : x \in r[i].items
      BY <1>1 DEF Divides
    <3>2. QED BY <1>2, <1>4, <3>1
  <2>3. \A i \in DOMAIN s : s[i].items \subseteq V \cup W
    BY <1>5, <1>6
  <2>4. QED BY <2>1, <2>2, <2>3
<1>8. \A i \in DOMAIN s : s[i].items # {}
  BY <1>5 DEF Divides
<1>9. \A i, j \in DOMAIN s : i # j => s[i].items \cap s[j].items = {}
  <2> SUFFICES ASSUME NEW i \in DOMAIN s, NEW j \in DOMAIN s, i # j
               PROVE  s[i].items \cap s[j].items = {}
    OBVIOUS
  <2>1. CASE i \in DOMAIN q /\ j \in DOMAIN q
    BY <1>5, <2>1 DEF Divides
  <2>2. CASE i \in DOMAIN q /\ j \notin DOMAIN q
    BY <1>5, <1>6, <2>2
  <2>3. CASE i \notin DOMAIN q /\ j \in DOMAIN q
    BY <1>5, <1>6, <2>3
  <2>4. CASE i \notin DOMAIN q /\ j \notin DOMAIN q
    <3>1. PICK k \in DOMAIN r : i = k + m /\ s[i] = r[k]
      BY <1>5, <2>4
    <3>2. PICK l \in DOMAIN r : j = l + m /\ s[j] = r[l]
      BY <1>5, <2>4
    <3>3. k # l
      BY <3>1, <3>2
    <3>4. QED BY <3>1, <3>2, <3>3 DEF Divides
  <2>5. QED BY <2>1, <2>2, <2>3, <2>4
<1>10. QED BY <1>2, <1>7, <1>8, <1>9 DEF Divides, s

\* The head of the tasks, and those behind it.
LEMMA HeadOfTasks ==
  ASSUME NEW q, NEW W, Divides(q, W), q # <<>>
  PROVE  /\ Head(q) = q[1] /\ Head(q) \in WorkTask
         /\ Head(q).items \subseteq W /\ Head(q).items # {}
         /\ Divides(Tail(q), W \ Head(q).items)
<1> DEFINE n == Len(q)
<1>1. q \in Seq(WorkTask) /\ n \in Nat \ {0} /\ DOMAIN q = 1 .. n
  BY LenProperties, EmptySeq DEF Divides
<1>2. /\ Head(q) = q[1] /\ Head(q) \in WorkTask
      /\ Tail(q) \in Seq(WorkTask) /\ DOMAIN Tail(q) = 1 .. n - 1
      /\ \A i \in 1 .. n - 1 : Tail(q)[i] = q[i + 1]
  BY <1>1, HeadTailProperties, LenProperties
<1> HIDE DEF n
<1>3. 1 \in DOMAIN q /\ \A i \in 1 .. n - 1 : i + 1 \in 1 .. n /\ i + 1 # 1
  BY <1>1
<1>4. \A i \in 1 .. n : i = 1 \/ \E k \in 1 .. n - 1 : Tail(q)[k] = q[i]
  <2> SUFFICES ASSUME NEW i \in 1 .. n, i # 1 PROVE \E k \in 1 .. n - 1 : Tail(q)[k] = q[i]
    OBVIOUS
  <2>1. i - 1 \in 1 .. n - 1 /\ i = (i - 1) + 1
    BY <1>1
  <2>2. Tail(q)[i - 1] = q[i]
    BY <1>2, <2>1
  <2>3. QED BY <2>1, <2>2
<1>5. Head(q).items \subseteq W /\ Head(q).items # {}
  BY <1>2, <1>3 DEF Divides
<1>6. UNION {Tail(q)[i].items : i \in DOMAIN Tail(q)} = W \ Head(q).items
  <2>1. \A i \in 1 .. n - 1 : Tail(q)[i].items \subseteq W \ Head(q).items
    BY <1>1, <1>2, <1>3 DEF Divides
  <2>2. \A x \in W \ Head(q).items : \E i \in 1 .. n - 1 : x \in Tail(q)[i].items
    <3> SUFFICES ASSUME NEW x \in W, x \notin q[1].items
                 PROVE  \E i \in 1 .. n - 1 : x \in Tail(q)[i].items
      BY <1>2
    <3>1. PICK i \in 1 .. n : x \in q[i].items
      BY <1>1 DEF Divides
    <3>2. QED BY <1>4, <3>1
  <2>3. DOMAIN Tail(q) = 1 .. n - 1
    BY <1>2
  <2>4. QED BY <2>1, <2>2, <2>3
<1>7. /\ \A i, j \in 1 .. n - 1 : i # j => Tail(q)[i].items \cap Tail(q)[j].items = {}
      /\ \A i \in 1 .. n - 1 : Tail(q)[i].items # {}
  <2>1. \A i, j \in 1 .. n - 1 : i # j => i + 1 # j + 1
    OBVIOUS
  <2>2. QED BY <1>1, <1>2, <1>3, <2>1 DEF Divides
<1>8. QED BY <1>2, <1>5, <1>6, <1>7 DEF Divides

-----------------------------------------------------------------------------
(* What became of the items, and how many there are of a kind.             *)

Outcomes     == {"none", "queued", "completed", "failed", "skipped", "marked", "dropped"}
RunItems     == (1 .. RunFolders) \X Progress!Items
ItemsOf(o, f, kinds) == {i \in Progress!Items : o[<<f, i>>] \in kinds}
CountOf(o, kinds)    == Cardinality({x \in RunItems : o[x] \in kinds})
NoneDropped          == \A x \in RunItems : outcome[x] # "dropped"

LEMMA ItemsAreFinite ==
  ASSUME Progress!RunAssumption
  PROVE  IsFiniteSet(Progress!Items) /\ IsFiniteSet(1 .. RunFolders) /\ IsFiniteSet(RunItems)
<1>1. RunFolders \in Nat /\ Planned \in Nat
  BY DEF Progress!RunAssumption
<1>2. IsFiniteSet(Progress!Items) /\ IsFiniteSet(1 .. RunFolders)
  BY <1>1, FS_Interval DEF Progress!Items
<1>3. QED BY <1>2, FS_Product DEF RunItems

LEMMA DisjointAdd ==
  ASSUME NEW S, NEW T, IsFiniteSet(S), IsFiniteSet(T), S \cap T = {}
  PROVE  /\ Cardinality(S \cup T) = Cardinality(S) + Cardinality(T)
         /\ Cardinality(S) \in Nat /\ Cardinality(T) \in Nat /\ IsFiniteSet(S \cup T)
<1>1. Cardinality(S) \in Nat /\ Cardinality(T) \in Nat /\ Cardinality(S \cap T) = 0
  BY FS_CardinalityType, FS_EmptySet
<1>2. /\ Cardinality(S \cup T) = Cardinality(S) + Cardinality(T) - Cardinality(S \cap T)
      /\ IsFiniteSet(S \cup T)
  BY FS_Union
<1>3. QED BY <1>1, <1>2

LEMMA SomeItems ==
  ASSUME Progress!RunAssumption, NEW S \in SUBSET Progress!Items
  PROVE  IsFiniteSet(S) /\ Cardinality(S) \in Nat
BY ItemsAreFinite, FS_Subset, FS_CardinalityType

LEMMA PairsOfFolder ==
  ASSUME Progress!RunAssumption, NEW f, NEW S \in SUBSET Progress!Items
  PROVE  /\ IsFiniteSet({f} \X S) /\ Cardinality({f} \X S) = Cardinality(S)
<1>1. IsFiniteSet(S) /\ Cardinality(S) \in Nat
  BY SomeItems
<1>2. IsFiniteSet({f}) /\ Cardinality({f}) = 1
  BY FS_Singleton
<1>3. IsFiniteSet({f} \X S) /\ Cardinality({f} \X S) = Cardinality({f}) * Cardinality(S)
  BY <1>1, <1>2, FS_Product
<1>4. QED BY <1>1, <1>2, <1>3

\* The items that come to be of a kind are counted with it.
LEMMA CountAdds ==
  ASSUME Progress!RunAssumption, NEW o, NEW p, NEW f \in 1 .. RunFolders, NEW kinds,
         NEW S \in SUBSET Progress!Items,
         \A x \in RunItems : p[x] \in kinds <=> o[x] \in kinds \/ x \in {f} \X S,
         \A i \in S : o[<<f, i>>] \notin kinds
  PROVE  /\ CountOf(p, kinds) = CountOf(o, kinds) + Cardinality(S)
         /\ CountOf(o, kinds) \in Nat /\ Cardinality(S) \in Nat
<1> DEFINE A == {x \in RunItems : o[x] \in kinds}  B == {f} \X S
<1>1. IsFiniteSet(A)
  BY ItemsAreFinite, FS_Subset
<1>2. IsFiniteSet(B) /\ Cardinality(B) = Cardinality(S)
  BY PairsOfFolder
<1>3. B \subseteq RunItems
  BY DEF RunItems
<1>4. A \cap B = {}
  OBVIOUS
<1>5. {x \in RunItems : p[x] \in kinds} = A \cup B
  BY <1>3
<1> HIDE DEF A, B
<1>6. /\ Cardinality(A \cup B) = Cardinality(A) + Cardinality(B)
      /\ Cardinality(A) \in Nat /\ Cardinality(B) \in Nat
  BY <1>1, <1>2, <1>4, DisjointAdd
<1>7. QED BY <1>2, <1>5, <1>6 DEF CountOf, A

LEMMA CountSame ==
  ASSUME NEW o, NEW p, NEW kinds, \A x \in RunItems : p[x] \in kinds <=> o[x] \in kinds
  PROVE  CountOf(p, kinds) = CountOf(o, kinds)
<1>1. {x \in RunItems : p[x] \in kinds} = {x \in RunItems : o[x] \in kinds}
  OBVIOUS
<1>2. QED BY <1>1 DEF CountOf

LEMMA SettleMoves ==
  ASSUME Progress!RunAssumption, outcome \in [RunItems -> Outcomes], folder \in 1 .. RunFolders,
         NEW done \in SUBSET ItemsOf(outcome, folder, {"queued"}),
         NEW failed \in SUBSET ItemsOf(outcome, folder, {"queued"}),
         NEW skipped \in SUBSET ItemsOf(outcome, folder, {"queued"}),
         done \cap failed = {}, done \cap skipped = {}, failed \cap skipped = {},
         Progress!Settle(done, failed, skipped)
  PROVE  /\ outcome' \in [RunItems -> Outcomes]
         /\ \A f \in 1 .. RunFolders \ {folder} : \A i \in Progress!Items :
              outcome'[<<f, i>>] = outcome[<<f, i>>]
         /\ ItemsOf(outcome', folder, {"queued"})
              = ItemsOf(outcome, folder, {"queued"}) \ (done \cup failed \cup skipped)
         /\ ItemsOf(outcome', folder, Progress!Settled)
              = ItemsOf(outcome, folder, Progress!Settled) \cup (done \cup skipped)
         /\ ItemsOf(outcome', folder, Outcomes \ {"none"})
              = ItemsOf(outcome, folder, Outcomes \ {"none"})
         /\ CountOf(outcome', {"completed"}) = CountOf(outcome, {"completed"}) + Cardinality(done)
         /\ CountOf(outcome', Progress!Failed) = CountOf(outcome, Progress!Failed) + Cardinality(failed)
<1> DEFINE Became(i) == IF i \in done THEN "completed" ELSE IF i \in failed THEN "failed"
                        ELSE IF i \in skipped THEN "skipped" ELSE outcome[<<folder, i>>]
<1>1. outcome' = [x \in RunItems |->
                    IF x[1] # folder THEN outcome[x]
                    ELSE IF x[2] \in done THEN "completed" ELSE IF x[2] \in failed THEN "failed"
                    ELSE IF x[2] \in skipped THEN "skipped" ELSE outcome[x]]
  <2>1. DOMAIN outcome = RunItems
    OBVIOUS
  <2>2. QED BY <2>1 DEF Progress!Settle
<1>2. /\ \A f \in 1 .. RunFolders, i \in Progress!Items :
           /\ <<f, i>> \in RunItems /\ <<f, i>>[1] = f /\ <<f, i>>[2] = i
           /\ outcome[<<f, i>>] \in Outcomes
      /\ \A x \in RunItems : x = <<x[1], x[2]>> /\ x[1] \in 1 .. RunFolders /\ x[2] \in Progress!Items
  BY DEF RunItems
<1>3. /\ done \subseteq Progress!Items /\ failed \subseteq Progress!Items
      /\ skipped \subseteq Progress!Items
      /\ \A i \in done \cup failed \cup skipped : outcome[<<folder, i>>] = "queued"
  BY DEF ItemsOf
<1>4. \A f \in 1 .. RunFolders, i \in Progress!Items :
        outcome'[<<f, i>>] = IF f # folder THEN outcome[<<f, i>>] ELSE Became(i)
  BY <1>1, <1>2
<1>5. \A i \in Progress!Items : Became(i) \in Outcomes
  BY <1>2 DEF Outcomes
<1>6. outcome' \in [RunItems -> Outcomes]
  BY <1>1, <1>2, <1>5
<1>7. \A i \in Progress!Items :
        /\ Became(i) = "queued" <=> outcome[<<folder, i>>] = "queued" /\ i \notin done \cup failed \cup skipped
        /\ Became(i) = "completed" <=> outcome[<<folder, i>>] = "completed" \/ i \in done
        /\ Became(i) = "failed" <=> outcome[<<folder, i>>] = "failed" \/ i \in failed
        /\ Became(i) = "skipped" <=> outcome[<<folder, i>>] = "skipped" \/ i \in skipped
        /\ Became(i) = "marked" <=> outcome[<<folder, i>>] = "marked"
        /\ Became(i) = "none" <=> outcome[<<folder, i>>] = "none"
  BY <1>3
<1> HIDE DEF Became
<1>8. /\ ItemsOf(outcome', folder, {"queued"})
           = ItemsOf(outcome, folder, {"queued"}) \ (done \cup failed \cup skipped)
      /\ ItemsOf(outcome', folder, Progress!Settled)
           = ItemsOf(outcome, folder, Progress!Settled) \cup (done \cup skipped)
      /\ ItemsOf(outcome', folder, Outcomes \ {"none"})
           = ItemsOf(outcome, folder, Outcomes \ {"none"})
  <2>1. \A i \in Progress!Items : outcome'[<<folder, i>>] = Became(i)
    BY <1>4
  <2>2. ItemsOf(outcome', folder, {"queued"})
          = ItemsOf(outcome, folder, {"queued"}) \ (done \cup failed \cup skipped)
    BY <1>7, <2>1 DEF ItemsOf
  <2>3. ItemsOf(outcome', folder, Progress!Settled)
          = ItemsOf(outcome, folder, Progress!Settled) \cup (done \cup skipped)
    BY <1>3, <1>7, <2>1 DEF ItemsOf, Progress!Settled
  <2>4. ItemsOf(outcome', folder, Outcomes \ {"none"}) = ItemsOf(outcome, folder, Outcomes \ {"none"})
    BY <1>2, <1>5, <1>7, <2>1 DEF ItemsOf
  <2>5. QED BY <2>2, <2>3, <2>4
<1>10. /\ \A x \in RunItems : outcome'[x] = "completed" <=> outcome[x] = "completed" \/ x \in {folder} \X done
       /\ \A x \in RunItems :
            outcome'[x] \in Progress!Failed <=> outcome[x] \in Progress!Failed \/ x \in {folder} \X failed
  <2> SUFFICES ASSUME NEW x \in RunItems
               PROVE  /\ outcome'[x] = "completed" <=> outcome[x] = "completed" \/ x \in {folder} \X done
                      /\ outcome'[x] \in Progress!Failed
                           <=> outcome[x] \in Progress!Failed \/ x \in {folder} \X failed
    OBVIOUS
  <2>1. PICK f \in 1 .. RunFolders, i \in Progress!Items : x = <<f, i>>
    BY DEF RunItems
  <2>2. /\ x \in {folder} \X done <=> f = folder /\ i \in done
        /\ x \in {folder} \X failed <=> f = folder /\ i \in failed
    BY <2>1
  <2>3. QED BY <1>4, <1>7, <2>1, <2>2 DEF Progress!Failed
<1>11. CountOf(outcome', {"completed"}) = CountOf(outcome, {"completed"}) + Cardinality(done)
  BY <1>3, <1>10, CountAdds
<1>12. CountOf(outcome', Progress!Failed) = CountOf(outcome, Progress!Failed) + Cardinality(failed)
  <2>1. \A i \in failed : outcome[<<folder, i>>] \notin Progress!Failed
    BY <1>3 DEF Progress!Failed
  <2>2. QED BY <1>3, <1>10, <2>1, CountAdds
<1>13. QED BY <1>4, <1>6, <1>8, <1>11, <1>12

-----------------------------------------------------------------------------
(* The accounts of a run.                                                  *)

RunStats == [files : Nat, bytes : Nat, filesDone : Nat, bytesDone : Nat, synced : Nat, failed : Nat]
RunShown == [files : Nat, bytes : Nat, filesDone : Nat, bytesDone : Nat]
BadKinds == {"planning", "missing", "verification"}
BadOf(e)       == Cardinality({f \in 1 .. RunFolders : e[f] \in BadKinds})
ScansOf(es, e) == Cardinality({f \in es : e[f] # "none"})

RunTyped ==
  /\ runPhase \in {"idle", "planning", "working", "stopped", "complete"}
  /\ folder \in 1 .. RunFolders + 1 /\ sent \in 0 .. Progress!Silent
  /\ counters \in [files : Nat, bytes : Nat] /\ counters.bytes <= counters.files
  /\ outcome \in [RunItems -> Outcomes] /\ scanErrors \subseteq 1 .. RunFolders
  /\ ended \in [1 .. RunFolders -> Progress!Ends \cup {"none"}]
  /\ stats \in RunStats

ShownFits ==
  /\ overall \in RunShown
  /\ overall.filesDone <= overall.files /\ overall.bytesDone <= overall.bytes

\* The tasks share the items that are still queued; the counters have the others.
WorkInv ==
  /\ sent < Progress!Silent =>
       runPhase = "working" /\ todo # <<>> /\ Head(todo).how \in Progress!Commands
  /\ runPhase # "working" => todo = <<>>
  /\ runPhase = "working" =>
       /\ folder \in 1 .. RunFolders
       /\ Divides(todo, ItemsOf(outcome, folder, {"queued"}))
       /\ counters.files = Cardinality(ItemsOf(outcome, folder, Progress!Settled))
       /\ stats.files = stats.filesDone + Cardinality(ItemsOf(outcome, folder, Outcomes \ {"none"}))
       /\ stats.bytes = stats.files /\ stats.bytesDone = stats.filesDone

FoldersInv ==
  \A f \in 1 .. RunFolders :
    /\ f < folder =>
         /\ ended[f] # "none" /\ ItemsOf(outcome, f, {"queued"}) = {}
         /\ ended[f] \in {"complete", "unchanged"} =>
              ItemsOf(outcome, f, {"failed"}) = {} /\ f \notin scanErrors
    /\ f >= folder => ended[f] = "none"
    /\ f > folder \/ (f = folder /\ runPhase \in {"idle", "planning"}) =>
         f \notin scanErrors /\ ItemsOf(outcome, f, Outcomes \ {"none"}) = {}

RestInv ==
  runPhase \in {"idle", "planning", "complete"} =>
    /\ counters = Progress!Nothing
    /\ stats.filesDone = stats.files /\ stats.bytes = stats.files /\ stats.bytesDone = stats.filesDone
    /\ stats.failed = 0 /\ NoneDropped => overall.filesDone = stats.files

CountsInv ==
  /\ stats.synced = CountOf(outcome, {"completed"})
  /\ stats.failed = CountOf(outcome, Progress!Failed) + ScansOf(scanErrors, ended) + BadOf(ended)

RunInv == RunTyped /\ ShownFits /\ WorkInv /\ FoldersInv /\ RestInv /\ CountsInv

LEMMA RunInitially == ASSUME Progress!RunAssumption, Progress!Init PROVE RunInv
<1>1. RunFolders \in Nat \ {0} /\ Planned \in Nat \ {0}
  BY DEF Progress!RunAssumption
<1>2. RunTyped
  <2>1. folder \in 1 .. RunFolders + 1 /\ sent \in 0 .. Progress!Silent /\ Progress!Silent \in Nat
    BY <1>1 DEF Progress!Init, Progress!Silent
  <2>2. outcome \in [RunItems -> Outcomes] /\ ended \in [1 .. RunFolders -> Progress!Ends \cup {"none"}]
    BY DEF Progress!Init, RunItems, Outcomes
  <2>3. counters \in [files : Nat, bytes : Nat] /\ counters.bytes <= counters.files
    BY DEF Progress!Init, Progress!Nothing
  <2>4. stats \in RunStats
    BY DEF Progress!Init, RunStats
  <2>5. runPhase = "idle" /\ scanErrors = {}
    BY DEF Progress!Init
  <2>6. QED BY <2>1, <2>2, <2>3, <2>4, <2>5 DEF RunTyped
<1>3. ShownFits
  BY DEF Progress!Init, ShownFits, RunShown
<1>4. WorkInv
  <2>1. ~(sent < Progress!Silent)
    BY <1>1 DEF Progress!Init, Progress!Silent
  <2>2. QED BY <2>1 DEF Progress!Init, WorkInv
<1>5. /\ \A x \in RunItems : outcome[x] = "none"
      /\ \A f \in 1 .. RunFolders : ended[f] = "none"
      /\ \A f \in 1 .. RunFolders, i \in Progress!Items : outcome[<<f, i>>] = "none"
  BY DEF Progress!Init, RunItems
<1>6. FoldersInv
  BY <1>5 DEF Progress!Init, FoldersInv, ItemsOf
<1>7. RestInv
  BY DEF Progress!Init, RestInv
<1>8. /\ CountOf(outcome, {"completed"}) = 0 /\ CountOf(outcome, Progress!Failed) = 0
      /\ BadOf(ended) = 0 /\ ScansOf(scanErrors, ended) = 0
  <2>1. /\ {x \in RunItems : outcome[x] \in {"completed"}} = {}
        /\ {x \in RunItems : outcome[x] \in Progress!Failed} = {}
    BY <1>5 DEF Progress!Failed
  <2>2. {f \in 1 .. RunFolders : ended[f] \in BadKinds} = {}
    BY <1>5 DEF BadKinds
  <2>3. {f \in scanErrors : ended[f] # "none"} = {}
    BY DEF Progress!Init
  <2>4. QED BY <2>1, <2>2, <2>3, FS_EmptySet DEF CountOf, BadOf, ScansOf
<1>9. CountsInv
  <2>1. stats.synced = 0 /\ stats.failed = 0
    BY DEF Progress!Init
  <2>2. QED BY <1>8, <2>1 DEF CountsInv
<1>10. QED BY <1>2, <1>3, <1>4, <1>6, <1>7, <1>9 DEF RunInv

LEMMA CountsAreNat ==
  ASSUME Progress!RunAssumption, NEW es \in SUBSET (1 .. RunFolders), NEW e, NEW o, NEW kinds
  PROVE  /\ ScansOf(es, e) \in Nat /\ BadOf(e) \in Nat /\ CountOf(o, kinds) \in Nat
         /\ IsFiniteSet({f \in es : e[f] # "none"}) /\ IsFiniteSet({f \in 1 .. RunFolders : e[f] \in BadKinds})
<1>1. /\ IsFiniteSet({f \in es : e[f] # "none"})
      /\ IsFiniteSet({f \in 1 .. RunFolders : e[f] \in BadKinds})
      /\ IsFiniteSet({x \in RunItems : o[x] \in kinds})
  <2>1. {f \in es : e[f] # "none"} \in SUBSET (1 .. RunFolders)
    OBVIOUS
  <2>2. QED BY <2>1, ItemsAreFinite, FS_Subset
<1>2. QED BY <1>1, FS_CardinalityType DEF ScansOf, BadOf, CountOf

\* What EXCEPT leaves of the statistics.
LEMMA StatsMove ==
  ASSUME NEW st \in RunStats, NEW a \in Nat, NEW b \in Nat
  PROVE  /\ [st EXCEPT !.synced = @ + a, !.failed = @ + b]
              = [files |-> st.files, bytes |-> st.bytes, filesDone |-> st.filesDone,
                 bytesDone |-> st.bytesDone, synced |-> st.synced + a, failed |-> st.failed + b]
         /\ [st EXCEPT !.files = @ + a, !.bytes = @ + a]
              = [files |-> st.files + a, bytes |-> st.bytes + a, filesDone |-> st.filesDone,
                 bytesDone |-> st.bytesDone, synced |-> st.synced, failed |-> st.failed]
         /\ [st EXCEPT !.failed = @ + b]
              = [files |-> st.files, bytes |-> st.bytes, filesDone |-> st.filesDone,
                 bytesDone |-> st.bytesDone, synced |-> st.synced, failed |-> st.failed + b]
         /\ [st EXCEPT !.filesDone = st.files, !.bytesDone = st.bytes]
              = [files |-> st.files, bytes |-> st.bytes, filesDone |-> st.files,
                 bytesDone |-> st.bytes, synced |-> st.synced, failed |-> st.failed]
<1>1. PICK f, g, fd, gd, s, d \in Nat :
        st = [files |-> f, bytes |-> g, filesDone |-> fd, bytesDone |-> gd, synced |-> s, failed |-> d]
  BY DEF RunStats
<1>2. [st EXCEPT !.synced = @ + a, !.failed = @ + b]
        = [files |-> f, bytes |-> g, filesDone |-> fd, bytesDone |-> gd, synced |-> s + a, failed |-> d + b]
  <2>1. PICK u : u = [st EXCEPT !.synced = @ + a]
    OBVIOUS
  <2>2. [st EXCEPT !.synced = @ + a, !.failed = @ + b] = [u EXCEPT !.failed = @ + b]
    BY <2>1
  <2>3. u = [files |-> f, bytes |-> g, filesDone |-> fd, bytesDone |-> gd, synced |-> s + a, failed |-> d]
    BY <1>1, <2>1
  <2>4. [u EXCEPT !.failed = @ + b]
          = [files |-> f, bytes |-> g, filesDone |-> fd, bytesDone |-> gd, synced |-> s + a, failed |-> d + b]
    BY <2>3
  <2>5. QED BY <2>2, <2>4
<1>3. [st EXCEPT !.files = @ + a, !.bytes = @ + a]
        = [files |-> f + a, bytes |-> g + a, filesDone |-> fd, bytesDone |-> gd, synced |-> s, failed |-> d]
  <2>1. PICK u : u = [st EXCEPT !.files = @ + a]
    OBVIOUS
  <2>2. [st EXCEPT !.files = @ + a, !.bytes = @ + a] = [u EXCEPT !.bytes = @ + a]
    BY <2>1
  <2>3. u = [files |-> f + a, bytes |-> g, filesDone |-> fd, bytesDone |-> gd, synced |-> s, failed |-> d]
    BY <1>1, <2>1
  <2>4. [u EXCEPT !.bytes = @ + a]
          = [files |-> f + a, bytes |-> g + a, filesDone |-> fd, bytesDone |-> gd, synced |-> s, failed |-> d]
    BY <2>3
  <2>5. QED BY <2>2, <2>4
<1>4. [st EXCEPT !.failed = @ + b]
        = [files |-> f, bytes |-> g, filesDone |-> fd, bytesDone |-> gd, synced |-> s, failed |-> d + b]
  BY <1>1
<1>5. [st EXCEPT !.filesDone = st.files, !.bytesDone = st.bytes]
        = [files |-> f, bytes |-> g, filesDone |-> f, bytesDone |-> g, synced |-> s, failed |-> d]
  <2>1. PICK u : u = [st EXCEPT !.filesDone = st.files]
    OBVIOUS
  <2>2. [st EXCEPT !.filesDone = st.files, !.bytesDone = st.bytes] = [u EXCEPT !.bytesDone = st.bytes]
    BY <2>1
  <2>3. u = [files |-> f, bytes |-> g, filesDone |-> f, bytesDone |-> gd, synced |-> s, failed |-> d]
    BY <1>1, <2>1
  <2>4. [u EXCEPT !.bytesDone = st.bytes]
          = [files |-> f, bytes |-> g, filesDone |-> f, bytesDone |-> g, synced |-> s, failed |-> d]
    BY <1>1, <2>3
  <2>5. QED BY <2>2, <2>4
<1>6. QED BY <1>1, <1>2, <1>3, <1>4, <1>5

\* The counters have the settled items, so those at work still fit.
LEMMA WorkFits ==
  ASSUME Progress!RunAssumption, RunInv, runPhase = "working"
  PROVE  /\ Cardinality(ItemsOf(outcome, folder, {"queued"})) \in Nat
         /\ counters.files + Cardinality(ItemsOf(outcome, folder, {"queued"})) + stats.filesDone
              <= stats.files
         /\ ItemsOf(outcome, folder, {"queued"}) = {} /\ ItemsOf(outcome, folder, Progress!Unstored) = {}
              => counters.files + stats.filesDone = stats.files
<1> DEFINE Q == ItemsOf(outcome, folder, {"queued"})  S == ItemsOf(outcome, folder, Progress!Settled)
           A == ItemsOf(outcome, folder, Outcomes \ {"none"})
<1>1. /\ Q \subseteq Progress!Items /\ S \subseteq Progress!Items /\ A \subseteq Progress!Items
      /\ Q \subseteq A /\ S \subseteq A /\ Q \cap S = {}
  BY DEF ItemsOf, Outcomes, Progress!Settled
<1>2. /\ counters.files = Cardinality(S) /\ stats.files = stats.filesDone + Cardinality(A)
      /\ stats.filesDone \in Nat
  BY DEF RunInv, WorkInv, RunTyped, RunStats
<1>3. Q = {} /\ ItemsOf(outcome, folder, Progress!Unstored) = {} => A = S
  <2>1. \A i \in Progress!Items : outcome[<<folder, i>>] \in Outcomes
    BY DEF RunInv, RunTyped, WorkInv, RunItems
  <2>2. QED BY <2>1 DEF ItemsOf, Outcomes, Progress!Settled, Progress!Unstored, Progress!Failed
<1> HIDE DEF Q, S, A
<1>4. /\ IsFiniteSet(Q) /\ IsFiniteSet(S) /\ IsFiniteSet(A)
      /\ Cardinality(Q) \in Nat /\ Cardinality(S) \in Nat /\ Cardinality(A) \in Nat
  BY <1>1, SomeItems
<1>5. Cardinality(Q \cup S) = Cardinality(Q) + Cardinality(S)
  BY <1>1, <1>4, DisjointAdd
<1>6. Cardinality(Q \cup S) <= Cardinality(A)
  BY <1>1, <1>4, FS_Subset
<1>7. /\ Cardinality(Q) \in Nat /\ counters.files + Cardinality(Q) + stats.filesDone <= stats.files
      /\ A = S => counters.files + stats.filesDone = stats.files
  BY <1>2, <1>4, <1>5, <1>6
<1>8. QED BY <1>3, <1>7 DEF Q

\* What a batch reports fits.
LEMMA BatchFits ==
  ASSUME Progress!RunAssumption, RunInv, runPhase = "working", NEW n \in Nat,
         n = 0 \/ (todo # <<>> /\ n <= Cardinality(Head(todo).items)), Progress!BatchProgress(n)
  PROVE  ShownFits'
<1>1. overall' = [files |-> stats.files, bytes |-> stats.bytes,
                  filesDone |-> stats.filesDone + (counters.files + n),
                  bytesDone |-> stats.bytesDone + (counters.bytes + n)]
  BY DEF Progress!BatchProgress, Progress!Emitted
<1>2. /\ stats.files \in Nat /\ stats.bytes = stats.files /\ stats.filesDone \in Nat
      /\ stats.bytesDone = stats.filesDone
      /\ counters.files \in Nat /\ counters.bytes \in Nat /\ counters.bytes <= counters.files
  BY DEF RunInv, RunTyped, WorkInv, RunStats
<1>3. n <= Cardinality(ItemsOf(outcome, folder, {"queued"}))
  <2> DEFINE Q == ItemsOf(outcome, folder, {"queued"})
  <2>1. Cardinality(Q) \in Nat /\ IsFiniteSet(Q)
    BY SomeItems DEF ItemsOf
  <2>2. CASE todo # <<>> /\ n <= Cardinality(Head(todo).items)
    <3>1. Head(todo).items \subseteq Q
      BY <2>2, HeadOfTasks DEF RunInv, WorkInv
    <3>2. Cardinality(Head(todo).items) <= Cardinality(Q)
      BY <2>1, <3>1, FS_Subset
    <3>3. Cardinality(Head(todo).items) \in Nat
      BY <2>1, <3>1, FS_Subset, FS_CardinalityType
    <3>4. QED BY <2>1, <2>2, <3>2, <3>3
  <2>3. CASE n = 0
    BY <2>1, <2>3
  <2>4. QED BY <2>2, <2>3
<1>4. /\ stats.filesDone + (counters.files + n) <= stats.files
      /\ stats.bytesDone + (counters.bytes + n) <= stats.bytes
      /\ stats.filesDone + (counters.files + n) \in Nat /\ stats.bytesDone + (counters.bytes + n) \in Nat
  <2>1. PICK q : q = Cardinality(ItemsOf(outcome, folder, {"queued"}))
    OBVIOUS
  <2>2. q \in Nat /\ counters.files + q + stats.filesDone <= stats.files /\ n <= q
    BY <1>3, <2>1, WorkFits
  <2>3. QED BY <1>2, <2>2
<1>5. QED BY <1>1, <1>2, <1>4 DEF ShownFits, RunShown

\* The work of a folder goes on, and no item is settled.
LEMMA WorkGoesOn ==
  ASSUME RunInv, runPhase = "working",
         UNCHANGED <<runPhase, folder, counters, outcome, scanErrors, ended, stats>>,
         Divides(todo', ItemsOf(outcome, folder, {"queued"})), sent' \in 0 .. Progress!Silent,
         sent' < Progress!Silent => todo' # <<>> /\ Head(todo').how \in Progress!Commands,
         ShownFits'
  PROVE  RunInv'
<1>1. RunTyped' /\ CountsInv'
  BY DEF RunInv, RunTyped, CountsInv
<1>2. WorkInv'
  BY DEF RunInv, WorkInv
<1>3. FoldersInv' /\ RestInv'
  BY DEF RunInv, FoldersInv, RestInv
<1>4. QED BY <1>1, <1>2, <1>3 DEF RunInv

\* What the task at the head turns into goes first.
LEMMA HeadBecomes ==
  ASSUME RunInv, runPhase = "working", todo # <<>>, NEW tasks, NEW W \in SUBSET Head(todo).items,
         Divides(tasks, W), Progress!Becomes(tasks)
  PROVE  Divides(todo', ItemsOf(outcome, folder, {"queued"}) \ (Head(todo).items \ W))
<1> DEFINE Q == ItemsOf(outcome, folder, {"queued"})
<1>1. Divides(todo, Q)
  BY DEF RunInv, WorkInv
<1>2. Head(todo).items \subseteq Q /\ Divides(Tail(todo), Q \ Head(todo).items)
  BY <1>1, HeadOfTasks
<1>3. todo' = tasks \o Tail(todo)
  BY DEF Progress!Becomes
<1> HIDE DEF Q
<1>4. Divides(todo', W \cup (Q \ Head(todo).items))
  <2>1. W \cap (Q \ Head(todo).items) = {}
    OBVIOUS
  <2>2. QED BY <1>2, <1>3, <2>1, JoinedTasks
<1>5. W \cup (Q \ Head(todo).items) = Q \ (Head(todo).items \ W)
  BY <1>2
<1>6. QED BY <1>4, <1>5 DEF Q

\* Items of the task at the head are settled, the others stay before the other tasks.
LEMMA ItemsSettle ==
  ASSUME Progress!RunAssumption, RunInv, runPhase = "working", todo # <<>>,
         NEW done \in SUBSET Head(todo).items, NEW failed \in SUBSET Head(todo).items,
         NEW skipped \in SUBSET Head(todo).items,
         done \cap failed = {}, done \cap skipped = {}, failed \cap skipped = {},
         NEW tasks, Divides(tasks, Head(todo).items \ (done \cup failed \cup skipped)),
         Progress!Becomes(tasks), Progress!Settle(done, failed, skipped), Progress!Same,
         sent' = Progress!Silent, ShownFits'
  PROVE  RunInv'
<1> DEFINE Q == ItemsOf(outcome, folder, {"queued"})  D == done \cup skipped
<1>1. /\ UNCHANGED <<runPhase, folder, scanErrors, ended>>
      /\ outcome \in [RunItems -> Outcomes] /\ folder \in 1 .. RunFolders /\ stats \in RunStats
      /\ counters \in [files : Nat, bytes : Nat] /\ counters.bytes <= counters.files
      /\ Divides(todo, Q) /\ Planned \in Nat
  BY DEF Progress!Same, RunInv, RunTyped, WorkInv, Progress!RunAssumption
<1>2. Head(todo).items \subseteq Q
  BY <1>1, HeadOfTasks
<1>3. Q \subseteq Progress!Items
  BY DEF ItemsOf
<1>4. done \subseteq Q /\ failed \subseteq Q /\ skipped \subseteq Q
  BY <1>2
<1>5. /\ outcome' \in [RunItems -> Outcomes]
      /\ \A f \in 1 .. RunFolders \ {folder} : \A i \in Progress!Items :
           outcome'[<<f, i>>] = outcome[<<f, i>>]
      /\ ItemsOf(outcome', folder, {"queued"}) = Q \ (done \cup failed \cup skipped)
      /\ ItemsOf(outcome', folder, Progress!Settled) = ItemsOf(outcome, folder, Progress!Settled) \cup D
      /\ ItemsOf(outcome', folder, Outcomes \ {"none"}) = ItemsOf(outcome, folder, Outcomes \ {"none"})
      /\ CountOf(outcome', {"completed"}) = CountOf(outcome, {"completed"}) + Cardinality(done)
      /\ CountOf(outcome', Progress!Failed) = CountOf(outcome, Progress!Failed) + Cardinality(failed)
  BY <1>1, <1>4, SettleMoves
<1>6. /\ Cardinality(done) \in Nat /\ Cardinality(failed) \in Nat /\ Cardinality(skipped) \in Nat
      /\ IsFiniteSet(done) /\ IsFiniteSet(skipped)
  BY <1>3, <1>4, SomeItems
<1>7. /\ counters'.files = counters.files + Cardinality(done) + Cardinality(skipped)
      /\ counters'.bytes = counters.bytes + Cardinality(done)
      /\ counters' \in [files : Nat, bytes : Nat] /\ counters'.bytes <= counters'.files
  <2>1. counters' = [files |-> counters.files + Cardinality(done) + Cardinality(skipped),
                     bytes |-> counters.bytes + Cardinality(done)]
    BY DEF Progress!Settle, Progress!Cardinality, Cardinality
  <2>2. /\ counters.files + Cardinality(done) + Cardinality(skipped) \in Nat
        /\ counters.bytes + Cardinality(done) \in Nat
        /\ counters.bytes + Cardinality(done)
             <= counters.files + Cardinality(done) + Cardinality(skipped)
    BY <1>1, <1>6
  <2>3. QED BY <2>1, <2>2
<1>8. stats' = [files |-> stats.files, bytes |-> stats.bytes, filesDone |-> stats.filesDone,
                bytesDone |-> stats.bytesDone, synced |-> stats.synced + Cardinality(done),
                failed |-> stats.failed + Cardinality(failed)]
  <2>1. stats' = [stats EXCEPT !.synced = @ + Cardinality(done), !.failed = @ + Cardinality(failed)]
    BY DEF Progress!Settle, Progress!Cardinality, Cardinality
  <2>2. QED BY <1>1, <1>6, <2>1, StatsMove
<1>9. stats' \in RunStats
  <2>1. stats.synced + Cardinality(done) \in Nat /\ stats.failed + Cardinality(failed) \in Nat
    BY <1>1, <1>6 DEF RunStats
  <2>2. QED BY <1>1, <1>8, <2>1 DEF RunStats
<1>10. Divides(todo', ItemsOf(outcome', folder, {"queued"}))
  <2> DEFINE W == Head(todo).items \ (done \cup failed \cup skipped)
  <2>1. W \in SUBSET Head(todo).items
    OBVIOUS
  <2>2. Divides(todo', Q \ (Head(todo).items \ W))
    BY <2>1, HeadBecomes
  <2>3. Head(todo).items \ W = done \cup failed \cup skipped
    OBVIOUS
  <2>4. QED BY <1>5, <2>2, <2>3
<1>11. counters'.files = Cardinality(ItemsOf(outcome', folder, Progress!Settled))
  <2> DEFINE S == ItemsOf(outcome, folder, Progress!Settled)
  <2>1. Cardinality(D) = Cardinality(done) + Cardinality(skipped) /\ IsFiniteSet(D)
    BY <1>6, DisjointAdd
  <2>2. S \cap Q = {} /\ S \subseteq Progress!Items
    BY DEF ItemsOf, Progress!Settled
  <2>3. IsFiniteSet(S) /\ Cardinality(S) \in Nat
    BY <2>2, SomeItems
  <2>4. S \cap D = {}
    BY <1>4, <2>2
  <2>5. Cardinality(S \cup D) = Cardinality(S) + Cardinality(D)
    BY <2>1, <2>3, <2>4, DisjointAdd
  <2>6. counters.files = Cardinality(S)
    BY DEF RunInv, WorkInv
  <2> HIDE DEF S, D
  <2>7. counters'.files = Cardinality(S \cup D)
    BY <1>6, <1>7, <2>1, <2>3, <2>5, <2>6
  <2>8. QED BY <1>5, <2>7 DEF S, D
<1>12. WorkInv'
  <2>1. ~(sent' < Progress!Silent)
    BY <1>1 DEF Progress!Silent
  <2>2. /\ stats.files = stats.filesDone + Cardinality(ItemsOf(outcome, folder, Outcomes \ {"none"}))
        /\ stats.bytes = stats.files /\ stats.bytesDone = stats.filesDone
    BY DEF RunInv, WorkInv
  <2>3. /\ stats'.files = stats'.filesDone + Cardinality(ItemsOf(outcome', folder, Outcomes \ {"none"}))
        /\ stats'.bytes = stats'.files /\ stats'.bytesDone = stats'.filesDone
    BY <1>5, <1>8, <2>2
  <2>4. QED BY <1>1, <1>10, <1>11, <2>1, <2>3 DEF WorkInv
<1>13. FoldersInv'
  <2>1. \A f \in 1 .. RunFolders \ {folder} : \A ks : ItemsOf(outcome', f, ks) = ItemsOf(outcome, f, ks)
    BY <1>5 DEF ItemsOf
  <2>2. SUFFICES ASSUME NEW f \in 1 .. RunFolders
                 PROVE  /\ f < folder =>
                             /\ ended[f] # "none" /\ ItemsOf(outcome', f, {"queued"}) = {}
                             /\ ended[f] \in {"complete", "unchanged"} =>
                                  ItemsOf(outcome', f, {"failed"}) = {} /\ f \notin scanErrors
                        /\ f >= folder => ended[f] = "none"
                        /\ f > folder => f \notin scanErrors /\ ItemsOf(outcome', f, Outcomes \ {"none"}) = {}
    BY <1>1 DEF FoldersInv
  <2>3. /\ f < folder =>
             /\ ended[f] # "none" /\ ItemsOf(outcome, f, {"queued"}) = {}
             /\ ended[f] \in {"complete", "unchanged"} =>
                  ItemsOf(outcome, f, {"failed"}) = {} /\ f \notin scanErrors
        /\ f >= folder => ended[f] = "none"
        /\ f > folder => f \notin scanErrors /\ ItemsOf(outcome, f, Outcomes \ {"none"}) = {}
    BY DEF RunInv, FoldersInv
  <2>4. CASE f = folder
    BY <1>1, <2>3, <2>4
  <2>5. CASE f # folder
    BY <2>1, <2>3, <2>5
  <2>6. QED BY <2>4, <2>5
<1>14. RestInv'
  BY <1>1 DEF RestInv
<1>15. CountsInv'
  <2>1. /\ stats.synced = CountOf(outcome, {"completed"})
        /\ stats.failed = CountOf(outcome, Progress!Failed) + ScansOf(scanErrors, ended) + BadOf(ended)
    BY DEF RunInv, CountsInv
  <2>2. /\ ScansOf(scanErrors, ended) \in Nat /\ BadOf(ended) \in Nat
        /\ CountOf(outcome, Progress!Failed) \in Nat
    BY CountsAreNat DEF RunInv, RunTyped
  <2>3. /\ stats'.synced = CountOf(outcome', {"completed"})
        /\ stats'.failed = CountOf(outcome', Progress!Failed) + ScansOf(scanErrors, ended) + BadOf(ended)
    BY <1>5, <1>6, <1>8, <2>1, <2>2
  <2>4. QED BY <1>1, <2>3 DEF CountsInv
<1>16. RunTyped'
  <2>1. sent' \in 0 .. Progress!Silent
    BY <1>1 DEF Progress!Silent
  <2>2. RunTyped
    BY DEF RunInv
  <2>3. QED BY <1>1, <1>5, <1>7, <1>9, <2>1, <2>2 DEF RunTyped
<1>17. QED BY <1>12, <1>13, <1>14, <1>15, <1>16 DEF RunInv

-----------------------------------------------------------------------------
(* The steps of a run.                                                     *)

LEMMA SmallestItem ==
  ASSUME NEW S \in SUBSET Nat, S # {}
  PROVE  (CHOOSE j \in S : \A k \in S : j <= k) \in S
<1>1. IsWellFoundedOn(OpToRel(<, Nat), Nat)
  BY NatLessThanWellFounded
<1>2. PICK m \in S : \A y \in S : <<y, m>> \notin OpToRel(<, Nat)
  BY <1>1, WFMin
<1>3. \A y \in S : m <= y
  <2>1. \A y \in S : ~(y < m)
    BY <1>2 DEF OpToRel
  <2>2. QED BY <2>1
<1>4. QED BY <1>3

\* What the work reads of its state.
LEMMA AtWorkIs ==
  ASSUME Progress!RunAssumption, RunInv, runPhase = "working"
  PROVE  /\ Planned \in Nat /\ sent \in 0 .. Progress!Silent /\ Progress!Silent \in Nat
         /\ sent < Progress!Silent => todo # <<>> /\ Head(todo).how \in Progress!Commands
         /\ todo # <<>> =>
              /\ Head(todo).how \in Hows /\ Head(todo).items \in SUBSET Progress!Items
              /\ Head(todo).items # {}
         /\ Divides(todo, ItemsOf(outcome, folder, {"queued"}))
         /\ \A S \in SUBSET Progress!Items :
              Progress!Cardinality(S) = Cardinality(S) /\ Cardinality(S) \in Nat
<1>1. /\ Planned \in Nat /\ sent \in 0 .. Progress!Silent
      /\ sent < Progress!Silent => todo # <<>> /\ Head(todo).how \in Progress!Commands
      /\ Divides(todo, ItemsOf(outcome, folder, {"queued"}))
  BY DEF Progress!RunAssumption, RunInv, RunTyped, WorkInv
<1>2. todo # <<>> => Head(todo) \in WorkTask /\ Head(todo).items # {}
  BY <1>1, HeadOfTasks
<1>3. \A S \in SUBSET Progress!Items : Progress!Cardinality(S) = Cardinality(S) /\ Cardinality(S) \in Nat
  BY SomeItems DEF Progress!Cardinality, Cardinality
<1>4. QED BY <1>1, <1>2, <1>3 DEF WorkTask, Progress!Silent

\* Steps of rclone and of the plan of a batch that settle nothing.
LEMMA NothingSettles ==
  ASSUME Progress!RunAssumption, RunInv, runPhase = "working", todo # <<>>,
         NEW tasks, Divides(tasks, Head(todo).items), Progress!Becomes(tasks),
         Progress!Idle, Progress!Same, sent' = Progress!Silent, ShownFits'
  PROVE  RunInv'
<1> DEFINE Q == ItemsOf(outcome, folder, {"queued"})
<1>1. Divides(todo', Q \ (Head(todo).items \ Head(todo).items))
  BY HeadBecomes
<1>2. Q \ (Head(todo).items \ Head(todo).items) = Q
  OBVIOUS
<1>3. Divides(todo', Q)
  BY <1>1, <1>2
<1>4. UNCHANGED <<runPhase, folder, counters, outcome, scanErrors, ended, stats>>
  BY DEF Progress!Idle, Progress!Same
<1>5. sent' \in 0 .. Progress!Silent /\ ~(sent' < Progress!Silent)
  BY AtWorkIs
<1>6. QED BY <1>3, <1>4, <1>5, WorkGoesOn

LEMMA ReportsHold ==
  ASSUME Progress!RunAssumption, RunInv, Progress!BeginCommand \/ Progress!Progress
  PROVE  RunInv'
<1>1. /\ runPhase = "working" /\ UNCHANGED todo /\ Progress!Idle /\ Progress!Same
  BY DEF Progress!BeginCommand, Progress!Progress
<1>2. /\ todo # <<>> /\ Head(todo).how \in Progress!Commands
      /\ \E n \in Nat : /\ sent' = n /\ Progress!BatchProgress(n) /\ n <= Planned
                        /\ n = 0 \/ n <= Cardinality(Head(todo).items)
  <2>1. CASE Progress!BeginCommand
    BY <1>1, <2>1, AtWorkIs DEF Progress!BeginCommand
  <2>2. CASE Progress!Progress
    <3>1. /\ sent < Progress!Silent /\ sent < Progress!Cardinality(Head(todo).items)
          /\ sent' = sent + 1 /\ Progress!BatchProgress(sent')
      BY <2>2 DEF Progress!Progress, Progress!AtWork
    <3>2. /\ todo # <<>> /\ Head(todo).how \in Progress!Commands
          /\ sent < Cardinality(Head(todo).items) /\ Cardinality(Head(todo).items) \in Nat
          /\ sent \in Nat /\ sent < Planned + 1 /\ Planned \in Nat
      BY <1>1, <3>1, AtWorkIs DEF Progress!Silent
    <3>3. Cardinality(Head(todo).items) <= Planned
      <4>1. Progress!Items = 1 .. Planned /\ Head(todo).items \subseteq 1 .. Planned
        BY <1>1, <3>2, AtWorkIs DEF Progress!Items
      <4>2. IsFiniteSet(1 .. Planned) /\ Cardinality(1 .. Planned) = Planned
        BY <3>2, FS_Interval
      <4>3. QED BY <4>1, <4>2, FS_Subset
    <3>4. sent + 1 \in Nat /\ sent + 1 <= Cardinality(Head(todo).items) /\ sent + 1 <= Planned
      BY <3>2, <3>3
    <3>5. QED BY <3>1, <3>2, <3>4
  <2>3. QED BY <2>1, <2>2
<1>3. ShownFits' /\ sent' \in 0 .. Progress!Silent
  <2>1. PICK n \in Nat : /\ sent' = n /\ Progress!BatchProgress(n) /\ n <= Planned
                         /\ n = 0 \/ n <= Cardinality(Head(todo).items)
    BY <1>2
  <2>2. ShownFits'
    BY <1>1, <1>2, <2>1, BatchFits
  <2>3. n \in 0 .. Planned + 1
    BY <1>1, <2>1, AtWorkIs
  <2>4. QED BY <2>1, <2>2, <2>3 DEF Progress!Silent
<1>4. UNCHANGED <<runPhase, folder, counters, outcome, scanErrors, ended, stats, todo>>
  BY <1>1 DEF Progress!Idle, Progress!Same
<1>5. Divides(todo, ItemsOf(outcome, folder, {"queued"}))
  BY <1>1, AtWorkIs
<1>6. QED BY <1>1, <1>2, <1>3, <1>4, <1>5, WorkGoesOn

LEMMA CommandHolds ==
  ASSUME Progress!RunAssumption, RunInv, Progress!CommandSucceeds
  PROVE  RunInv'
<1> DEFINE X == Head(todo).items
<1>1. /\ runPhase = "working" /\ sent < Progress!Silent /\ sent' = Progress!Silent
      /\ UNCHANGED overall /\ Progress!Same
  BY DEF Progress!CommandSucceeds
<1>2. todo # <<>> /\ X \in SUBSET Progress!Items /\ X # {}
  BY <1>1, AtWorkIs
<1>3. ShownFits'
  BY <1>1 DEF RunInv, ShownFits
<1>4. CASE \E how \in {"history", "promote"} :
             Progress!Becomes(<<Progress!Task(how, X)>>) /\ Progress!Idle
  <2>1. PICK how \in {"history", "promote"} : Progress!Becomes(<<Progress!Task(how, X)>>) /\ Progress!Idle
    BY <1>4
  <2>2. how \in Hows
    BY DEF Hows, Progress!Commands
  <2>3. Divides(<<Progress!Task(how, X)>>, X)
    BY <1>2, <2>2, OneTask
  <2>4. QED BY <1>1, <1>2, <1>3, <2>1, <2>3, NothingSettles
<1>5. CASE \E failed \in SUBSET X : Progress!Becomes(<<>>) /\ Progress!Settle(X \ failed, failed, {})
  <2>1. PICK failed \in SUBSET X : Progress!Becomes(<<>>) /\ Progress!Settle(X \ failed, failed, {})
    BY <1>5
  <2>2. X \ ((X \ failed) \cup failed \cup {}) = {}
    OBVIOUS
  <2>3. Divides(<<>>, X \ ((X \ failed) \cup failed \cup {}))
    BY <2>2, NoTask
  <2>4. QED BY <1>1, <1>2, <1>3, <2>1, <2>3, ItemsSettle
<1>6. CASE Progress!Becomes(<<>>) /\ Progress!Settle(X, {}, {})
  <2>1. X \ (X \cup {} \cup {}) = {}
    OBVIOUS
  <2>2. Divides(<<>>, X \ (X \cup {} \cup {}))
    BY <2>1, NoTask
  <2>3. QED BY <1>1, <1>2, <1>3, <1>6, <2>2, ItemsSettle
<1>7. QED BY <1>4, <1>5, <1>6 DEF Progress!CommandSucceeds, Progress!AtWork

LEMMA TwoJoined == ASSUME NEW a, NEW b PROVE <<a>> \o <<b>> = <<a, b>>
<1> DEFINE s == <<a>>  t == <<b>>  u == <<a, b>>
<1>1. /\ s \in Seq({a, b}) /\ Len(s) = 1 /\ s[1] = a
      /\ t \in Seq({a, b}) /\ Len(t) = 1 /\ t[1] = b
      /\ u \in Seq({a, b}) /\ Len(u) = 2 /\ u[1] = a /\ u[2] = b
  OBVIOUS
<1> HIDE DEF s, t, u
<1>2. /\ s \o t \in Seq({a, b}) /\ Len(s \o t) = 2
      /\ \A i \in 1 .. 2 : (s \o t)[i] = IF i <= 1 THEN s[i] ELSE t[i - 1]
  BY <1>1, ConcatProperties
<1>3. \A i \in 1 .. 2 : (s \o t)[i] = u[i]
  BY <1>1, <1>2
<1>4. s \o t = u
  BY <1>1, <1>2, <1>3, SeqEqual
<1>5. QED BY <1>4 DEF s, t, u

\* A batch that failed is sent in two halves or as single files.
LEMMA CommandFailsHolds ==
  ASSUME Progress!RunAssumption, RunInv, Progress!CommandFails
  PROVE  RunInv'
<1> DEFINE X == Head(todo).items  how == Head(todo).how
<1>1. /\ runPhase = "working" /\ sent < Progress!Silent /\ sent' = Progress!Silent
      /\ UNCHANGED overall /\ Progress!Same /\ Progress!Idle
  BY DEF Progress!CommandFails
<1>2. todo # <<>> /\ X \in SUBSET Progress!Items /\ X # {} /\ how \in Progress!Commands
  BY <1>1, AtWorkIs
<1>3. ShownFits'
  BY <1>1 DEF RunInv, ShownFits
<1>4. PICK first \in Progress!Halves(X) : Progress!Becomes(Progress!AfterFailure(how, X, first))
  BY DEF Progress!CommandFails, Progress!AtWork
<1>5. Divides(Progress!AfterFailure(how, X, first), X)
  <2>1. CASE how = "copy" /\ Progress!Cardinality(X) > 1
    <3>1. /\ first \in SUBSET X /\ IsFiniteSet(X) /\ Cardinality(X) \in Nat /\ Cardinality(X) > 1
          /\ Cardinality(first) = (Cardinality(X) + 1) \div 2
      <4>1. IsFiniteSet(X) /\ Cardinality(X) \in Nat
        BY <1>2, SomeItems
      <4>2. Progress!Cardinality(X) = Cardinality(X) /\ Progress!Cardinality(first) = Cardinality(first)
        BY DEF Progress!Cardinality, Cardinality
      <4>3. QED BY <2>1, <4>1, <4>2 DEF Progress!Halves
    <3>2. Cardinality(first) # 0 /\ Cardinality(first) # Cardinality(X)
      BY <3>1
    <3>3. first # {} /\ first # X
      BY <3>2, FS_EmptySet
    <3>4. first \in SUBSET Progress!Items /\ X \ first \in SUBSET Progress!Items /\ X \ first # {}
      BY <1>2, <3>1, <3>3
    <3>5. "copy" \in Hows
      BY DEF Hows, Progress!Commands
    <3>6. /\ Divides(<<Progress!Task("copy", first)>>, first)
          /\ Divides(<<Progress!Task("copy", X \ first)>>, X \ first)
      BY <3>3, <3>4, <3>5, OneTask
    <3>7. Divides(<<Progress!Task("copy", first)>> \o <<Progress!Task("copy", X \ first)>>,
                  first \cup (X \ first))
      <4>1. first \cap (X \ first) = {}
        OBVIOUS
      <4>2. QED BY <3>6, <4>1, JoinedTasks
    <3>8. <<Progress!Task("copy", first)>> \o <<Progress!Task("copy", X \ first)>>
            = <<Progress!Task("copy", first), Progress!Task("copy", X \ first)>>
      <4>1. PICK a, b : a = Progress!Task("copy", first) /\ b = Progress!Task("copy", X \ first)
        OBVIOUS
      <4>2. <<a>> \o <<b>> = <<a, b>>
        BY TwoJoined
      <4>3. QED BY <4>1, <4>2
    <3>9. first \cup (X \ first) = X
      BY <3>1
    <3>10. Progress!AfterFailure(how, X, first)
             = <<Progress!Task("copy", first), Progress!Task("copy", X \ first)>>
      BY <2>1 DEF Progress!AfterFailure
    <3>11. QED BY <3>7, <3>8, <3>9, <3>10
  <2>2. CASE ~(how = "copy" /\ Progress!Cardinality(X) > 1)
    <3>1. \E h \in Hows : Progress!AfterFailure(how, X, first) = <<Progress!Task(h, X)>>
      <4>1. {"promoteEach", "reconcile", "deleteEach", "single"} \subseteq Hows
        BY DEF Hows, Progress!Singles
      <4>2. \E h \in {"promoteEach", "reconcile", "deleteEach", "single"} :
              Progress!AfterFailure(how, X, first) = <<Progress!Task(h, X)>>
        BY <2>2 DEF Progress!AfterFailure
      <4>3. QED BY <4>1, <4>2
    <3>2. QED BY <1>2, <3>1, OneTask
  <2>3. QED BY <2>1, <2>2
<1>6. QED BY <1>1, <1>2, <1>3, <1>4, <1>5, NothingSettles

Moved(S, m) == [x \in DOMAIN outcome |-> IF x[1] = folder /\ x[2] \in S THEN m ELSE outcome[x]]

\* Items of the folder change their kind without being counted anew: queued ones are
\* dropped, failed ones are marked.
LEMMA OutcomesMove ==
  ASSUME Progress!RunAssumption, RunInv, runPhase = "working",
         NEW k, NEW m, (k = "queued" /\ m = "dropped") \/ (k = "failed" /\ m = "marked"),
         NEW S \in SUBSET ItemsOf(outcome, folder, {k}),
         outcome' = Moved(S, m),
         UNCHANGED <<runPhase, folder, counters, scanErrors, ended, stats>>,
         sent' \in 0 .. Progress!Silent,
         sent' < Progress!Silent => todo' # <<>> /\ Head(todo').how \in Progress!Commands,
         Divides(todo', IF k = "queued" THEN ItemsOf(outcome, folder, {"queued"}) \ S
                                        ELSE ItemsOf(outcome, folder, {"queued"})),
         ShownFits'
  PROVE  RunInv'
<1>1. /\ outcome \in [RunItems -> Outcomes] /\ folder \in 1 .. RunFolders
      /\ RunTyped /\ WorkInv /\ FoldersInv /\ CountsInv /\ m \in Outcomes
  BY DEF RunInv, RunTyped, WorkInv, Outcomes
<1>2. outcome' = [x \in RunItems |-> IF x[1] = folder /\ x[2] \in S THEN m ELSE outcome[x]]
  BY <1>1 DEF Moved
<1>3. \A f \in 1 .. RunFolders, i \in Progress!Items :
        /\ outcome'[<<f, i>>] = (IF f = folder /\ i \in S THEN m ELSE outcome[<<f, i>>])
        /\ outcome[<<f, i>>] \in Outcomes
        /\ f = folder /\ i \in S => outcome[<<f, i>>] = k
  <2>1. \A f \in 1 .. RunFolders, i \in Progress!Items :
          <<f, i>> \in RunItems /\ <<f, i>>[1] = f /\ <<f, i>>[2] = i
    BY DEF RunItems
  <2>2. \A i \in S : outcome[<<folder, i>>] = k
    BY DEF ItemsOf
  <2>3. SUFFICES ASSUME NEW f \in 1 .. RunFolders, NEW i \in Progress!Items
                 PROVE  /\ outcome'[<<f, i>>] = (IF f = folder /\ i \in S THEN m ELSE outcome[<<f, i>>])
                        /\ outcome[<<f, i>>] \in Outcomes
                        /\ f = folder /\ i \in S => outcome[<<f, i>>] = k
    OBVIOUS
  <2>4. outcome'[<<f, i>>] = (IF f = folder /\ i \in S THEN m ELSE outcome[<<f, i>>])
    <3>1. PICK x \in RunItems : x = <<f, i>> /\ x[1] = f /\ x[2] = i
      BY <2>1
    <3>2. outcome'[x] = IF x[1] = folder /\ x[2] \in S THEN m ELSE outcome[x]
      BY <1>2
    <3>3. QED BY <3>1, <3>2
  <2>5. outcome[<<f, i>>] \in Outcomes
    BY <1>1, <2>1
  <2>6. QED BY <2>2, <2>4, <2>5
<1>4. outcome' \in [RunItems -> Outcomes]
  BY <1>1, <1>2
<1>5. /\ ItemsOf(outcome', folder, {"queued"})
           = IF k = "queued" THEN ItemsOf(outcome, folder, {"queued"}) \ S
                             ELSE ItemsOf(outcome, folder, {"queued"})
      /\ ItemsOf(outcome', folder, Progress!Settled) = ItemsOf(outcome, folder, Progress!Settled)
      /\ ItemsOf(outcome', folder, Outcomes \ {"none"}) = ItemsOf(outcome, folder, Outcomes \ {"none"})
  <2>1. ItemsOf(outcome', folder, {"queued"})
          = IF k = "queued" THEN ItemsOf(outcome, folder, {"queued"}) \ S
                            ELSE ItemsOf(outcome, folder, {"queued"})
    BY <1>1, <1>3 DEF ItemsOf
  <2>2. ItemsOf(outcome', folder, Progress!Settled) = ItemsOf(outcome, folder, Progress!Settled)
    BY <1>1, <1>3 DEF ItemsOf, Progress!Settled
  <2>3. ItemsOf(outcome', folder, Outcomes \ {"none"}) = ItemsOf(outcome, folder, Outcomes \ {"none"})
    BY <1>1, <1>3 DEF ItemsOf
  <2>4. QED BY <2>1, <2>2, <2>3
<1>6. \A f \in 1 .. RunFolders \ {folder} : \A ks : ItemsOf(outcome', f, ks) = ItemsOf(outcome, f, ks)
  BY <1>3 DEF ItemsOf
<1>7. /\ CountOf(outcome', {"completed"}) = CountOf(outcome, {"completed"})
      /\ CountOf(outcome', Progress!Failed) = CountOf(outcome, Progress!Failed)
  <2>1. ASSUME NEW x \in RunItems
        PROVE  /\ outcome'[x] = "completed" <=> outcome[x] = "completed"
               /\ outcome'[x] \in Progress!Failed <=> outcome[x] \in Progress!Failed
    <3>1. PICK f \in 1 .. RunFolders, i \in Progress!Items : x = <<f, i>>
      BY DEF RunItems
    <3>2. QED BY <1>3, <3>1 DEF Progress!Failed
  <2>2. CountOf(outcome', {"completed"}) = CountOf(outcome, {"completed"})
    BY <2>1, CountSame
  <2>3. CountOf(outcome', Progress!Failed) = CountOf(outcome, Progress!Failed)
    BY <2>1, CountSame
  <2>4. QED BY <2>2, <2>3
<1>8. RunTyped' /\ CountsInv'
  BY <1>1, <1>4, <1>7 DEF RunTyped, CountsInv
<1>9. WorkInv'
  BY <1>1, <1>5 DEF WorkInv
<1>10. FoldersInv'
  <2>1. SUFFICES ASSUME NEW f \in 1 .. RunFolders
                 PROVE  /\ f < folder =>
                             /\ ended[f] # "none" /\ ItemsOf(outcome', f, {"queued"}) = {}
                             /\ ended[f] \in {"complete", "unchanged"} =>
                                  ItemsOf(outcome', f, {"failed"}) = {} /\ f \notin scanErrors
                        /\ f >= folder => ended[f] = "none"
                        /\ f > folder => f \notin scanErrors /\ ItemsOf(outcome', f, Outcomes \ {"none"}) = {}
    BY <1>1 DEF FoldersInv
  <2>2. CASE f = folder
    BY <1>1, <2>2 DEF FoldersInv
  <2>3. CASE f # folder
    BY <1>1, <1>6, <2>3 DEF FoldersInv
  <2>4. QED BY <2>2, <2>3
<1>11. RestInv'
  BY DEF RestInv
<1>12. QED BY <1>8, <1>9, <1>10, <1>11 DEF RunInv

LEMMA DropHolds ==
  ASSUME Progress!RunAssumption, RunInv, runPhase = "working", todo # <<>>,
         NEW back \in SUBSET Head(todo).items,
         Progress!Becomes(Progress!Left("bundle", Head(todo).items \ back)), Progress!Drop(back),
         Progress!Same, sent' = Progress!Silent, ShownFits'
  PROVE  RunInv'
<1> DEFINE X == Head(todo).items  Q == ItemsOf(outcome, folder, {"queued"})
<1>1. "bundle" \in Hows /\ X \ back \in SUBSET Progress!Items /\ X \ back \in SUBSET X
  BY AtWorkIs DEF Hows
<1>2. Divides(Progress!Left("bundle", X \ back), X \ back)
  BY <1>1, WhatIsLeft
<1>3. Divides(todo', Q \ (X \ (X \ back)))
  BY <1>1, <1>2, HeadBecomes
<1>4. X \ (X \ back) = back
  OBVIOUS
<1>5. X \subseteq Q
  BY HeadOfTasks DEF RunInv, WorkInv
<1>6. Divides(todo', Q \ back) /\ back \in SUBSET Q
  BY <1>3, <1>4, <1>5
<1>7. /\ UNCHANGED <<runPhase, folder, counters, scanErrors, ended, stats>>
      /\ outcome' = Moved(back, "dropped")
  BY DEF Progress!Drop, Progress!Same, Moved
<1>8. sent' \in 0 .. Progress!Silent /\ ~(sent' < Progress!Silent)
  BY AtWorkIs
<1> HIDE DEF X, Q
<1>9. PICK k \in {"queued"}, m \in {"dropped"} : TRUE
  OBVIOUS
<1>10. /\ back \in SUBSET ItemsOf(outcome, folder, {k}) /\ k = "queued" /\ m = "dropped"
       /\ outcome' = Moved(back, m)
       /\ Divides(todo', IF k = "queued" THEN ItemsOf(outcome, folder, {"queued"}) \ back
                                         ELSE ItemsOf(outcome, folder, {"queued"}))
  BY <1>6, <1>7, <1>9 DEF Q
<1>11. QED BY <1>7, <1>8, <1>10, OutcomesMove

LEMMA MarkHolds ==
  ASSUME Progress!RunAssumption, RunInv, Progress!MarkFailed
  PROVE  RunInv'
<1>1. /\ runPhase = "working"
      /\ UNCHANGED <<runPhase, folder, todo, sent, counters, scanErrors, ended, stats, overall>>
      /\ outcome \in [RunItems -> Outcomes] /\ folder \in 1 .. RunFolders
  BY DEF Progress!MarkFailed, RunInv, RunTyped, WorkInv
<1>2. PICK i \in Progress!OfFolder(folder, {"failed"}) :
        outcome' = [outcome EXCEPT ![<<folder, i>>] = "marked"]
  BY DEF Progress!MarkFailed
<1>3. {i} \in SUBSET ItemsOf(outcome, folder, {"failed"})
  BY <1>2 DEF Progress!OfFolder, ItemsOf
<1>4. outcome' = Moved({i}, "marked")
  <2>1. \A x \in RunItems : x = <<folder, i>> <=> x[1] = folder /\ x[2] \in {i}
    <3> SUFFICES ASSUME NEW x \in RunItems PROVE x = <<folder, i>> <=> x[1] = folder /\ x[2] \in {i}
      OBVIOUS
    <3>1. PICK g \in 1 .. RunFolders, j \in Progress!Items : x = <<g, j>>
      BY DEF RunItems
    <3>2. QED BY <3>1
  <2>2. QED BY <1>1, <1>2, <2>1 DEF Moved
<1>5. /\ Divides(todo', ItemsOf(outcome, folder, {"queued"})) /\ ShownFits'
      /\ sent' \in 0 .. Progress!Silent
      /\ sent' < Progress!Silent => todo' # <<>> /\ Head(todo').how \in Progress!Commands
  <2>1. Divides(todo, ItemsOf(outcome, folder, {"queued"}))
    BY <1>1 DEF RunInv, WorkInv
  <2>2. sent \in 0 .. Progress!Silent
    BY DEF RunInv, RunTyped
  <2>3. sent < Progress!Silent => todo # <<>> /\ Head(todo).how \in Progress!Commands
    BY DEF RunInv, WorkInv
  <2>4. ShownFits'
    BY <1>1 DEF RunInv, ShownFits
  <2>5. todo' = todo /\ sent' = sent
    BY <1>1
  <2>6. QED BY <2>1, <2>2, <2>3, <2>4, <2>5
<1>6. PICK k \in {"failed"}, m \in {"marked"}, S \in {{i}} : TRUE
  OBVIOUS
<1>7. /\ S \in SUBSET ItemsOf(outcome, folder, {k}) /\ k = "failed" /\ m = "marked"
      /\ outcome' = Moved(S, m)
      /\ Divides(todo', IF k = "queued" THEN ItemsOf(outcome, folder, {"queued"}) \ S
                                        ELSE ItemsOf(outcome, folder, {"queued"}))
  BY <1>3, <1>4, <1>5, <1>6
<1>8. QED BY <1>1, <1>5, <1>7, OutcomesMove

LEMMA BundleHolds ==
  ASSUME Progress!RunAssumption, RunInv, Progress!CreatePack \/ Progress!ForgetPacked
  PROVE  RunInv'
<1> DEFINE X == Head(todo).items
<1>1. /\ runPhase = "working" /\ todo # <<>> /\ UNCHANGED sent /\ Progress!Same
      /\ Head(todo).how \in {"bundle", "forget"}
  BY DEF Progress!CreatePack, Progress!ForgetPacked, Progress!Working
<1>2. X \in SUBSET Progress!Items /\ X # {} /\ sent' = Progress!Silent
  BY <1>1, AtWorkIs DEF Progress!Commands
<1>4. ShownFits'
  <2>1. CASE UNCHANGED overall
    BY <2>1 DEF RunInv, ShownFits
  <2>2. CASE Progress!BatchProgress(0)
    BY <1>1, <2>2, BatchFits
  <2>3. QED BY <2>1, <2>2 DEF Progress!CreatePack, Progress!ForgetPacked
<1>5. CASE \E how \in {"send", "single"} :
             Progress!Becomes(<<Progress!Task(how, X)>>) /\ Progress!Idle
  <2>1. PICK how \in {"send", "single"} : Progress!Becomes(<<Progress!Task(how, X)>>) /\ Progress!Idle
    BY <1>5
  <2>2. how \in Hows
    BY DEF Hows, Progress!Commands, Progress!Singles
  <2>3. Divides(<<Progress!Task(how, X)>>, X)
    BY <1>2, <2>2, OneTask
  <2>4. QED BY <1>1, <1>2, <1>4, <2>1, <2>3, NothingSettles
<1>6. CASE \E vanished \in SUBSET X :
             Progress!Becomes(Progress!Left("bundle", X \ vanished)) /\ Progress!Disappear(vanished)
  <2>1. PICK vanished \in SUBSET X :
          Progress!Becomes(Progress!Left("bundle", X \ vanished)) /\ Progress!Disappear(vanished)
    BY <1>6
  <2>2. PICK skipped \in SUBSET vanished : \E failed \in SUBSET (vanished \ skipped) :
          Progress!Settle(vanished \ (skipped \cup failed), failed, skipped)
    BY <2>1 DEF Progress!Disappear
  <2>3. PICK failed \in SUBSET (vanished \ skipped) :
          Progress!Settle(vanished \ (skipped \cup failed), failed, skipped)
    BY <2>2
  <2> DEFINE done == vanished \ (skipped \cup failed)
  <2>4. /\ done \in SUBSET X /\ failed \in SUBSET X /\ skipped \in SUBSET X
        /\ done \cap failed = {} /\ done \cap skipped = {} /\ failed \cap skipped = {}
        /\ done \cup failed \cup skipped = vanished
    OBVIOUS
  <2>5. "bundle" \in Hows /\ X \ vanished \in SUBSET Progress!Items
    BY <1>2 DEF Hows
  <2>6. Divides(Progress!Left("bundle", X \ vanished), X \ (done \cup failed \cup skipped))
    BY <2>4, <2>5, WhatIsLeft
  <2>7. QED BY <1>1, <1>2, <1>4, <2>1, <2>3, <2>4, <2>6, ItemsSettle
<1>7. CASE Progress!Becomes(<<>>) /\ Progress!Settle(X, {}, {})
  <2>1. X \ (X \cup {} \cup {}) = {}
    OBVIOUS
  <2>2. Divides(<<>>, X \ (X \cup {} \cup {}))
    BY <2>1, NoTask
  <2>3. QED BY <1>1, <1>2, <1>4, <1>7, <2>2, ItemsSettle
<1>8. CASE \E back \in SUBSET X :
             Progress!Becomes(Progress!Left("bundle", X \ back)) /\ Progress!Drop(back)
  <2>1. PICK back \in SUBSET X :
          Progress!Becomes(Progress!Left("bundle", X \ back)) /\ Progress!Drop(back)
    BY <1>8
  <2>2. QED BY <1>1, <1>2, <1>4, <2>1, DropHolds
<1>9. QED BY <1>5, <1>6, <1>7, <1>8 DEF Progress!CreatePack, Progress!ForgetPacked, Progress!AtWork

LEMMA SingleHolds ==
  ASSUME Progress!RunAssumption, RunInv, Progress!SingleItem
  PROVE  RunInv'
<1> DEFINE X == Head(todo).items  how == Head(todo).how
           i == CHOOSE j \in X : \A k \in X : j <= k
<1>1. /\ runPhase = "working" /\ todo # <<>> /\ UNCHANGED sent /\ Progress!Same
      /\ how \in Progress!Singles
      /\ Progress!Becomes(Progress!Left(how, X \ {i}))
      /\ \/ Progress!Settle({i}, {}, {}) \/ Progress!Settle({}, {i}, {}) \/ Progress!Settle({}, {}, {i})
      /\ Progress!BatchProgress(0) \/ UNCHANGED overall
  BY DEF Progress!SingleItem, Progress!AtWork
<1>2. /\ X \in SUBSET Progress!Items /\ X # {} /\ sent' = Progress!Silent /\ how \in Hows
      /\ X \subseteq Nat
  <2>1. X \in SUBSET Progress!Items /\ X # {} /\ how \in Hows
    BY <1>1, AtWorkIs
  <2>2. how \notin Progress!Commands
    BY <1>1 DEF Progress!Singles, Progress!Commands
  <2>3. sent' = Progress!Silent
    BY <1>1, <2>2, AtWorkIs
  <2>4. X \subseteq Nat
    BY <2>1 DEF Progress!Items
  <2>5. QED BY <2>1, <2>3, <2>4
<1>3. i \in X
  BY <1>2, SmallestItem
<1>4. ShownFits'
  <2>1. CASE UNCHANGED overall
    BY <2>1 DEF RunInv, ShownFits
  <2>2. CASE Progress!BatchProgress(0)
    BY <1>1, <2>2, BatchFits
  <2>3. QED BY <1>1, <2>1, <2>2
<1> HIDE DEF i
<1>5. Divides(Progress!Left(how, X \ {i}), X \ {i})
  BY <1>2, WhatIsLeft
<1>6. PICK done \in {{}, {i}}, failed \in {{}, {i}}, skipped \in {{}, {i}} :
        /\ Progress!Settle(done, failed, skipped) /\ done \cup failed \cup skipped = {i}
        /\ done \cap failed = {} /\ done \cap skipped = {} /\ failed \cap skipped = {}
  BY <1>1
<1>7. /\ done \in SUBSET X /\ failed \in SUBSET X /\ skipped \in SUBSET X
      /\ Divides(Progress!Left(how, X \ {i}), X \ (done \cup failed \cup skipped))
  BY <1>3, <1>5, <1>6
<1>8. QED BY <1>1, <1>2, <1>4, <1>6, <1>7, ItemsSettle
-----------------------------------------------------------------------------
(* The end of a folder, and the plan of the next one.                      *)

LEMMA EndedAdds ==
  ASSUME Progress!RunAssumption, ended \in [1 .. RunFolders -> Progress!Ends \cup {"none"}],
         scanErrors \in SUBSET (1 .. RunFolders), folder \in 1 .. RunFolders, ended[folder] = "none",
         NEW how, how # "none", ended' = [ended EXCEPT ![folder] = how]
  PROVE  /\ BadOf(ended') = BadOf(ended) + (IF how \in BadKinds THEN 1 ELSE 0)
         /\ ScansOf(scanErrors, ended') = ScansOf(scanErrors, ended) + (IF folder \in scanErrors THEN 1 ELSE 0)
<1> DEFINE B == {g \in 1 .. RunFolders : ended[g] \in BadKinds}
           Scans == {g \in scanErrors : ended[g] # "none"}
<1>1. ended'[folder] = how /\ \A g \in 1 .. RunFolders : g # folder => ended'[g] = ended[g]
  OBVIOUS
<1>2. IsFiniteSet(B) /\ IsFiniteSet(Scans) /\ Cardinality(B) \in Nat /\ Cardinality(Scans) \in Nat
  BY CountsAreNat DEF BadOf, ScansOf
<1>3. /\ IsFiniteSet({folder}) /\ Cardinality({folder}) = 1
      /\ how # "none" /\ "none" \notin BadKinds /\ folder \notin B /\ folder \notin Scans
  BY FS_Singleton DEF Progress!Ends, BadKinds
<1>4. BadOf(ended') = BadOf(ended) + (IF how \in BadKinds THEN 1 ELSE 0)
  <2>1. CASE how \in BadKinds
    <3>1. {g \in 1 .. RunFolders : ended'[g] \in BadKinds} = B \cup {folder}
      BY <1>1, <2>1
    <3> HIDE DEF B
    <3>2. Cardinality(B \cup {folder}) = Cardinality(B) + Cardinality({folder})
      BY <1>2, <1>3, DisjointAdd
    <3>3. QED BY <1>3, <2>1, <3>1, <3>2 DEF BadOf, B
  <2>2. CASE how \notin BadKinds
    <3>1. {g \in 1 .. RunFolders : ended'[g] \in BadKinds} = B
      BY <1>1, <1>3, <2>2
    <3>2. BadOf(ended') = Cardinality(B) /\ BadOf(ended) = Cardinality(B)
      BY <3>1 DEF BadOf
    <3> HIDE DEF B
    <3>3. QED BY <1>2, <2>2, <3>2
  <2>3. QED BY <2>1, <2>2
<1>5. ScansOf(scanErrors, ended') = ScansOf(scanErrors, ended) + (IF folder \in scanErrors THEN 1 ELSE 0)
  <2>1. CASE folder \in scanErrors
    <3>1. {g \in scanErrors : ended'[g] # "none"} = Scans \cup {folder}
      BY <1>1, <1>3, <2>1
    <3> HIDE DEF Scans
    <3>2. Cardinality(Scans \cup {folder}) = Cardinality(Scans) + Cardinality({folder})
      BY <1>2, <1>3, DisjointAdd
    <3>3. QED BY <1>3, <2>1, <3>1, <3>2 DEF ScansOf, Scans
  <2>2. CASE folder \notin scanErrors
    <3>1. {g \in scanErrors : ended'[g] # "none"} = Scans
      BY <1>1, <2>2
    <3>2. ScansOf(scanErrors, ended') = Cardinality(Scans) /\ ScansOf(scanErrors, ended) = Cardinality(Scans)
      BY <3>1 DEF ScansOf
    <3> HIDE DEF Scans
    <3>3. QED BY <1>2, <2>2, <3>2
  <2>3. QED BY <2>1, <2>2
<1>6. QED BY <1>4, <1>5

\* What a folder's end must find for the accounts to hold afterwards.
LEMMA FolderOver ==
  ASSUME Progress!RunAssumption, RunInv, folder \in 1 .. RunFolders, NEW how \in Progress!Ends,
         NEW tally \in RunStats, NEW reported \in [files : Nat, bytes : Nat],
         tally.files = stats.files, tally.bytes = stats.files, stats.bytes = stats.files,
         tally.filesDone = stats.filesDone, tally.bytesDone = stats.filesDone,
         tally.synced = stats.synced,
         tally.failed = stats.failed + (IF folder \in scanErrors THEN 1 ELSE 0)
                                   + (IF how \in BadKinds THEN 1 ELSE 0),
         reported.bytes <= reported.files, stats.filesDone + reported.files <= stats.files,
         tally.failed = 0 /\ NoneDropped => stats.filesDone + reported.files = stats.files,
         ItemsOf(outcome, folder, {"queued"}) = {},
         how \in {"complete", "unchanged"} =>
           ItemsOf(outcome, folder, {"failed"}) = {} /\ folder \notin scanErrors,
         Progress!FolderEnds(how, tally, reported), UNCHANGED <<outcome, scanErrors>>
  PROVE  RunInv'
<1>1. /\ ended' = [ended EXCEPT ![folder] = how] /\ folder' = folder + 1
      /\ runPhase' = "planning" /\ todo' = <<>> /\ sent' = Progress!Silent
      /\ counters' = Progress!Nothing /\ UNCHANGED <<outcome, scanErrors>>
  BY DEF Progress!FolderEnds
<1>2. stats' = [files |-> stats.files, bytes |-> stats.files, filesDone |-> stats.files,
                bytesDone |-> stats.files, synced |-> stats.synced, failed |-> tally.failed]
  <2>1. stats' = [tally EXCEPT !.filesDone = tally.files, !.bytesDone = tally.bytes]
    BY DEF Progress!FolderEnds
  <2>2. QED BY <2>1, StatsMove
<1>3. overall' = [files |-> stats.files, bytes |-> stats.files,
                  filesDone |-> stats.filesDone + reported.files,
                  bytesDone |-> stats.filesDone + reported.bytes]
  BY DEF Progress!FolderEnds, Progress!Emitted
<1>4. /\ RunFolders \in Nat \ {0} /\ Planned \in Nat /\ stats \in RunStats
      /\ ended \in [1 .. RunFolders -> Progress!Ends \cup {"none"}]
      /\ scanErrors \in SUBSET (1 .. RunFolders) /\ outcome \in [RunItems -> Outcomes]
  BY DEF RunInv, RunTyped, Progress!RunAssumption
<1>5. /\ stats.files \in Nat /\ stats.filesDone \in Nat /\ stats.synced \in Nat
      /\ stats.failed \in Nat /\ tally.failed \in Nat /\ reported.files \in Nat /\ reported.bytes \in Nat
  BY <1>4 DEF RunStats
<1>6. ended[folder] = "none" /\ how # "none"
  BY DEF RunInv, FoldersInv, Progress!Ends
<1>7. RunTyped'
  <2>1. stats' \in RunStats
    BY <1>2, <1>5 DEF RunStats
  <2>2. folder' \in 1 .. RunFolders + 1 /\ sent' \in 0 .. Progress!Silent
    BY <1>1, <1>4 DEF Progress!Silent
  <2>3. counters' \in [files : Nat, bytes : Nat] /\ counters'.bytes <= counters'.files
    BY <1>1 DEF Progress!Nothing
  <2>4. ended' \in [1 .. RunFolders -> Progress!Ends \cup {"none"}]
    BY <1>1, <1>4
  <2>5. outcome' \in [RunItems -> Outcomes] /\ scanErrors' \subseteq 1 .. RunFolders
        /\ runPhase' = "planning"
    BY <1>1, <1>4
  <2>6. QED BY <2>1, <2>2, <2>3, <2>4, <2>5 DEF RunTyped
<1>8. ShownFits'
  <2>1. /\ stats.filesDone + reported.files \in Nat /\ stats.filesDone + reported.bytes \in Nat
        /\ stats.filesDone + reported.bytes <= stats.files
    BY <1>5
  <2>2. QED BY <1>3, <1>5, <2>1 DEF ShownFits, RunShown
<1>9. WorkInv'
  <2>1. ~(sent' < Progress!Silent)
    BY <1>1, <1>4 DEF Progress!Silent
  <2>2. QED BY <1>1, <2>1 DEF WorkInv
<1>10. FoldersInv'
  <2>1. /\ ended'[folder] = how
        /\ \A f \in 1 .. RunFolders : f # folder => ended'[f] = ended[f]
    BY <1>1, <1>4
  <2>2. \A f \in 1 .. RunFolders :
          /\ f < folder' <=> f < folder \/ f = folder
          /\ f >= folder' <=> f > folder
          /\ f > folder' \/ f = folder' => f > folder
          /\ f < folder \/ f = folder \/ f > folder
          /\ f > folder => f >= folder /\ f # folder
          /\ f < folder => f # folder
    <3>1. folder' = folder + 1 /\ folder \in Int /\ \A f \in 1 .. RunFolders : f \in Int
      BY <1>1, <1>4
    <3>2. QED BY <3>1
  <2>3. ASSUME NEW f \in 1 .. RunFolders
        PROVE  /\ f < folder \/ f = folder =>
                    /\ ended'[f] # "none" /\ ItemsOf(outcome, f, {"queued"}) = {}
                    /\ ended'[f] \in {"complete", "unchanged"} =>
                         ItemsOf(outcome, f, {"failed"}) = {} /\ f \notin scanErrors
               /\ f > folder =>
                    /\ ended'[f] = "none"
                    /\ f \notin scanErrors /\ ItemsOf(outcome, f, Outcomes \ {"none"}) = {}
    <3>1. CASE f = folder
      BY <1>6, <2>1, <2>2, <3>1
    <3>2. CASE f < folder
      BY <2>1, <2>2, <3>2 DEF RunInv, FoldersInv
    <3>3. CASE f > folder
      BY <2>1, <2>2, <3>3 DEF RunInv, FoldersInv
    <3>4. QED BY <2>2, <3>1, <3>2, <3>3
  <2>4. outcome' = outcome /\ scanErrors' = scanErrors
    BY <1>1
  <2>5. QED BY <2>2, <2>3, <2>4 DEF FoldersInv
<1>11. RestInv'
  <2>1. tally.failed = 0 /\ NoneDropped => overall'.filesDone = stats.files
    BY <1>3
  <2>2. NoneDropped' <=> NoneDropped
    BY <1>1 DEF NoneDropped
  <2>3. QED BY <1>1, <1>2, <2>1, <2>2 DEF RestInv
<1>12. CountsInv'
  <2>1. /\ BadOf(ended') = BadOf(ended) + (IF how \in BadKinds THEN 1 ELSE 0)
        /\ ScansOf(scanErrors, ended') = ScansOf(scanErrors, ended) + (IF folder \in scanErrors THEN 1 ELSE 0)
    BY <1>1, <1>4, <1>6, EndedAdds
  <2>2. /\ stats.synced = CountOf(outcome, {"completed"})
        /\ stats.failed = CountOf(outcome, Progress!Failed) + ScansOf(scanErrors, ended) + BadOf(ended)
    BY DEF RunInv, CountsInv
  <2>3. /\ CountOf(outcome, Progress!Failed) \in Nat /\ ScansOf(scanErrors, ended) \in Nat /\ BadOf(ended) \in Nat
    BY <1>4, CountsAreNat
  <2>4. tally.failed = CountOf(outcome, Progress!Failed) + ScansOf(scanErrors, ended') + BadOf(ended')
    <3>1. PICK a, b \in {0, 1} :
            /\ a = (IF folder \in scanErrors THEN 1 ELSE 0) /\ b = (IF how \in BadKinds THEN 1 ELSE 0)
      OBVIOUS
    <3>2. tally.failed = stats.failed + a + b
      BY <3>1
    <3>3. BadOf(ended') = BadOf(ended) + b /\ ScansOf(scanErrors, ended') = ScansOf(scanErrors, ended) + a
      BY <2>1, <3>1
    <3>4. QED BY <2>2, <2>3, <3>2, <3>3
  <2>5. stats'.synced = CountOf(outcome', {"completed"})
    BY <1>1, <1>2, <2>2
  <2>6. stats'.failed = CountOf(outcome', Progress!Failed) + ScansOf(scanErrors', ended') + BadOf(ended')
    BY <1>1, <1>2, <2>4
  <2>7. QED BY <2>5, <2>6 DEF CountsInv
<1>13. QED BY <1>7, <1>8, <1>9, <1>10, <1>11, <1>12 DEF RunInv

\* What the end of a folder reads of the state.
LEMMA BeforeTheEnd ==
  ASSUME Progress!RunAssumption, RunInv, runPhase \in {"planning", "working"},
         folder \in 1 .. RunFolders, runPhase = "working" => todo = <<>>
  PROVE  /\ stats \in RunStats /\ counters \in [files : Nat, bytes : Nat]
         /\ Progress!Nothing \in [files : Nat, bytes : Nat]
         /\ counters.bytes <= counters.files /\ Progress!Nothing.bytes <= Progress!Nothing.files
         /\ stats.bytes = stats.files /\ stats.bytesDone = stats.filesDone
         /\ stats.filesDone + counters.files <= stats.files
         /\ stats.filesDone + Progress!Nothing.files <= stats.files
         /\ ItemsOf(outcome, folder, {"queued"}) = {}
         /\ ItemsOf(outcome, folder, Progress!Unstored) = {} => stats.filesDone + counters.files = stats.files
         /\ runPhase = "planning" =>
              /\ folder \notin scanErrors /\ ItemsOf(outcome, folder, {"failed"}) = {}
              /\ stats.filesDone + Progress!Nothing.files = stats.files
<1>1. /\ stats \in RunStats /\ counters \in [files : Nat, bytes : Nat] /\ counters.bytes <= counters.files
      /\ stats.files \in Nat /\ stats.filesDone \in Nat /\ counters.files \in Nat
  BY DEF RunInv, RunTyped, RunStats
<1>2. /\ Progress!Nothing \in [files : Nat, bytes : Nat]
      /\ Progress!Nothing.files = 0 /\ Progress!Nothing.bytes = 0
  BY DEF Progress!Nothing
<1>3. CASE runPhase = "planning"
  <2>1. /\ stats.bytes = stats.files /\ stats.bytesDone = stats.filesDone
        /\ stats.filesDone = stats.files /\ counters.files = 0
    BY <1>2, <1>3 DEF RunInv, RestInv
  <2>2. folder \notin scanErrors /\ ItemsOf(outcome, folder, Outcomes \ {"none"}) = {}
    BY <1>3 DEF RunInv, FoldersInv
  <2>3. ItemsOf(outcome, folder, {"queued"}) = {} /\ ItemsOf(outcome, folder, {"failed"}) = {}
    BY <2>2 DEF ItemsOf, Outcomes
  <2>4. stats.filesDone + 0 = stats.files
    BY <1>1, <2>1
  <2>5. QED BY <1>1, <1>2, <2>1, <2>2, <2>3, <2>4
<1>4. CASE runPhase = "working"
  <2>1. /\ stats.bytes = stats.files /\ stats.bytesDone = stats.filesDone
        /\ Divides(<<>>, ItemsOf(outcome, folder, {"queued"}))
    BY <1>4 DEF RunInv, WorkInv
  <2>2. ItemsOf(outcome, folder, {"queued"}) = {}
    <3>1. DOMAIN <<>> = {}
      OBVIOUS
    <3>2. QED BY <2>1, <3>1 DEF Divides
  <2>3. Cardinality(ItemsOf(outcome, folder, {"queued"})) = 0
    BY <2>2, FS_EmptySet
  <2>4. /\ counters.files + 0 + stats.filesDone <= stats.files
        /\ ItemsOf(outcome, folder, Progress!Unstored) = {} => counters.files + stats.filesDone = stats.files
    BY <1>4, <2>2, <2>3, WorkFits
  <2>5. /\ stats.filesDone + counters.files <= stats.files
        /\ stats.filesDone + Progress!Nothing.files <= stats.files
        /\ ItemsOf(outcome, folder, Progress!Unstored) = {} => stats.filesDone + counters.files = stats.files
    BY <1>1, <1>2, <2>4
  <2>6. runPhase # "planning"
    BY <1>4
  <2>7. QED BY <1>1, <1>2, <2>1, <2>2, <2>5, <2>6
<1>5. QED BY <1>3, <1>4

\* The statistics with more failures.
LEMMA MoreFailures ==
  ASSUME stats \in RunStats, stats.bytes = stats.files, stats.bytesDone = stats.filesDone,
         NEW k \in Nat, NEW tally, tally = [stats EXCEPT !.failed = @ + k]
  PROVE  /\ tally \in RunStats /\ tally.files = stats.files /\ tally.bytes = stats.files
         /\ tally.filesDone = stats.filesDone /\ tally.bytesDone = stats.filesDone
         /\ tally.synced = stats.synced /\ tally.failed = stats.failed + k /\ stats.failed \in Nat
         /\ tally.failed \in Nat
<1>1. tally = [files |-> stats.files, bytes |-> stats.bytes, filesDone |-> stats.filesDone,
             bytesDone |-> stats.bytesDone, synced |-> stats.synced, failed |-> stats.failed + k]
  BY StatsMove
<1>2. stats.failed \in Nat /\ stats.failed + k \in Nat
  BY DEF RunStats
<1>3. QED BY <1>1, <1>2 DEF RunStats

LEMMA NoPlanHolds ==
  ASSUME Progress!RunAssumption, RunInv, Progress!NoPlan
  PROVE  RunInv'
<1>1. /\ runPhase = "planning" /\ folder \in 1 .. RunFolders /\ UNCHANGED <<outcome, scanErrors>>
  BY DEF Progress!NoPlan, RunInv, RunTyped
<1>2. PICK how \in {"planning", "missing"} :
        Progress!FolderEnds(how, [stats EXCEPT !.failed = @ + 1], Progress!Nothing)
  BY DEF Progress!NoPlan
<1>3. PICK tally : tally = [stats EXCEPT !.failed = @ + 1]
  OBVIOUS
<1>4. Progress!FolderEnds(how, tally, Progress!Nothing)
  BY <1>2, <1>3
<1>5. /\ stats \in RunStats /\ stats.bytes = stats.files /\ stats.bytesDone = stats.filesDone
      /\ Progress!Nothing \in [files : Nat, bytes : Nat] /\ Progress!Nothing.bytes <= Progress!Nothing.files
      /\ stats.filesDone + Progress!Nothing.files <= stats.files
      /\ stats.filesDone + Progress!Nothing.files = stats.files
      /\ ItemsOf(outcome, folder, {"queued"}) = {} /\ folder \notin scanErrors
  BY <1>1, BeforeTheEnd
<1>6. /\ tally \in RunStats /\ tally.files = stats.files /\ tally.bytes = stats.files
      /\ tally.filesDone = stats.filesDone /\ tally.bytesDone = stats.filesDone
      /\ tally.synced = stats.synced /\ tally.failed = stats.failed + 1 /\ stats.failed \in Nat
  BY <1>3, <1>5, MoreFailures
<1>7. /\ how \in Progress!Ends /\ how \in BadKinds /\ how \notin {"complete", "unchanged"}
  BY DEF Progress!Ends, BadKinds
<1>8. tally.failed = stats.failed + (IF folder \in scanErrors THEN 1 ELSE 0)
                                + (IF how \in BadKinds THEN 1 ELSE 0)
  BY <1>5, <1>6, <1>7
<1>9. QED BY <1>1, <1>4, <1>5, <1>6, <1>7, <1>8, FolderOver

\* An item that failed is among the failures of the run.
LEMMA FailureIsCounted ==
  ASSUME Progress!RunAssumption, RunInv, NEW f \in 1 .. RunFolders,
         ItemsOf(outcome, f, Progress!Failed) # {}
  PROVE  stats.failed # 0
<1>1. PICK i \in Progress!Items : outcome[<<f, i>>] \in Progress!Failed
  BY DEF ItemsOf
<1>2. <<f, i>> \in {x \in RunItems : outcome[x] \in Progress!Failed}
  BY <1>1 DEF RunItems
<1>3. IsFiniteSet({x \in RunItems : outcome[x] \in Progress!Failed})
  BY ItemsAreFinite, FS_Subset
<1>4. CountOf(outcome, Progress!Failed) # 0 /\ CountOf(outcome, Progress!Failed) \in Nat
  BY <1>2, <1>3, FS_EmptySet, FS_CardinalityType DEF CountOf
<1>5. ScansOf(scanErrors, ended) \in Nat /\ BadOf(ended) \in Nat
  BY CountsAreNat DEF RunInv, RunTyped
<1>6. stats.failed = CountOf(outcome, Progress!Failed) + ScansOf(scanErrors, ended) + BadOf(ended)
  BY DEF RunInv, CountsInv
<1>7. PICK a, b, c \in Nat : /\ a = CountOf(outcome, Progress!Failed) /\ b = ScansOf(scanErrors, ended)
                               /\ c = BadOf(ended)
  BY <1>4, <1>5
<1>8. a # 0 /\ stats.failed = a + b + c
  BY <1>4, <1>6, <1>7
<1>9. QED BY <1>8

LEMMA NothingUnstored ==
  ASSUME Progress!RunAssumption, RunInv, folder \in 1 .. RunFolders, stats.failed = 0, NoneDropped
  PROVE  ItemsOf(outcome, folder, Progress!Unstored) = {}
<1>1. ItemsOf(outcome, folder, Progress!Failed) = {}
  BY FailureIsCounted
<1>2. \A i \in Progress!Items : outcome[<<folder, i>>] # "dropped"
  BY DEF NoneDropped, RunItems
<1>3. QED BY <1>1, <1>2 DEF ItemsOf, Progress!Unstored

\* The verification may fail; then the folder ends with one more failure.
LEMMA VerifiedHolds ==
  ASSUME Progress!RunAssumption, RunInv, runPhase \in {"planning", "working"},
         folder \in 1 .. RunFolders, runPhase = "working" => todo = <<>>,
         NEW how \in {"complete", "unchanged"}, NEW tally, tally = stats,
         NEW reported \in {counters, Progress!Nothing}, reported = counters \/ runPhase = "planning",
         folder \notin scanErrors, ItemsOf(outcome, folder, {"failed"}) = {},
         Progress!Verified(how, tally, reported), UNCHANGED <<outcome, scanErrors>>
  PROVE  RunInv'
<1>1. /\ stats \in RunStats /\ reported \in [files : Nat, bytes : Nat]
      /\ Progress!Nothing \in [files : Nat, bytes : Nat]
      /\ reported.bytes <= reported.files /\ Progress!Nothing.bytes <= Progress!Nothing.files
      /\ stats.bytes = stats.files /\ stats.bytesDone = stats.filesDone
      /\ stats.filesDone + reported.files <= stats.files
      /\ stats.filesDone + Progress!Nothing.files <= stats.files
      /\ ItemsOf(outcome, folder, {"queued"}) = {}
  BY BeforeTheEnd
<1>2. stats.failed \in Nat
  BY <1>1 DEF RunStats
<1>5. tally.failed = 0 /\ NoneDropped => stats.filesDone + reported.files = stats.files
  BY BeforeTheEnd, NothingUnstored
<1>3. CASE Progress!FolderEnds(how, tally, reported)
  <2>1. how \in Progress!Ends /\ how \notin BadKinds
    BY DEF Progress!Ends, BadKinds
  <2>2. tally.failed = stats.failed + (IF folder \in scanErrors THEN 1 ELSE 0)
                                  + (IF how \in BadKinds THEN 1 ELSE 0)
    BY <1>2, <2>1
  <2>3. QED BY <1>1, <1>3, <1>5, <2>1, <2>2, FolderOver
<1>4. CASE Progress!FolderEnds("verification", [tally EXCEPT !.failed = @ + 1], Progress!Nothing)
  <2>1. PICK more : more = [stats EXCEPT !.failed = @ + 1]
    OBVIOUS
  <2>2. Progress!FolderEnds("verification", more, Progress!Nothing)
    BY <1>4, <2>1
  <2>3. /\ more \in RunStats /\ more.files = stats.files /\ more.bytes = stats.files
        /\ more.filesDone = stats.filesDone /\ more.bytesDone = stats.filesDone
        /\ more.synced = stats.synced /\ more.failed = stats.failed + 1
    BY <1>1, <2>1, MoreFailures
  <2>4. "verification" \in Progress!Ends /\ "verification" \in BadKinds
    BY DEF Progress!Ends, BadKinds
  <2>5. more.failed = stats.failed + (IF folder \in scanErrors THEN 1 ELSE 0)
                                   + (IF "verification" \in BadKinds THEN 1 ELSE 0)
    BY <1>2, <2>3, <2>4
  <2>6. more.failed # 0
    BY <1>2, <2>3
  <2>7. QED BY <1>1, <2>2, <2>3, <2>4, <2>5, <2>6, FolderOver
<1>6. QED BY <1>3, <1>4 DEF Progress!Verified

LEMMA EmptyPlanHolds ==
  ASSUME Progress!RunAssumption, RunInv, Progress!EmptyPlan
  PROVE  RunInv'
<1>1. /\ runPhase = "planning" /\ folder \in 1 .. RunFolders /\ UNCHANGED <<outcome, scanErrors>>
  BY DEF Progress!EmptyPlan, RunInv, RunTyped
<1>2. /\ stats \in RunStats /\ Progress!Nothing \in [files : Nat, bytes : Nat]
      /\ Progress!Nothing.bytes <= Progress!Nothing.files
      /\ stats.bytes = stats.files /\ stats.bytesDone = stats.filesDone
      /\ stats.filesDone + Progress!Nothing.files <= stats.files
      /\ ItemsOf(outcome, folder, {"queued"}) = {} /\ ItemsOf(outcome, folder, {"failed"}) = {}
      /\ folder \notin scanErrors /\ stats.filesDone + Progress!Nothing.files = stats.files
  BY <1>1, BeforeTheEnd
<1>3. CASE Progress!Verified("unchanged", stats, Progress!Nothing)
  BY <1>1, <1>2, <1>3, VerifiedHolds
<1>4. CASE Progress!FolderEnds("disabled", stats, Progress!Nothing)
  <2>1. "disabled" \in Progress!Ends /\ "disabled" \notin BadKinds /\ stats.failed \in Nat
    BY <1>2 DEF Progress!Ends, BadKinds, RunStats
  <2>2. stats.failed = stats.failed + (IF folder \in scanErrors THEN 1 ELSE 0)
                                    + (IF "disabled" \in BadKinds THEN 1 ELSE 0)
    BY <1>2, <2>1
  <2>3. QED BY <1>1, <1>2, <1>4, <2>1, <2>2, FolderOver
<1>5. QED BY <1>3, <1>4 DEF Progress!EmptyPlan

LEMMA FinishFolderHolds ==
  ASSUME Progress!RunAssumption, RunInv, Progress!FinishFolder
  PROVE  RunInv'
<1> DEFINE failures == ItemsOf(outcome, folder, {"failed"})
           errors == IF folder \in scanErrors THEN 1 ELSE 0
<1>1. runPhase = "working" /\ todo = <<>> /\ UNCHANGED <<outcome, scanErrors>> /\ folder \in 1 .. RunFolders
  BY DEF Progress!FinishFolder, RunInv, WorkInv
<1>2. PICK tally : tally = [stats EXCEPT !.failed = @ + errors]
  OBVIOUS
<1>3. failures = Progress!OfFolder(folder, {"failed"})
  BY DEF Progress!OfFolder, ItemsOf
<1>4. IF failures # {} \/ errors > 0 THEN Progress!FolderEnds("partial", tally, counters)
      ELSE Progress!Verified("complete", tally, counters) \/ Progress!FolderEnds("preserved", tally, counters)
  BY <1>2, <1>3 DEF Progress!FinishFolder
<1>5. /\ stats \in RunStats /\ counters \in [files : Nat, bytes : Nat]
      /\ counters.bytes <= counters.files
      /\ stats.bytes = stats.files /\ stats.bytesDone = stats.filesDone
      /\ stats.filesDone + counters.files <= stats.files
      /\ ItemsOf(outcome, folder, {"queued"}) = {}
      /\ ItemsOf(outcome, folder, Progress!Unstored) = {} => stats.filesDone + counters.files = stats.files
  BY <1>1, BeforeTheEnd
<1>6. errors \in Nat /\ (errors > 0 <=> folder \in scanErrors)
  OBVIOUS
<1>7. /\ tally \in RunStats /\ tally.files = stats.files /\ tally.bytes = stats.files
      /\ tally.filesDone = stats.filesDone /\ tally.bytesDone = stats.filesDone
      /\ tally.synced = stats.synced /\ tally.failed = stats.failed + errors /\ stats.failed \in Nat
  BY <1>2, <1>5, <1>6, MoreFailures
<1>8. /\ {"partial", "preserved"} \subseteq Progress!Ends /\ {"partial", "preserved"} \cap BadKinds = {}
  BY DEF Progress!Ends, BadKinds
<1>9. CASE failures # {} \/ errors > 0
  <2>1. Progress!FolderEnds("partial", tally, counters)
    BY <1>4, <1>9
  <2>2. tally.failed # 0
    <3>1. failures \subseteq ItemsOf(outcome, folder, Progress!Failed)
      BY DEF ItemsOf, Progress!Failed
    <3>3. failures # {} => stats.failed # 0
      BY <1>1, <3>1, FailureIsCounted
    <3>2. QED BY <1>6, <1>7, <1>9, <3>3
  <2>3. tally.failed = stats.failed + (IF folder \in scanErrors THEN 1 ELSE 0)
                                  + (IF "partial" \in BadKinds THEN 1 ELSE 0)
    BY <1>7, <1>8
  <2>4. QED BY <1>1, <1>5, <1>7, <1>8, <2>1, <2>2, <2>3, FolderOver
<1>10. CASE ~(failures # {} \/ errors > 0)
  <2>1. failures = {} /\ folder \notin scanErrors /\ errors = 0
    BY <1>6, <1>10
  <2>2. stats.failed = 0 /\ NoneDropped => stats.filesDone + counters.files = stats.files
    BY <1>1, <1>5, NothingUnstored
  <2>3. CASE Progress!Verified("complete", tally, counters)
    <3>1. tally = stats
      <4>1. tally = [files |-> stats.files, bytes |-> stats.bytes, filesDone |-> stats.filesDone,
                   bytesDone |-> stats.bytesDone, synced |-> stats.synced, failed |-> stats.failed + 0]
        BY <1>2, <1>5, <2>1, StatsMove
      <4>2. stats.failed + 0 = stats.failed
        BY <1>7
      <4>3. stats = [files |-> stats.files, bytes |-> stats.bytes, filesDone |-> stats.filesDone,
                     bytesDone |-> stats.bytesDone, synced |-> stats.synced, failed |-> stats.failed]
        BY <1>5 DEF RunStats
      <4>4. QED BY <4>1, <4>2, <4>3
    <3>2. QED BY <1>1, <2>1, <2>3, <3>1, VerifiedHolds
  <2>4. CASE Progress!FolderEnds("preserved", tally, counters)
    <3>1. tally.failed = stats.failed + (IF folder \in scanErrors THEN 1 ELSE 0)
                                    + (IF "preserved" \in BadKinds THEN 1 ELSE 0)
      BY <1>7, <1>8
    <3>2. QED BY <1>1, <1>5, <1>7, <1>8, <2>2, <2>4, <3>1, FolderOver
  <2>5. QED BY <1>4, <1>10, <2>3, <2>4
<1>11. QED BY <1>9, <1>10
\* The groups of a plan divide its items.
LEMMA PlanDivides ==
  ASSUME Progress!RunAssumption, NEW items \in SUBSET Progress!Items,
         NEW kind \in [items -> WorkKinds]
  PROVE  Divides(Progress!Ordered(kind), items)
<1> DEFINE Kinds == {"repair", "pack", "migrate", "new", "modify", "forget", "delete"}
           k == Progress!Partitioned(kind)
           Part(w) == {i \in items : k[i] = w}
<1>1. k \in [items -> Kinds]
  <2>1. kind \in [items -> Kinds] /\ DOMAIN kind = items
    BY DEF Progress!RunAssumption
  <2>2. CASE k = kind
    BY <2>1, <2>2
  <2>3. CASE k = [i \in DOMAIN kind |-> IF kind[i] = "pack" THEN "new" ELSE kind[i]]
    BY <2>1, <2>3
  <2>4. QED BY <2>2, <2>3 DEF Progress!Partitioned
<1> HIDE DEF k
<1>2. \A how, w : Progress!Group(k, how, w) = Progress!Left(how, Part(w))
  BY <1>1 DEF Progress!Group
<1>3. \A w : Part(w) \in SUBSET Progress!Items
  OBVIOUS
<1>4. {"repair", "bundle", "migrate", "copy", "stage", "forget", "delete"} \subseteq Hows
  BY DEF Hows, Progress!Commands, Progress!Singles
<1>5. \A v, w : v # w => Part(v) \cap Part(w) = {}
  OBVIOUS
<1>6. /\ Part("repair") \cup Part("pack") \cup Part("migrate") \cup Part("new") \cup Part("modify")
           \cup Part("forget") \cup Part("delete") = items
  BY <1>1
<1> HIDE DEF Part
<1>7. /\ Divides(Progress!Group(k, "repair", "repair"), Part("repair"))
      /\ Divides(Progress!Group(k, "bundle", "pack"), Part("pack"))
      /\ Divides(Progress!Group(k, "migrate", "migrate"), Part("migrate"))
      /\ Divides(Progress!Group(k, "copy", "new"), Part("new"))
      /\ Divides(Progress!Group(k, "stage", "modify"), Part("modify"))
      /\ Divides(Progress!Group(k, "forget", "forget"), Part("forget"))
      /\ Divides(Progress!Group(k, "delete", "delete"), Part("delete"))
  <2>1. \A how \in Hows : \A w : Divides(Progress!Group(k, how, w), Part(w))
    BY <1>2, <1>3, WhatIsLeft
  <2>2. QED BY <1>4, <2>1
<1> DEFINE p2 == Part("repair") \cup Part("pack")  p3 == p2 \cup Part("migrate")
           p4 == p3 \cup Part("new")  p5 == p4 \cup Part("modify")  p6 == p5 \cup Part("forget")
           q2 == Progress!Group(k, "repair", "repair") \o Progress!Group(k, "bundle", "pack")
           q3 == q2 \o Progress!Group(k, "migrate", "migrate")
           q4 == q3 \o Progress!Group(k, "copy", "new")
           q5 == q4 \o Progress!Group(k, "stage", "modify")
           q6 == q5 \o Progress!Group(k, "forget", "forget")
           q7 == q6 \o Progress!Group(k, "delete", "delete")
<1>8. /\ Part("repair") \cap Part("pack") = {} /\ p2 \cap Part("migrate") = {}
      /\ p3 \cap Part("new") = {} /\ p4 \cap Part("modify") = {}
      /\ p5 \cap Part("forget") = {} /\ p6 \cap Part("delete") = {}
  BY <1>5
<1>9. Divides(q2, p2)
  BY <1>7, <1>8, JoinedTasks
<1> HIDE DEF q2, p2
<1>10. Divides(q3, p3)
  BY <1>7, <1>8, <1>9, JoinedTasks
<1> HIDE DEF q3, p3
<1>11. Divides(q4, p4)
  BY <1>7, <1>8, <1>10, JoinedTasks
<1> HIDE DEF q4, p4
<1>12. Divides(q5, p5)
  BY <1>7, <1>8, <1>11, JoinedTasks
<1> HIDE DEF q5, p5
<1>13. Divides(q6, p6)
  BY <1>7, <1>8, <1>12, JoinedTasks
<1> HIDE DEF q6, p6
<1>14. Divides(q7, p6 \cup Part("delete"))
  BY <1>7, <1>8, <1>13, JoinedTasks
<1>15. p6 \cup Part("delete") = items
  BY <1>6 DEF p2, p3, p4, p5, p6
<1>16. q7 = Progress!Ordered(kind)
  BY DEF q2, q3, q4, q5, q6, k, Progress!Ordered
<1>17. QED BY <1>14, <1>15, <1>16

LEMMA PlanHolds ==
  ASSUME Progress!RunAssumption, RunInv, Progress!PlanFolder
  PROVE  RunInv'
<1>1. /\ runPhase = "planning" /\ folder \in 1 .. RunFolders /\ runPhase' = "working"
      /\ UNCHANGED <<folder, sent, counters, ended, overall>>
  BY DEF Progress!PlanFolder, RunInv, RunTyped
<1>a. PICK items \in SUBSET Progress!Items : \E kind \in [items -> WorkKinds], broken \in BOOLEAN :
        /\ todo' = Progress!Ordered(kind)
        /\ outcome' = [i \in DOMAIN outcome |->
                        IF i[1] = folder /\ i[2] \in items THEN "queued" ELSE outcome[i]]
        /\ stats' = [stats EXCEPT !.files = @ + Progress!Cardinality(items),
                                  !.bytes = @ + Progress!Cardinality(items)]
        /\ scanErrors' = IF broken THEN scanErrors \cup {folder} ELSE scanErrors
  BY DEF Progress!PlanFolder
<1>2. PICK kind \in [items -> WorkKinds], broken \in BOOLEAN :
        /\ todo' = Progress!Ordered(kind)
        /\ outcome' = [i \in DOMAIN outcome |->
                        IF i[1] = folder /\ i[2] \in items THEN "queued" ELSE outcome[i]]
        /\ stats' = [stats EXCEPT !.files = @ + Progress!Cardinality(items),
                                  !.bytes = @ + Progress!Cardinality(items)]
        /\ scanErrors' = IF broken THEN scanErrors \cup {folder} ELSE scanErrors
  BY <1>a
<1>3. /\ stats \in RunStats /\ outcome \in [RunItems -> Outcomes] /\ RunFolders \in Nat
      /\ ended \in [1 .. RunFolders -> Progress!Ends \cup {"none"}]
      /\ scanErrors \in SUBSET (1 .. RunFolders) /\ Planned \in Nat
      /\ sent \in 0 .. Progress!Silent /\ ~(sent < Progress!Silent)
      /\ counters = Progress!Nothing
      /\ stats.filesDone = stats.files /\ stats.bytes = stats.files /\ stats.bytesDone = stats.filesDone
  BY <1>1 DEF RunInv, RunTyped, WorkInv, RestInv, Progress!RunAssumption
<1>4. /\ ended[folder] = "none" /\ folder \notin scanErrors
      /\ \A i \in Progress!Items : outcome[<<folder, i>>] = "none"
  <2>1. /\ ended[folder] = "none" /\ folder \notin scanErrors
        /\ ItemsOf(outcome, folder, Outcomes \ {"none"}) = {}
    BY <1>1 DEF RunInv, FoldersInv
  <2>2. \A i \in Progress!Items : outcome[<<folder, i>>] \in Outcomes
    BY <1>1, <1>3 DEF RunItems
  <2>3. QED BY <2>1, <2>2 DEF ItemsOf
<1>5. Cardinality(items) \in Nat /\ Progress!Cardinality(items) = Cardinality(items)
  BY SomeItems DEF Progress!Cardinality, Cardinality
<1>6. stats' = [files |-> stats.files + Cardinality(items), bytes |-> stats.bytes + Cardinality(items),
                filesDone |-> stats.filesDone, bytesDone |-> stats.bytesDone,
                synced |-> stats.synced, failed |-> stats.failed]
  <2>1. PICK n \in Nat : n = Cardinality(items)
    BY <1>5
  <2>2. stats' = [stats EXCEPT !.files = @ + n, !.bytes = @ + n]
    BY <1>2, <1>5, <2>1
  <2>3. stats' = [files |-> stats.files + n, bytes |-> stats.bytes + n, filesDone |-> stats.filesDone,
                  bytesDone |-> stats.bytesDone, synced |-> stats.synced, failed |-> stats.failed]
    BY <1>3, <2>2, StatsMove
  <2>4. QED BY <2>1, <2>3
<1>7. \A f \in 1 .. RunFolders, i \in Progress!Items :
        outcome'[<<f, i>>] = IF f = folder /\ i \in items THEN "queued" ELSE outcome[<<f, i>>]
  <2>1. \A f \in 1 .. RunFolders, i \in Progress!Items :
          <<f, i>> \in RunItems /\ <<f, i>>[1] = f /\ <<f, i>>[2] = i
    BY DEF RunItems
  <2>2. DOMAIN outcome = RunItems
    BY <1>3
  <2>3. QED BY <1>2, <2>1, <2>2
<1>8. outcome' \in [RunItems -> Outcomes]
  <2>1. DOMAIN outcome = RunItems /\ "queued" \in Outcomes
    BY <1>3 DEF Outcomes
  <2>2. QED BY <1>2, <1>3, <2>1
<1>9. /\ ItemsOf(outcome', folder, {"queued"}) = items
      /\ ItemsOf(outcome', folder, Outcomes \ {"none"}) = items
      /\ ItemsOf(outcome', folder, Progress!Settled) = {}
      /\ \A f \in 1 .. RunFolders : \A ks : f # folder => ItemsOf(outcome', f, ks) = ItemsOf(outcome, f, ks)
  <2>1. \A i \in Progress!Items : outcome'[<<folder, i>>] = IF i \in items THEN "queued" ELSE "none"
    BY <1>1, <1>4, <1>7
  <2>2. ItemsOf(outcome', folder, {"queued"}) = items
    BY <2>1 DEF ItemsOf
  <2>3. ItemsOf(outcome', folder, Outcomes \ {"none"}) = items
    BY <2>1 DEF ItemsOf, Outcomes
  <2>4. ItemsOf(outcome', folder, Progress!Settled) = {}
    BY <2>1 DEF ItemsOf, Progress!Settled
  <2>5. \A f \in 1 .. RunFolders : \A ks : f # folder => ItemsOf(outcome', f, ks) = ItemsOf(outcome, f, ks)
    BY <1>7 DEF ItemsOf
  <2>6. QED BY <2>2, <2>3, <2>4, <2>5
<1>10. /\ CountOf(outcome', {"completed"}) = CountOf(outcome, {"completed"})
       /\ CountOf(outcome', Progress!Failed) = CountOf(outcome, Progress!Failed)
  <2>1. ASSUME NEW x \in RunItems, NEW o \in {"completed"} \cup Progress!Failed
        PROVE  outcome'[x] = o <=> outcome[x] = o
    <3>1. PICK f \in 1 .. RunFolders, i \in Progress!Items : x = <<f, i>>
      BY DEF RunItems
    <3>2. QED BY <1>4, <1>7, <3>1 DEF Progress!Failed
  <2>2. \A x \in RunItems :
          /\ outcome'[x] \in {"completed"} <=> outcome[x] \in {"completed"}
          /\ outcome'[x] \in Progress!Failed <=> outcome[x] \in Progress!Failed
    BY <2>1 DEF Progress!Failed
  <2>3. QED BY <2>2, CountSame
<1>11. scanErrors' \in SUBSET (1 .. RunFolders) /\ ScansOf(scanErrors', ended) = ScansOf(scanErrors, ended)
  <2>1. scanErrors' \in SUBSET (1 .. RunFolders)
    BY <1>1, <1>2, <1>3
  <2>2. {f \in scanErrors' : ended[f] # "none"} = {f \in scanErrors : ended[f] # "none"}
    BY <1>2, <1>4
  <2>3. QED BY <2>1, <2>2 DEF ScansOf
<1>12. Divides(todo', items)
  BY <1>2, PlanDivides
<1>13. RunTyped'
  <2>1. stats' \in RunStats
    <3>1. /\ stats.files + Cardinality(items) \in Nat /\ stats.bytes + Cardinality(items) \in Nat
          /\ stats.filesDone \in Nat /\ stats.bytesDone \in Nat /\ stats.synced \in Nat
          /\ stats.failed \in Nat
      BY <1>3, <1>5 DEF RunStats
    <3>2. QED BY <1>6, <3>1 DEF RunStats
  <2>2. folder \in 1 .. RunFolders + 1
    BY <1>1, <1>3
  <2>3. counters' \in [files : Nat, bytes : Nat] /\ counters'.bytes <= counters'.files
    BY <1>1, <1>3 DEF Progress!Nothing
  <2>4. QED BY <1>1, <1>3, <1>8, <1>11, <2>1, <2>2, <2>3 DEF RunTyped
<1>14. ShownFits'
  BY <1>1 DEF RunInv, ShownFits
<1>15. WorkInv'
  <2>1. counters'.files = Cardinality(ItemsOf(outcome', folder, Progress!Settled))
    BY <1>1, <1>3, <1>9, FS_EmptySet DEF Progress!Nothing
  <2>2. /\ stats'.files = stats'.filesDone + Cardinality(items)
        /\ stats'.bytes = stats'.files /\ stats'.bytesDone = stats'.filesDone
    BY <1>3, <1>6
  <2>3. ~(sent' < Progress!Silent) /\ folder' = folder
    BY <1>1, <1>3
  <2>4. QED BY <1>1, <1>9, <1>12, <2>1, <2>2, <2>3 DEF WorkInv
<1>16. FoldersInv'
  <2>1. SUFFICES ASSUME NEW f \in 1 .. RunFolders
                 PROVE  /\ f < folder =>
                             /\ ended[f] # "none" /\ ItemsOf(outcome', f, {"queued"}) = {}
                             /\ ended[f] \in {"complete", "unchanged"} =>
                                  ItemsOf(outcome', f, {"failed"}) = {} /\ f \notin scanErrors'
                        /\ f >= folder => ended[f] = "none"
                        /\ f > folder =>
                             f \notin scanErrors' /\ ItemsOf(outcome', f, Outcomes \ {"none"}) = {}
    BY <1>1 DEF FoldersInv
  <2>2. CASE f = folder
    BY <1>3, <1>4, <2>2
  <2>3. CASE f # folder
    <3>1. f \in scanErrors' <=> f \in scanErrors
      BY <1>2, <2>3
    <3>2. \A ks : ItemsOf(outcome', f, ks) = ItemsOf(outcome, f, ks)
      BY <1>9, <2>3
    <3>3. QED BY <3>1, <3>2 DEF RunInv, FoldersInv
  <2>4. QED BY <2>2, <2>3
<1>17. RestInv'
  BY <1>1 DEF RestInv
<1>18. CountsInv'
  BY <1>1, <1>6, <1>10, <1>11 DEF RunInv, CountsInv
<1>19. QED BY <1>13, <1>14, <1>15, <1>16, <1>17, <1>18 DEF RunInv

-----------------------------------------------------------------------------
(* The other steps, and the accounts.                                      *)

LEMMA RunBounds ==
  ASSUME Progress!RunAssumption, RunInv, Progress!StartRun \/ Progress!FinishRun \/ Progress!Stop
  PROVE  RunInv'
<1>1. UNCHANGED <<folder, counters, outcome, scanErrors, ended, stats>>
  BY DEF Progress!StartRun, Progress!FinishRun, Progress!Stop
<1>2. /\ RunTyped /\ ShownFits /\ WorkInv /\ FoldersInv /\ RestInv /\ CountsInv
      /\ Progress!Silent \in 0 .. Progress!Silent /\ ~(Progress!Silent < Progress!Silent)
      /\ RunFolders \in Nat
  BY DEF RunInv, Progress!Silent, Progress!RunAssumption
<1>3. CountsInv'
  BY <1>1, <1>2 DEF CountsInv
<1>4. CASE Progress!StartRun
  <2>1. /\ runPhase = "idle" /\ runPhase' = "planning" /\ UNCHANGED <<todo, sent>>
        /\ Progress!Emitted(stats, Progress!Nothing)
    BY <1>4 DEF Progress!StartRun
  <2>2. /\ stats.filesDone = stats.files /\ stats.bytes = stats.files
        /\ stats.bytesDone = stats.filesDone /\ stats.files \in Nat
    BY <1>2, <2>1 DEF RestInv, RunTyped, RunStats
  <2>3. overall' = [files |-> stats.files, bytes |-> stats.files,
                    filesDone |-> stats.files, bytesDone |-> stats.files]
    <3>1. overall' = [files |-> stats.files, bytes |-> stats.bytes,
                      filesDone |-> stats.filesDone + 0, bytesDone |-> stats.bytesDone + 0]
      BY <2>1 DEF Progress!Emitted, Progress!Nothing
    <3>2. stats.filesDone + 0 = stats.files /\ stats.bytesDone + 0 = stats.files
      BY <2>2
    <3>3. QED BY <2>2, <3>1, <3>2
  <2>4. ShownFits'
    BY <2>2, <2>3 DEF ShownFits, RunShown
  <2>5. RestInv'
    BY <1>1, <1>2, <2>1, <2>3 DEF RestInv
  <2>6. RunTyped' /\ FoldersInv'
    BY <1>1, <1>2, <2>1 DEF RunTyped, FoldersInv
  <2>7. WorkInv'
    BY <1>2, <2>1 DEF WorkInv
  <2>8. QED BY <1>3, <2>4, <2>5, <2>6, <2>7 DEF RunInv
<1>5. CASE Progress!FinishRun
  <2>1. /\ runPhase = "planning" /\ runPhase' = "complete" /\ UNCHANGED <<todo, sent, overall>>
        /\ folder = RunFolders + 1
    BY <1>5 DEF Progress!FinishRun
  <2>2. ShownFits' /\ RestInv' /\ RunTyped'
    BY <1>1, <1>2, <2>1 DEF ShownFits, RestInv, NoneDropped, RunTyped
  <2>3. FoldersInv'
    BY <1>1, <1>2, <2>1 DEF FoldersInv
  <2>4. WorkInv'
    BY <1>2, <2>1 DEF WorkInv
  <2>5. QED BY <1>3, <2>2, <2>3, <2>4 DEF RunInv
<1>6. CASE Progress!Stop
  <2>1. /\ runPhase \in {"planning", "working"} /\ runPhase' = "stopped" /\ todo' = <<>>
        /\ sent' = Progress!Silent /\ UNCHANGED overall
    BY <1>6 DEF Progress!Stop
  <2>2. ShownFits' /\ RestInv' /\ RunTyped'
    BY <1>1, <1>2, <2>1 DEF ShownFits, RestInv, NoneDropped, RunTyped
  <2>3. FoldersInv'
    BY <1>1, <1>2, <2>1 DEF FoldersInv
  <2>4. WorkInv'
    BY <1>2, <2>1 DEF WorkInv
  <2>5. QED BY <1>3, <2>2, <2>3, <2>4 DEF RunInv
<1>7. QED BY <1>4, <1>5, <1>6

\* The accounts of a run are kept by every step of it.
LEMMA RunStep ==
  ASSUME Progress!RunAssumption, RunInv, [Progress!Next]_(Progress!progressVars)
  PROVE  RunInv'
<1>1. CASE UNCHANGED Progress!progressVars
  <2>1. UNCHANGED <<runPhase, folder, todo, sent, counters, outcome, scanErrors, ended, stats, overall>>
    BY <1>1 DEF Progress!progressVars
  <2>2. RunTyped' /\ ShownFits' /\ CountsInv'
    BY <2>1 DEF RunInv, RunTyped, ShownFits, CountsInv
  <2>3. WorkInv' /\ FoldersInv' /\ RestInv'
    BY <2>1 DEF RunInv, WorkInv, FoldersInv, RestInv, NoneDropped
  <2>4. QED BY <2>2, <2>3 DEF RunInv
<1>2. CASE Progress!Next
  BY <1>2, RunBounds, NoPlanHolds, EmptyPlanHolds, PlanHolds, ReportsHold, CommandHolds,
     CommandFailsHolds, BundleHolds, SingleHolds, MarkHolds, FinishFolderHolds DEF Progress!Next
<1>3. QED BY <1>1, <1>2

LEMMA RunIsWhole ==
  ASSUME Progress!RunAssumption, RunInv
  PROVE  Progress!RunIsAccounted
<1>1. DOMAIN outcome = RunItems
  BY DEF RunInv, RunTyped
<1>2. \A S : Progress!Cardinality(S) = Cardinality(S)
  BY DEF Progress!Cardinality, Cardinality
<1>3. Progress!CountedOnce
  <2>1. /\ Progress!Number({"completed"}) = CountOf(outcome, {"completed"})
        /\ Progress!Number(Progress!Failed) = CountOf(outcome, Progress!Failed)
    BY <1>1, <1>2 DEF Progress!Number, Progress!OfRun, CountOf
  <2>2. Progress!ScansCounted = ScansOf(scanErrors, ended)
    BY <1>2 DEF Progress!ScansCounted, ScansOf
  <2>3. Progress!BadEnds = BadOf(ended)
    BY <1>2 DEF Progress!BadEnds, BadOf, BadKinds
  <2>4. Progress!OfFolder(folder, Progress!Settled) = ItemsOf(outcome, folder, Progress!Settled)
    BY DEF Progress!OfFolder, ItemsOf
  <2>5. runPhase = "working" => counters.files = Progress!Cardinality(Progress!OfFolder(folder, Progress!Settled))
    BY <1>2, <2>4 DEF RunInv, WorkInv
  <2>6. QED BY <2>1, <2>2, <2>3, <2>5 DEF RunInv, CountsInv, Progress!CountedOnce
<1>4. Progress!AllAccountedFor
  <2>1. \A f, ks : Progress!OfFolder(f, ks) = ItemsOf(outcome, f, ks)
    BY DEF Progress!OfFolder, ItemsOf
  <2>2. RunFolders \in Nat /\ folder \in 1 .. RunFolders + 1
    BY DEF RunInv, RunTyped, Progress!RunAssumption
  <2>3. SUFFICES ASSUME NEW f \in 1 .. RunFolders, ended[f] # "none"
                 PROVE  /\ ItemsOf(outcome, f, {"queued"}) = {}
                        /\ ended[f] \in {"complete", "unchanged"} =>
                             /\ f \notin scanErrors
                             /\ \A i \in Progress!Items :
                                  outcome[<<f, i>>] \in {"none", "marked", "dropped"} \cup Progress!Settled
    BY <2>1 DEF Progress!AllAccountedFor
  <2>4. f < folder
    BY <2>2, <2>3 DEF RunInv, FoldersInv
  <2>5. /\ ItemsOf(outcome, f, {"queued"}) = {}
        /\ ended[f] \in {"complete", "unchanged"} =>
             ItemsOf(outcome, f, {"failed"}) = {} /\ f \notin scanErrors
    BY <2>3, <2>4 DEF RunInv, FoldersInv
  <2>6. \A i \in Progress!Items : outcome[<<f, i>>] \in Outcomes
    BY <2>3 DEF RunInv, RunTyped, RunItems
  <2>7. QED BY <2>5, <2>6 DEF ItemsOf, Outcomes, Progress!Settled
<1>5. Progress!ProgressFits
  <2>1. Progress!OfRun({"dropped"}) = {} => NoneDropped
    BY <1>1 DEF Progress!OfRun, NoneDropped
  <2>2. /\ overall.filesDone <= overall.files /\ overall.bytesDone <= overall.bytes
        /\ runPhase = "complete" /\ stats.failed = 0 /\ NoneDropped => overall.filesDone = stats.files
    BY DEF RunInv, ShownFits, RestInv
  <2>3. QED BY <2>1, <2>2 DEF Progress!ProgressFits
<1>6. QED BY <1>3, <1>4, <1>5 DEF Progress!RunIsAccounted

-----------------------------------------------------------------------------
(* The search: what it has been told is of machines that ran while it went on, *)
(* and of those that ran all the time it misses none that it could be told of. *)

SearchRecord == [step : {"asking", "listing", "locks", "found"}, procs : {"asked", "told", "failed"},
                 disk : {"asked", "told", "truncated", "failed"}, vmrun : {"asked", "told", "failed"},
                 paths : SUBSET Vms, hidden : Nat, candidates : SUBSET Vms, byLock : SUBSET Vms,
                 errors : BOOLEAN, status : {"none", "partial", "empty", "limited", "ready"}]

\* What is known of the machines that run.
ToldOfRunning ==
  /\ search.paths \ search.byLock \subseteq during.some
  /\ search.vmrun = "told" => during.all \subseteq search.paths
  /\ search.procs = "told" => during.all \ guarded \subseteq search.paths
  /\ search.procs = "told" /\ during.all \cap guarded # {} => search.hidden > 0

\* What is known of the disk, and the order of the questions.
ToldOfDisk ==
  /\ search.disk \in {"told", "truncated"} => inventory \subseteq search.candidates
  /\ search.disk = "told" => usual \subseteq search.candidates
  /\ search.procs # "asked" => search.disk # "asked"
  /\ search.step # "asking" => search.procs # "asked"
  /\ search.step \in {"asking", "listing"} => search.vmrun = "asked"

SearchInv ==
  /\ power \subseteq locked /\ locked \subseteq Vms /\ guarded \subseteq Vms /\ inventory \subseteq Vms
  /\ usual \subseteq Vms
  /\ search = Console!NoSearch \/ search \in SearchRecord
  /\ search # Console!NoSearch =>
       /\ ToldOfRunning /\ ToldOfDisk
       /\ search.step # "found" =>
            during.all \subseteq power /\ power \subseteq during.some /\ search.byLock = {}
       /\ search.step = "found" => Console!SearchHolds

LEMMA SearchInit ==
  ASSUME Console!SearchInit
  PROVE  SearchInv
BY DEF Console!SearchInit, SearchInv

LEMMA AtSearch ==
  ASSUME SearchInv, search.step \in {"asking", "listing", "locks"}
  PROVE  /\ search \in SearchRecord /\ ToldOfRunning /\ ToldOfDisk /\ search.byLock = {}
         /\ during.all \subseteq power /\ power \subseteq during.some /\ power \subseteq Vms
BY DEF SearchInv, Console!NoSearch

LEMMA SomeAreHidden ==
  ASSUME Console!ConsoleAssumption, power \subseteq Vms
  PROVE  /\ Console!HiddenProcesses \in Nat
         /\ power \cap guarded # {} => Console!HiddenProcesses > 0
<1>1. IsFiniteSet(Vms)
  BY DEF Console!ConsoleAssumption, Console!IsFiniteSet, IsFiniteSet
<1>2. IsFiniteSet(power \cap guarded)
  BY <1>1, FS_Subset
<1>3. Cardinality(power \cap guarded) \in Nat /\ (Cardinality(power \cap guarded) = 0 <=> power \cap guarded = {})
  BY <1>2, FS_CardinalityType, FS_EmptySet
<1>4. Console!HiddenProcesses = Cardinality(power \cap guarded)
  BY DEF Console!HiddenProcesses, Console!Cardinality, Cardinality
<1>5. QED BY <1>3, <1>4

LEMMA SwitchHolds ==
  ASSUME SearchInv, NEW v \in Vms, Console!Switch(v)
  PROVE  SearchInv'
<1>1. /\ search.step \in {"asking", "listing", "locks"}
      /\ IF v \in power THEN power' = power \ {v} /\ locked' = locked \ {v}
         ELSE power' = power \cup {v} /\ locked' = locked \cup {v}
      /\ during' = [all |-> during.all \cap power', some |-> during.some \cup power']
      /\ UNCHANGED <<guarded, inventory, usual, search>>
  BY DEF Console!Switch
<1>2. during'.all = during.all \cap power' /\ during'.some = during.some \cup power'
  BY <1>1
<1>3. ToldOfRunning' /\ ToldOfDisk'
  BY <1>1, <1>2, AtSearch DEF ToldOfRunning, ToldOfDisk
<1>4. QED BY <1>1, <1>2, <1>3, AtSearch DEF SearchInv

LEMMA DiscoverHolds ==
  ASSUME SearchInv, Console!DiscoverVMs
  PROVE  SearchInv'
<1>1. PICK u \in {[step |-> "asking", procs |-> "asked", disk |-> "asked",
                   vmrun |-> "asked", paths |-> {}, hidden |-> 0, candidates |-> {}, byLock |-> {},
                   errors |-> FALSE, status |-> "none"]} : search' = u
  BY DEF Console!DiscoverVMs
<1>2. /\ u.step = "asking" /\ u.procs = "asked" /\ u.disk = "asked" /\ u.vmrun = "asked"
      /\ u.paths = {} /\ u.byLock = {}
  OBVIOUS
<1>3. u \in SearchRecord
  <2> DEFINE nothing == {}  V == SUBSET Vms
  <2>1. nothing \in V
    OBVIOUS
  <2>2. u = [step |-> "asking", procs |-> "asked", disk |-> "asked", vmrun |-> "asked",
             paths |-> nothing, hidden |-> 0, candidates |-> nothing, byLock |-> nothing,
             errors |-> FALSE, status |-> "none"]
    OBVIOUS
  <2>3. SearchRecord = [step : {"asking", "listing", "locks", "found"}, procs : {"asked", "told", "failed"},
                 disk : {"asked", "told", "truncated", "failed"}, vmrun : {"asked", "told", "failed"},
                 paths : V, hidden : Nat, candidates : V, byLock : V,
                 errors : BOOLEAN, status : {"none", "partial", "empty", "limited", "ready"}]
    BY DEF SearchRecord
  <2> HIDE DEF nothing, V
  <2>4. QED BY <2>1, <2>2, <2>3
<1>4. during' = [all |-> power, some |-> power] /\ UNCHANGED <<power, locked, guarded, inventory, usual>>
  BY DEF Console!DiscoverVMs
<1>5. ToldOfRunning' /\ ToldOfDisk'
  BY <1>1, <1>2, <1>4 DEF ToldOfRunning, ToldOfDisk
<1>6. QED BY <1>1, <1>2, <1>3, <1>4, <1>5 DEF SearchInv

\* An answer to one of the questions.
LEMMA AnswerHolds ==
  ASSUME SearchInv, search.step \in {"asking", "listing", "locks"}, UNCHANGED Console!worldVars,
         search' \in SearchRecord, search'.step \in {"asking", "listing", "locks"},
         search'.byLock = search.byLock, ToldOfRunning', ToldOfDisk'
  PROVE  SearchInv'
<1>1. UNCHANGED <<power, locked, guarded, inventory, usual, during>>
  BY DEF Console!worldVars
<1>2. QED BY <1>1, AtSearch DEF SearchInv

LEMMA FailedRecord ==
  ASSUME NEW u \in SearchRecord, NEW t, t = Console!Failed(u)
  PROVE  /\ t \in SearchRecord /\ t.step = u.step /\ t.procs = u.procs /\ t.disk = u.disk
         /\ t.vmrun = u.vmrun /\ t.paths = u.paths /\ t.hidden = u.hidden
         /\ t.candidates = u.candidates /\ t.byLock = u.byLock
BY DEF Console!Failed, SearchRecord

LEMMA ProcessesHold ==
  ASSUME Console!ConsoleAssumption, SearchInv, Console!ProcessesListed
  PROVE  SearchInv'
<1>1. search.step = "asking" /\ search.disk # "asked" /\ UNCHANGED Console!worldVars
      /\ UNCHANGED <<power, guarded, inventory, usual, during>>
  BY DEF Console!ProcessesListed, Console!worldVars
<1>2. /\ search \in SearchRecord /\ ToldOfRunning /\ ToldOfDisk /\ search.byLock = {}
      /\ during.all \subseteq power /\ power \subseteq during.some /\ power \subseteq Vms
  BY <1>1, AtSearch
<1>3. PICK s \in {search} : s \in SearchRecord
  BY <1>2
<1>4. CASE search' = [search EXCEPT !.procs = "told", !.paths = Console!NamedByProcesses,
                                    !.hidden = Console!HiddenProcesses]
  <2> DEFINE paths == Console!NamedByProcesses
             n     == Console!HiddenProcesses
  <2>1. paths = power \ guarded /\ paths \in SUBSET Vms /\ n \in Nat /\ (power \cap guarded # {} => n > 0)
    BY <1>2, SomeAreHidden DEF Console!NamedByProcesses
  <2> HIDE DEF paths, n
  <2>2. search' = [s EXCEPT !.procs = "told", !.paths = paths, !.hidden = n]
    BY <1>3, <1>4 DEF paths, n
  <2>3. /\ search' \in SearchRecord /\ search'.step = s.step /\ search'.procs = "told"
        /\ search'.disk = s.disk /\ search'.vmrun = s.vmrun /\ search'.paths = paths
        /\ search'.hidden = n /\ search'.candidates = s.candidates /\ search'.byLock = s.byLock
    BY <1>3, <2>1, <2>2 DEF SearchRecord
  <2>4. ToldOfRunning'
    BY <1>1, <1>2, <2>1, <2>3 DEF ToldOfRunning, ToldOfDisk
  <2>5. ToldOfDisk'
    BY <1>1, <1>2, <2>3 DEF ToldOfDisk
  <2>6. QED BY <1>1, <2>3, <2>4, <2>5, AnswerHolds
<1>5. CASE search' = Console!Failed([search EXCEPT !.procs = "failed"])
  <2>1. PICK u \in {[s EXCEPT !.procs = "failed"]} : search' = Console!Failed(u)
    BY <1>3, <1>5
  <2>2. /\ u \in SearchRecord /\ u.step = s.step /\ u.procs = "failed" /\ u.disk = s.disk
        /\ u.vmrun = s.vmrun /\ u.paths = s.paths /\ u.hidden = s.hidden
        /\ u.candidates = s.candidates /\ u.byLock = s.byLock
    BY <1>3, <2>1 DEF SearchRecord
  <2>3. /\ search' \in SearchRecord /\ search'.step = s.step /\ search'.procs = "failed"
        /\ search'.disk = s.disk /\ search'.vmrun = s.vmrun /\ search'.paths = s.paths
        /\ search'.hidden = s.hidden /\ search'.candidates = s.candidates /\ search'.byLock = s.byLock
    BY <2>1, <2>2, FailedRecord
  <2>4. ToldOfRunning'
    BY <1>1, <1>2, <2>3 DEF ToldOfRunning, ToldOfDisk
  <2>5. ToldOfDisk'
    BY <1>1, <1>2, <2>3 DEF ToldOfDisk
  <2>6. QED BY <1>1, <2>3, <2>4, <2>5, AnswerHolds
<1>6. QED BY <1>4, <1>5 DEF Console!ProcessesListed

LEMMA DiskHolds ==
  ASSUME SearchInv, Console!DiskRead
  PROVE  SearchInv'
<1>1. search.step = "asking" /\ search.disk = "asked" /\ UNCHANGED Console!worldVars
      /\ UNCHANGED <<power, guarded, inventory, usual, during>>
  BY DEF Console!DiskRead, Console!worldVars
<1>2. search \in SearchRecord /\ ToldOfRunning /\ ToldOfDisk
  BY <1>1, AtSearch
<1>3. PICK s \in {search} : s \in SearchRecord
  BY <1>2
<1>4. PICK told \in {"told", "truncated", "failed"}, found \in {inventory \cup usual, inventory, usual} :
        /\ told \in {"told", "truncated"} => inventory \subseteq found
        /\ told = "told" => usual \subseteq found
        /\ \/ search' = [s EXCEPT !.disk = told, !.candidates = found]
           \/ search' = Console!Failed([s EXCEPT !.disk = told, !.candidates = found])
  BY <1>3 DEF Console!DiskRead
<1>5. found \in SUBSET Vms
  BY <1>4 DEF SearchInv
<1>6. PICK u \in {[s EXCEPT !.disk = told, !.candidates = found]} :
        search' = u \/ search' = Console!Failed(u)
  BY <1>4
<1>7. /\ u \in SearchRecord /\ u.step = s.step /\ u.procs = s.procs /\ u.disk = told
      /\ u.vmrun = s.vmrun /\ u.paths = s.paths /\ u.hidden = s.hidden
      /\ u.candidates = found /\ u.byLock = s.byLock
  BY <1>3, <1>4, <1>5, <1>6 DEF SearchRecord
<1>8. /\ search' \in SearchRecord /\ search'.step = s.step /\ search'.procs = s.procs
      /\ search'.disk = told /\ search'.vmrun = s.vmrun /\ search'.paths = s.paths
      /\ search'.hidden = s.hidden /\ search'.candidates = found /\ search'.byLock = s.byLock
  BY <1>6, <1>7, FailedRecord
<1>9. ToldOfRunning'
  BY <1>1, <1>2, <1>8 DEF ToldOfRunning
<1>10. ToldOfDisk'
  BY <1>1, <1>2, <1>4, <1>8 DEF ToldOfDisk
<1>11. QED BY <1>1, <1>8, <1>9, <1>10, AnswerHolds

LEMMA VmrunHolds ==
  ASSUME SearchInv, Console!VmrunFound \/ Console!VmrunListed
  PROVE  SearchInv'
<1>1. search.step \in {"asking", "listing"} /\ UNCHANGED Console!worldVars
      /\ UNCHANGED <<power, guarded, inventory, usual, during>>
  BY DEF Console!VmrunFound, Console!VmrunListed, Console!worldVars
<1>2. /\ search \in SearchRecord /\ ToldOfRunning /\ ToldOfDisk /\ search.byLock = {}
      /\ during.all \subseteq power /\ power \subseteq during.some /\ power \subseteq Vms
  BY <1>1, AtSearch
<1>3. PICK s \in {search} : s \in SearchRecord
  BY <1>2
<1>4. CASE Console!VmrunFound
  <2>1. PICK next \in {"listing", "locks"} : search' = [s EXCEPT !.step = next]
    BY <1>3, <1>4 DEF Console!VmrunFound
  <2>2. /\ search' \in SearchRecord /\ search'.step = next /\ search'.procs = s.procs
        /\ search'.disk = s.disk /\ search'.vmrun = s.vmrun /\ search'.paths = s.paths
        /\ search'.hidden = s.hidden /\ search'.candidates = s.candidates /\ search'.byLock = s.byLock
    BY <1>3, <2>1 DEF SearchRecord
  <2>3. ToldOfRunning' /\ ToldOfDisk'
    BY <1>1, <1>2, <1>4, <2>2 DEF ToldOfRunning, ToldOfDisk, Console!VmrunFound
  <2>4. QED BY <1>1, <2>2, <2>3, AnswerHolds
<1>5. CASE search' = [search EXCEPT !.step = "locks", !.vmrun = "told", !.paths = @ \cup power]
           /\ search.step = "listing"
  <2>1. PICK paths \in {s.paths \cup power} : paths \in SUBSET Vms
    BY <1>2, <1>3 DEF SearchRecord
  <2>2. search' = [s EXCEPT !.step = "locks", !.vmrun = "told", !.paths = paths]
    BY <1>3, <1>5, <2>1
  <2>3. /\ search' \in SearchRecord /\ search'.step = "locks" /\ search'.procs = s.procs
        /\ search'.disk = s.disk /\ search'.vmrun = "told" /\ search'.paths = paths
        /\ search'.hidden = s.hidden /\ search'.candidates = s.candidates /\ search'.byLock = s.byLock
    BY <1>3, <2>1, <2>2 DEF SearchRecord
  <2>4. paths = search.paths \cup power
    BY <1>3, <2>1
  <2>5. ToldOfRunning' /\ ToldOfDisk'
    BY <1>1, <1>2, <1>5, <2>3, <2>4 DEF ToldOfRunning, ToldOfDisk
  <2>6. QED BY <1>1, <2>3, <2>5, AnswerHolds
<1>6. CASE search' = Console!Failed([search EXCEPT !.vmrun = "failed", !.step = "locks"])
           /\ search.step = "listing"
  <2>1. PICK u \in {[s EXCEPT !.vmrun = "failed", !.step = "locks"]} : search' = Console!Failed(u)
    BY <1>3, <1>6
  <2>2. /\ u \in SearchRecord /\ u.step = "locks" /\ u.procs = s.procs /\ u.disk = s.disk
        /\ u.vmrun = "failed" /\ u.paths = s.paths /\ u.hidden = s.hidden
        /\ u.candidates = s.candidates /\ u.byLock = s.byLock
    BY <1>3, <2>1 DEF SearchRecord
  <2>3. /\ search' \in SearchRecord /\ search'.step = "locks" /\ search'.procs = s.procs
        /\ search'.disk = s.disk /\ search'.vmrun = "failed" /\ search'.paths = s.paths
        /\ search'.hidden = s.hidden /\ search'.candidates = s.candidates /\ search'.byLock = s.byLock
    BY <2>1, <2>2, FailedRecord
  <2>4. ToldOfRunning' /\ ToldOfDisk'
    BY <1>1, <1>2, <1>6, <2>3 DEF ToldOfRunning, ToldOfDisk
  <2>5. QED BY <1>1, <2>3, <2>4, AnswerHolds
<1>7. QED BY <1>4, <1>5, <1>6 DEF Console!VmrunListed

\* The locks are read: what runs behind a hidden process and is known has one.
LEMMA LocksHold ==
  ASSUME SearchInv, Console!LocksRead
  PROVE  SearchInv'
<1>1. search.step = "locks" /\ UNCHANGED <<power, locked, guarded, inventory, usual, during>>
  BY DEF Console!LocksRead, Console!worldVars
<1>2. /\ search \in SearchRecord /\ ToldOfRunning /\ ToldOfDisk /\ search.byLock = {}
      /\ during.all \subseteq power /\ power \subseteq during.some /\ power \subseteq locked
  BY <1>1, AtSearch DEF SearchInv
<1>3. PICK s \in {search} : s \in SearchRecord
  BY <1>2
<1> DEFINE merged == s.paths \cup s.candidates
           byLock == IF s.hidden > 0 THEN (merged \ s.paths) \cap locked ELSE {}
           paths  == s.paths \cup byLock
           status == Console!BuildStatus
<1>4. merged \in SUBSET Vms /\ byLock \in SUBSET Vms /\ paths \in SUBSET Vms
      /\ status \in {"none", "partial", "empty", "limited", "ready"}
  BY <1>3 DEF SearchRecord, Console!BuildStatus
<1>5. search' = [s EXCEPT !.step = "found", !.candidates = merged, !.byLock = byLock,
                          !.paths = paths, !.status = status]
  BY <1>3 DEF Console!LocksRead, Console!Merged, Console!ByLock
<1>6. /\ paths \ byLock \subseteq s.paths /\ s.paths \subseteq paths
      /\ s.candidates \subseteq merged
      /\ s.hidden > 0 => s.candidates \cap locked \subseteq paths
  OBVIOUS
<1> HIDE DEF merged, byLock, paths, status
<1>7. /\ search' \in SearchRecord /\ search'.step = "found" /\ search'.procs = s.procs
      /\ search'.disk = s.disk /\ search'.vmrun = s.vmrun /\ search'.paths = paths
      /\ search'.hidden = s.hidden /\ search'.candidates = merged /\ search'.byLock = byLock
  BY <1>3, <1>4, <1>5 DEF SearchRecord
<1>8. ToldOfRunning'
  BY <1>1, <1>2, <1>3, <1>6, <1>7 DEF ToldOfRunning
<1>9. ToldOfDisk'
  BY <1>1, <1>2, <1>3, <1>6, <1>7 DEF ToldOfDisk
<1>10. search.procs = "told" /\ search.disk # "failed" => during.all \cap inventory \subseteq paths
  <2>1. SUFFICES ASSUME search.procs = "told", search.disk # "failed", NEW x \in during.all \cap inventory
                 PROVE  x \in paths
    OBVIOUS
  <2>2. CASE x \notin guarded
    BY <1>2, <1>3, <1>6, <2>1, <2>2 DEF ToldOfRunning
  <2>3. CASE x \in guarded
    <3>1. search.hidden > 0 /\ search.disk \in {"told", "truncated"}
      BY <1>2, <2>1, <2>3 DEF ToldOfRunning, ToldOfDisk, SearchRecord
    <3>2. x \in search.candidates /\ x \in locked
      BY <1>2, <2>1, <3>1 DEF ToldOfDisk
    <3>3. QED BY <1>3, <1>6, <3>1, <3>2
  <2>4. QED BY <2>2, <2>3
<1>11. Console!SearchHolds'
  BY <1>1, <1>3, <1>7, <1>8, <1>9, <1>10 DEF Console!SearchHolds, ToldOfRunning, ToldOfDisk
<1>12. QED BY <1>1, <1>7, <1>8, <1>9, <1>11 DEF SearchInv

LEMMA SearchStepHolds ==
  ASSUME Console!ConsoleAssumption, SearchInv, [Console!SearchStep]_(Console!searchVars)
  PROVE  SearchInv'
<1>1. CASE UNCHANGED Console!searchVars
  BY <1>1 DEF Console!searchVars, SearchInv, ToldOfRunning, ToldOfDisk, Console!SearchHolds
<1>2. QED BY <1>1, SwitchHolds, DiscoverHolds, ProcessesHold, DiskHolds, VmrunHolds, LocksHold
             DEF Console!SearchStep

LEMMA SearchHoldsNow == SearchInv => Console!SearchHolds
BY DEF SearchInv, Console!SearchHolds, Console!NoSearch

-----------------------------------------------------------------------------
(* VmConsole.  What is on its way to the page was so when it was read, and is  *)
(* so still unless something changed later, with a message or without one.     *)

Gone   == {i \in Invites : invited[i] = "gone"}
Making == op.kind \in {"create", "deploy"}

\* What was read at a turn is latest if nothing changed after it.
IsLatest(at) == at >= sentAt /\ at >= unsaidAt

Told(m, at) ==
  /\ at \in Nat /\ at <= turn /\ DOMAIN m.guests \subseteq Gone
  /\ m = [on |-> m.on, waiting |-> m.waiting, guests |-> m.guests, wall |-> m.wall, backup |-> m.backup]
  /\ IsLatest(at) => m = Console!Shown

\* What the firewall's script makes wait is a state that is not yet formatted.
RawTold(raw) ==
  /\ raw.at \in Nat /\ raw.at <= turn /\ DOMAIN raw.guests \subseteq Gone
  /\ IsLatest(raw.at) => /\ raw.on = Console!RawState.on /\ raw.waiting = Console!RawState.waiting
                       /\ raw.guests = Console!RawState.guests

TurnsInv ==
  /\ invited \in [Invites -> {"new", "invited", "pending", "approved", "rejected", "gone"}]
  /\ guests \subseteq Gone
  /\ turn \in Nat /\ sentAt \in 0 .. turn /\ unsaidAt \in 0 .. turn

MessagesInv ==
  /\ wire \in Seq({wire[i] : i \in DOMAIN wire})
  /\ \A i \in DOMAIN wire : Told(wire[i].view, wire[i].at)
  /\ held = [q \in Questions |-> held[q]]
  /\ \A q \in Questions : held[q] # <<>> => Told(Head(held[q]).view, Head(held[q]).at)
  /\ Told(page, shownAt)

\* What the page has asked for: the helper of a new invitation, or an answer.
OpInv ==
  /\ op.kind \in {"none", "toggle", "start", "reload", "firewall", "answer", "create", "deploy",
                  "respond", "forget"}
  /\ op.kind = "forget" => op.invite \in Gone /\ (op.gone => op.invite \notin guests)
  /\ Making => /\ op.invite \in Invites
               /\ op.step \in {"ensure", "ensured", "enroll"} => invited[op.invite] = "new"

OpTold ==
  /\ op.kind = "firewall" => RawTold(op.raw)
  /\ op.kind = "answer" \/ (Making /\ op.step = "ensured") => Told(op.told.view, op.told.at)

\* A batch that arrives during a backup leaves its guest behind.
BackupInv ==
  /\ staged \in [Invites -> {"nothing", "batch", "backup"}]
  /\ backing \in [Invites -> {"no", "running", "late", "done"}]
  /\ \A g \in Invites : staged[g] = "backup" /\ g \notin behind => g \in safe
  /\ \A g \in Invites : backing[g] = "late" => g \in behind

ConsoleInv ==
  /\ TurnsInv /\ MessagesInv /\ OpInv /\ OpTold /\ BackupInv
  /\ Console!WallIsOpen /\ Console!InvitedHasHelper

-----------------------------------------------------------------------------
(* Messages. *)

LEMMA ShownIs ==
  /\ Console!Shown = [on |-> Console!Shown.on, waiting |-> Console!Shown.waiting,
                      guests |-> Console!Shown.guests, wall |-> Console!Shown.wall,
                      backup |-> Console!Shown.backup]
  /\ DOMAIN Console!Shown.guests = guests
  /\ Console!Shown.guests = [g \in guests |-> g \in heard]
  /\ Console!Shown.backup = [g \in guests |-> Console!BackupStatus(g)]
  /\ Console!Message(Console!RawState, wall).view = Console!Shown
  /\ Console!Message(Console!RawState, wall).at = turn
BY DEF Console!Shown, Console!Format, Console!RawState, Console!Message

\* What is read now is told as it is.
LEMMA NowTold == ASSUME TurnsInv PROVE Told(Console!Shown, turn)
BY ShownIs DEF TurnsInv, Told

LEMMA SeqOfItsOwn ==
  ASSUME NEW T, NEW s \in Seq(T)
  PROVE  s \in Seq({s[i] : i \in DOMAIN s})
<1>1. s = [i \in 1 .. Len(s) |-> s[i]] /\ DOMAIN s = 1 .. Len(s) /\ Len(s) \in Nat
  OBVIOUS
<1> DEFINE S == {s[i] : i \in DOMAIN s}
<1>2. \A i \in 1 .. Len(s) : s[i] \in S
  BY <1>1
<1> HIDE DEF S
<1>3. s \in Seq(S)
  BY <1>1, <1>2
<1>4. QED BY <1>3 DEF S

LEMMA WireGrows ==
  ASSUME wire \in Seq({wire[i] : i \in DOMAIN wire}), NEW m, wire' = Append(wire, m)
  PROVE  /\ wire' \in Seq({wire'[i] : i \in DOMAIN wire'})
         /\ \A i \in DOMAIN wire' : wire'[i] = m \/ (i \in DOMAIN wire /\ wire'[i] = wire[i])
<1> DEFINE T == {wire[i] : i \in DOMAIN wire} \cup {m}
<1>1. wire \in Seq(T) /\ m \in T
  OBVIOUS
<1> HIDE DEF T
<1>2. wire' \in Seq(T)
  BY <1>1
<1>3. \A i \in DOMAIN wire' : wire'[i] = m \/ (i \in DOMAIN wire /\ wire'[i] = wire[i])
  BY <1>1
<1>4. QED BY <1>2, <1>3, SeqOfItsOwn

LEMMA WireShrinks ==
  ASSUME wire \in Seq({wire[i] : i \in DOMAIN wire}), wire # <<>>, wire' = Tail(wire)
  PROVE  /\ wire' \in Seq({wire'[i] : i \in DOMAIN wire'})
         /\ \A i \in DOMAIN wire' : i + 1 \in DOMAIN wire /\ wire'[i] = wire[i + 1]
         /\ 1 \in DOMAIN wire /\ Head(wire) = wire[1]
<1> DEFINE T == {wire[i] : i \in DOMAIN wire}
<1>1. wire \in Seq(T)
  OBVIOUS
<1> HIDE DEF T
<1>2. wire' \in Seq(T) /\ 1 \in DOMAIN wire /\ Head(wire) = wire[1]
  BY <1>1
<1>3. \A i \in DOMAIN wire' : i + 1 \in DOMAIN wire /\ wire'[i] = wire[i + 1]
  BY <1>1
<1>4. PICK w \in {wire'} : w \in Seq(T)
  BY <1>2
<1>5. w \in Seq({w[i] : i \in DOMAIN w})
  BY <1>4, SeqOfItsOwn
<1>6. wire' \in Seq({wire'[i] : i \in DOMAIN wire'})
  BY <1>4, <1>5
<1>7. QED BY <1>2, <1>3, <1>6

\* A change, with a message or without: what was told before is not the latest, and a
\* message says how it is now.
LEMMA ChangeTold ==
  ASSUME TurnsInv, MessagesInv, TurnsInv', turn' = turn + 1, sentAt' = turn' \/ unsaidAt' = turn',
         Gone \subseteq Gone', UNCHANGED <<held, page, shownAt>>,
         NEW m, Told(m.view, m.at)', wire' \in {wire, Append(wire, m)}
  PROVE  MessagesInv' /\ (op' = op /\ OpTold => OpTold')
<1>1. \A v, at : Told(v, at) => Told(v, at)'
  BY DEF TurnsInv, Told, IsLatest
<1>2. \A raw : RawTold(raw) => RawTold(raw)'
  BY DEF TurnsInv, RawTold, IsLatest
<1>3. Told(page, shownAt)'
  BY DEF MessagesInv, TurnsInv, Told, IsLatest
<1>4. \A q \in Questions : held'[q] # <<>> => Told(Head(held[q]).view, Head(held[q]).at)'
  BY DEF MessagesInv, TurnsInv, Told, IsLatest
<1>5. wire' \in Seq({wire'[i] : i \in DOMAIN wire'}) /\ \A i \in DOMAIN wire' : Told(wire[i].view, wire[i].at)'
  <2>1. CASE wire' = wire
    BY <2>1 DEF MessagesInv, TurnsInv, Told, IsLatest
  <2>2. CASE wire' = Append(wire, m)
    <3>1. /\ wire' \in Seq({wire'[i] : i \in DOMAIN wire'})
          /\ \A i \in DOMAIN wire' : wire'[i] = m \/ (i \in DOMAIN wire /\ wire'[i] = wire[i])
      BY <2>2, WireGrows DEF MessagesInv
    <3>2. \A i \in DOMAIN wire' : \E v \in {wire'[i]} : Told(v.view, v.at)'
      BY <1>1, <3>1 DEF MessagesInv
    <3>3. QED BY <3>1, <3>2 DEF Told
  <2>3. QED BY <2>1, <2>2
<1>6. op' = op /\ OpTold => OpTold'
  <2>1. SUFFICES ASSUME op' = op, OpTold PROVE OpTold'
    OBVIOUS
  <2>2. PICK o \in {op} : TRUE
    OBVIOUS
  <2>3. o.kind = "firewall" => RawTold(o.raw)'
    BY <1>2, <2>1, <2>2 DEF OpTold
  <2>4. o.kind = "answer" \/ (o.kind \in {"create", "deploy"} /\ o.step = "ensured") => Told(o.told.view, o.told.at)'
    BY <1>1, <2>1, <2>2 DEF OpTold, Making
  <2>5. QED BY <2>1, <2>2, <2>3, <2>4 DEF OpTold, Making
<1>7. QED BY <1>3, <1>4, <1>5, <1>6 DEF MessagesInv

Stages == {"new", "invited", "pending", "approved", "rejected", "gone"}

LEMMA TurnsMove ==
  ASSUME TurnsInv, Console!Changed, Console!EmitState \/ Console!Unsaid,
         invited' \in [Invites -> Stages], guests' \subseteq Gone'
  PROVE  /\ TurnsInv' /\ turn' = turn + 1
         /\ sentAt' = turn' \/ unsaidAt' = turn'
BY DEF TurnsInv, Console!Changed, Console!EmitState, Console!Unsaid, Stages

\* A message says how it is now.
LEMMA HostTells ==
  ASSUME TurnsInv', Console!EmitState \/ Console!Unsaid
  PROVE  \E m : /\ Told(m.view, m.at)' /\ wire' \in {wire, Append(wire, m)}
                /\ m = Console!Message(Console!RawState, wall)'
<1>1. PICK m \in {Console!Message(Console!RawState, wall)'} : TRUE
  OBVIOUS
<1>2. PICK v \in {Console!Shown'} : TRUE
  OBVIOUS
<1>3. m.view = v /\ m.at = turn'
  BY <1>1, <1>2 DEF Console!Message, Console!Shown, Console!RawState
<1>4. /\ v = [on |-> v.on, waiting |-> v.waiting, guests |-> v.guests, wall |-> v.wall, backup |-> v.backup]
      /\ v.guests = Console!RawState.guests'
  BY <1>2 DEF Console!Shown, Console!Format
<1>5. DOMAIN v.guests = guests'
  BY <1>4 DEF Console!RawState
<1>6. DOMAIN v.guests \subseteq Gone' /\ turn' \in Nat
  BY <1>5 DEF TurnsInv
<1>7. v = Console!Shown'
  BY <1>2
<1>8. Told(m.view, m.at)'
  BY <1>3, <1>4, <1>6, <1>7 DEF Told
<1>9. wire' \in {wire, Append(wire, m)}
  BY <1>1 DEF Console!EmitState, Console!Unsaid
<1>10. QED BY <1>1, <1>8, <1>9

LEMMA ChangeHeard ==
  ASSUME TurnsInv, MessagesInv, TurnsInv', turn' = turn + 1, sentAt' = turn' \/ unsaidAt' = turn',
         Gone \subseteq Gone', UNCHANGED <<held, page, shownAt>>, Console!EmitState \/ Console!Unsaid
  PROVE  MessagesInv' /\ (op' = op /\ OpTold => OpTold')
<1>1. PICK m : Told(m.view, m.at)' /\ wire' \in {wire, Append(wire, m)}
  BY HostTells
<1>2. QED BY <1>1, ChangeTold

-----------------------------------------------------------------------------
(* What the receiver does by itself. *)

\* But for the invitation that is being made, every one that waits has a helper.
AllHelped == Console!Waiting \subseteq helperAt \cup unwritten

LEMMA HelpedUnlessMaking ==
  ASSUME OpInv, Console!InvitedHasHelper, ~(Making /\ op.step \notin {"ensure", "ensured", "enroll"})
  PROVE  AllHelped
<1>1. CASE ~Making
  BY <1>1 DEF Console!InvitedHasHelper, AllHelped, Making
<1>2. CASE Making
  <2>1. invited[op.invite] = "new"
    BY <1>2 DEF OpInv
  <2>2. op.invite \notin Console!Waiting
    BY <2>1 DEF Console!Waiting
  <2>3. QED BY <2>2 DEF Console!InvitedHasHelper, AllHelped
<1>3. QED BY <1>1, <1>2

LEMMA HelpedIsEnough == AllHelped' => Console!InvitedHasHelper'
BY DEF AllHelped, Console!InvitedHasHelper

LEMMA HostMoves ==
  ASSUME ConsoleInv, Console!Changed, Console!EmitState \/ Console!Unsaid,
         UNCHANGED <<op, held, page, shownAt>>, UNCHANGED <<wall, rule, helperAt, unwritten>>,
         invited' \in [Invites -> Stages], guests' \subseteq Gone', Gone \subseteq Gone',
         \A i \in Invites : invited[i] = "new" => invited'[i] = "new",
         (guests' \ guests) \cap Gone = {}, Console!Waiting' \subseteq Console!Waiting, BackupInv'
  PROVE  ConsoleInv'
<1>1. TurnsInv' /\ turn' = turn + 1 /\ (sentAt' = turn' \/ unsaidAt' = turn')
  BY TurnsMove DEF ConsoleInv
<1>2. MessagesInv' /\ OpTold'
  BY <1>1, ChangeHeard DEF ConsoleInv
<1>3. PICK o \in {op} : TRUE
  OBVIOUS
<1>4. OpInv'
  BY <1>3 DEF ConsoleInv, OpInv, Making
<1>5. Console!InvitedHasHelper'
  BY <1>3 DEF ConsoleInv, Console!InvitedHasHelper
<1>6. Console!WallIsOpen'
  BY DEF ConsoleInv, Console!WallIsOpen
<1>7. QED BY <1>1, <1>2, <1>4, <1>5, <1>6 DEF ConsoleInv

\* The lists stay, or a guest is heard of or falls silent.
LEMMA ListsStay ==
  ASSUME TurnsInv, UNCHANGED <<invited, guests>>
  PROVE  /\ invited' \in [Invites -> Stages] /\ guests' \subseteq Gone' /\ Gone \subseteq Gone'
         /\ \A i \in Invites : invited[i] = "new" => invited'[i] = "new"
         /\ (guests' \ guests) \cap Gone = {} /\ Console!Waiting' \subseteq Console!Waiting
BY DEF TurnsInv, Stages, Gone, Console!Waiting

LEMMA HeardHolds ==
  ASSUME ConsoleInv, NEW g \in Invites, Console!Heartbeat(g) \/ Console!Silence(g)
  PROVE  ConsoleInv'
<1>1. UNCHANGED <<invited, guests, wall, rule, helperAt, unwritten>>
      /\ UNCHANGED <<staged, backing, failing, safe, behind>>
  BY DEF Console!Heartbeat, Console!Silence, Console!backupVars
<1>2. UNCHANGED <<op, held, page, shownAt>> /\ Console!Changed /\ (Console!EmitState \/ Console!Unsaid)
  BY DEF Console!Heartbeat, Console!Silence, Console!pageVars
<1>3. BackupInv'
  BY <1>1 DEF ConsoleInv, BackupInv
<1>4. QED BY <1>1, <1>2, <1>3, ListsStay, HostMoves DEF ConsoleInv

LEMMA InvitationEnds ==
  ASSUME ConsoleInv, NEW i \in Invites, Console!AskToPair(i) \/ Console!Expire(i)
  PROVE  ConsoleInv'
<1>1. UNCHANGED <<wall, rule, helperAt, unwritten>> /\ UNCHANGED <<staged, backing, failing, safe, behind>>
  BY DEF Console!AskToPair, Console!Expire, Console!backupVars
<1>2. UNCHANGED <<op, held, page, shownAt>> /\ Console!Changed /\ (Console!EmitState \/ Console!Unsaid)
  BY DEF Console!AskToPair, Console!Expire, Console!pageVars
<1>3. BackupInv'
  BY <1>1 DEF ConsoleInv, BackupInv
<1>4. PICK s \in {"pending", "gone"} :
        /\ invited' = [invited EXCEPT ![i] = s] /\ invited[i] \in Stages \ {"new", "gone"}
        /\ invited[i] = "rejected" => s = "gone"
        /\ guests' \in {guests, guests \cup {i}} /\ (i \in guests' \ guests => s = "gone")
  BY DEF Console!AskToPair, Console!Expire, Console!Waiting, Stages, ConsoleInv, TurnsInv
<1>5. invited \in [Invites -> Stages] /\ guests \subseteq Gone
  BY DEF ConsoleInv, TurnsInv, Stages
<1>6. /\ invited' \in [Invites -> Stages] /\ invited'[i] = s
      /\ \A j \in Invites \ {i} : invited'[j] = invited[j]
  BY <1>4, <1>5 DEF Stages
<1>7. /\ guests' \subseteq Gone' /\ Gone \subseteq Gone'
      /\ \A j \in Invites : invited[j] = "new" => invited'[j] = "new"
      /\ (guests' \ guests) \cap Gone = {} /\ Console!Waiting' \subseteq Console!Waiting
  BY <1>4, <1>5, <1>6 DEF Gone, Console!Waiting, Stages
<1>8. QED BY <1>1, <1>2, <1>3, <1>6, <1>7, HostMoves

\* A batch that arrives during a backup is history of it at once.
LEMMA BatchHolds ==
  ASSUME ConsoleInv, NEW g \in Invites, Console!CommitBatch(g)
  PROVE  ConsoleInv'
<1>1. UNCHANGED <<invited, guests, wall, rule, helperAt, unwritten>>
  BY DEF Console!CommitBatch
<1>2. UNCHANGED <<op, held, page, shownAt>> /\ Console!Changed /\ (Console!EmitState \/ Console!Unsaid)
  BY DEF Console!CommitBatch, Console!pageVars
<1>3. PICK b \in {"no", "running", "late", "done"} :
        backing' = [backing EXCEPT ![g] = b] /\ (b = "late" => g \in behind')
  BY DEF Console!CommitBatch, ConsoleInv, BackupInv
<1>4. /\ staged' = [staged EXCEPT ![g] = "batch"] /\ behind \subseteq behind' /\ safe' = safe \ {g}
      /\ behind' \subseteq behind \cup {g}
  BY DEF Console!CommitBatch
<1>5. /\ staged' \in [Invites -> {"nothing", "batch", "backup"}] /\ staged'[g] = "batch"
      /\ \A h \in Invites \ {g} : staged'[h] = staged[h] /\ backing'[h] = backing[h]
      /\ backing' \in [Invites -> {"no", "running", "late", "done"}] /\ backing'[g] = b
  BY <1>3, <1>4 DEF ConsoleInv, BackupInv
<1>6. BackupInv'
  BY <1>3, <1>4, <1>5 DEF ConsoleInv, BackupInv
<1>7. QED BY <1>1, <1>2, <1>6, ListsStay, HostMoves DEF ConsoleInv

\* A folder that ended well is safe if no batch was late.
LEMMA FolderHolds ==
  ASSUME ConsoleInv, NEW g \in Invites, Console!FolderEnds(g)
  PROVE  ConsoleInv'
<1>1. UNCHANGED <<invited, guests, wall, rule, helperAt, unwritten>>
  BY DEF Console!FolderEnds, Console!receiverVars
<1>2. UNCHANGED <<op, held, page, shownAt>> /\ Console!Changed /\ (Console!EmitState \/ Console!Unsaid)
  BY DEF Console!FolderEnds, Console!pageVars
<1>3. /\ backing' = [backing EXCEPT ![g] = "done"] /\ backing[g] \in {"running", "late"}
      /\ staged' = staged \/ staged' = [staged EXCEPT ![g] = "backup"]
      /\ \/ staged' = staged /\ UNCHANGED <<safe, behind>>
         \/ backing[g] = "late" /\ UNCHANGED <<safe, behind>>
         \/ safe' = safe \cup {g} /\ behind' = behind \ {g}
  BY DEF Console!FolderEnds
<1>4. /\ staged' \in [Invites -> {"nothing", "batch", "backup"}]
      /\ \A h \in Invites \ {g} : staged'[h] = staged[h] /\ backing'[h] = backing[h]
      /\ backing' \in [Invites -> {"no", "running", "late", "done"}] /\ backing'[g] = "done"
  BY <1>3 DEF ConsoleInv, BackupInv
<1>5. BackupInv'
  BY <1>3, <1>4 DEF ConsoleInv, BackupInv
<1>6. QED BY <1>1, <1>2, <1>5, ListsStay, HostMoves DEF ConsoleInv

-----------------------------------------------------------------------------
(* What leaves the receiver as it is. *)

seenVars == <<receiver, invited, guests, heard, wall, rule, staged, failing, turn, sentAt, unsaidAt>>

LEMMA SeenStays ==
  ASSUME ConsoleInv, UNCHANGED seenVars
  PROVE  /\ TurnsInv' /\ Console!WallIsOpen' /\ Gone' = Gone /\ Console!Waiting' = Console!Waiting
         /\ \A v, at : Told(v, at) => Told(v, at)'
         /\ \A raw : RawTold(raw) => RawTold(raw)'
<1>1. UNCHANGED <<receiver, invited, guests, heard>> /\ UNCHANGED <<staged, failing>>
      /\ UNCHANGED <<wall, rule>> /\ UNCHANGED <<turn, sentAt, unsaidAt>>
  BY DEF seenVars
<1>2. Gone' = Gone /\ Console!Waiting' = Console!Waiting
  BY <1>1 DEF Gone, Console!Waiting
<1>3. TurnsInv'
  BY <1>1, <1>2 DEF ConsoleInv, TurnsInv
<1>4. Console!WallIsOpen'
  BY <1>1 DEF ConsoleInv, Console!WallIsOpen
<1>5. Console!RawState' = Console!RawState
  BY <1>1, <1>2 DEF Console!RawState
<1>6. \A g : Console!BackupStatus(g)' = Console!BackupStatus(g)
  BY <1>1 DEF Console!BackupStatus
<1>7. Console!Shown' = Console!Shown
  <2>1. PICK r \in {Console!RawState} : r = Console!RawState'
    BY <1>5
  <2>2. Console!Format(r, wall)' = Console!Format(r, wall)
    BY <1>1, <1>6 DEF Console!Format
  <2>3. QED BY <1>5, <2>1, <2>2 DEF Console!Shown, Console!Format
<1>8. \A v, at : Told(v, at) => Told(v, at)'
  BY <1>1, <1>2, <1>7 DEF Told, IsLatest
<1>9. \A raw : RawTold(raw) => RawTold(raw)'
  BY <1>1, <1>2, <1>5 DEF RawTold, IsLatest
<1>10. QED BY <1>2, <1>3, <1>4, <1>8, <1>9

LEMMA MessagesStay ==
  ASSUME ConsoleInv, UNCHANGED seenVars, UNCHANGED <<wire, held, page, shownAt>>
  PROVE  MessagesInv'
<1>1. \A v, at : Told(v, at) => Told(v, at)'
  BY SeenStays
<1>2. Told(page, shownAt)'
  BY <1>1 DEF ConsoleInv, MessagesInv, Told
<1>3. \A q \in Questions : held'[q] # <<>> => Told(Head(held[q]).view, Head(held[q]).at)'
  BY <1>1 DEF ConsoleInv, MessagesInv, Told
<1>4. wire' \in Seq({wire'[i] : i \in DOMAIN wire'}) /\ \A i \in DOMAIN wire' : Told(wire[i].view, wire[i].at)'
  BY <1>1 DEF ConsoleInv, MessagesInv, Told
<1>5. held' = [q \in Questions |-> held'[q]]
  BY DEF ConsoleInv, MessagesInv
<1>6. QED BY <1>2, <1>3, <1>4, <1>5 DEF MessagesInv

LEMMA OpStays ==
  ASSUME ConsoleInv, UNCHANGED seenVars, UNCHANGED op, UNCHANGED <<helperAt, unwritten>>
  PROVE  OpInv' /\ OpTold' /\ Console!InvitedHasHelper'
<1>1. /\ Gone' = Gone /\ Console!Waiting' = Console!Waiting
      /\ \A v, at : Told(v, at) => Told(v, at)'
      /\ \A raw : RawTold(raw) => RawTold(raw)'
  BY SeenStays
<1>2. UNCHANGED <<invited, guests>>
  BY DEF seenVars
<1>3. PICK o \in {op} : TRUE
  OBVIOUS
<1>4. OpInv'
  BY <1>1, <1>2, <1>3 DEF ConsoleInv, OpInv, Making
<1>5. o.kind = "firewall" => RawTold(o.raw)'
  BY <1>1, <1>3 DEF ConsoleInv, OpTold
<1>6. o.kind = "answer" \/ (o.kind \in {"create", "deploy"} /\ o.step = "ensured") => Told(o.told.view, o.told.at)'
  BY <1>1, <1>3 DEF ConsoleInv, OpTold, Making
<1>7. OpTold'
  BY <1>3, <1>5, <1>6 DEF OpTold, Making
<1>8. Console!InvitedHasHelper'
  BY <1>1, <1>3 DEF ConsoleInv, Console!InvitedHasHelper
<1>9. QED BY <1>4, <1>7, <1>8

\* A backup run begins and ends: a folder that is not late stays so.
LEMMA RunHolds ==
  ASSUME ConsoleInv, NEW g \in Invites, Console!BackupStarts(g) \/ Console!RunEnds(g)
  PROVE  ConsoleInv'
<1>1. UNCHANGED <<staged, safe, behind>> /\ UNCHANGED Console!receiverVars /\ UNCHANGED failing
  BY DEF Console!BackupStarts, Console!RunEnds
<1>2. UNCHANGED Console!pageVars
  BY DEF Console!BackupStarts, Console!RunEnds
<1>3. PICK b \in {"no", "running"} : backing' = [backing EXCEPT ![g] = b]
  BY DEF Console!BackupStarts, Console!RunEnds
<1>4. BackupInv'
  BY <1>1, <1>3 DEF ConsoleInv, BackupInv
<1>5. CASE UNCHANGED <<turn, wire, sentAt, unsaidAt>>
  <2>1. UNCHANGED seenVars /\ UNCHANGED <<wire, held, page, shownAt>> /\ UNCHANGED op
        /\ UNCHANGED <<helperAt, unwritten>>
    BY <1>1, <1>2, <1>5 DEF seenVars, Console!receiverVars, Console!pageVars
  <2>2. QED BY <1>4, <2>1, SeenStays, MessagesStay, OpStays DEF ConsoleInv
<1>6. CASE Console!Changed /\ Console!EmitState
  <2>1. UNCHANGED <<op, held, page, shownAt>> /\ UNCHANGED <<invited, guests, wall, rule, helperAt, unwritten>>
    BY <1>1, <1>2 DEF Console!receiverVars, Console!pageVars
  <2>2. QED BY <1>4, <1>6, <2>1, ListsStay, HostMoves DEF ConsoleInv
<1>7. QED BY <1>5, <1>6 DEF Console!BackupStarts, Console!RunEnds

\* The host stays, with its backups.
LEMMA HostStays ==
  ASSUME ConsoleInv, UNCHANGED Console!hostVars
  PROVE  UNCHANGED seenVars /\ UNCHANGED <<helperAt, unwritten>> /\ BackupInv'
<1>1. UNCHANGED <<staged, backing, failing, safe, behind>> /\ UNCHANGED <<helperAt, unwritten>>
      /\ UNCHANGED <<receiver, invited, guests, heard, wall, rule>> /\ UNCHANGED <<turn, sentAt, unsaidAt>>
  BY DEF Console!hostVars, Console!receiverVars, Console!backupVars
<1>2. UNCHANGED seenVars
  BY <1>1 DEF seenVars
<1>3. QED BY <1>1, <1>2 DEF ConsoleInv, BackupInv

\* What was told is shown, and a question is asked, answered and ends.
LEMMA PageHears ==
  ASSUME ConsoleInv, UNCHANGED Console!hostVars, UNCHANGED op, MessagesInv'
  PROVE  ConsoleInv'
BY HostStays, SeenStays, OpStays DEF ConsoleInv

LEMMA HandleHolds ==
  ASSUME ConsoleInv, Console!HandleState
  PROVE  ConsoleInv'
<1>1. UNCHANGED Console!hostVars /\ UNCHANGED op /\ UNCHANGED held
  BY DEF Console!HandleState
<1>2. \A v, at : Told(v, at) => Told(v, at)'
  BY <1>1, HostStays, SeenStays
<1>3. /\ wire' \in Seq({wire'[i] : i \in DOMAIN wire'})
      /\ \A i \in DOMAIN wire' : i + 1 \in DOMAIN wire /\ wire'[i] = wire[i + 1]
      /\ 1 \in DOMAIN wire /\ Head(wire) = wire[1]
  BY WireShrinks DEF Console!HandleState, ConsoleInv, MessagesInv
<1>4. PICK m \in {wire[1]} : page' = m.view /\ shownAt' = m.at /\ Told(m.view, m.at)'
  BY <1>2, <1>3 DEF Console!HandleState, Console!Shows, ConsoleInv, MessagesInv
<1>5. Told(page, shownAt)'
  BY <1>4 DEF Told
<1>6. \A q \in Questions : held'[q] # <<>> => Told(Head(held[q]).view, Head(held[q]).at)'
  BY <1>1, <1>2 DEF ConsoleInv, MessagesInv, Told
<1>7. \A i \in DOMAIN wire' : Told(wire[i].view, wire[i].at)'
  <2>1. SUFFICES ASSUME NEW i \in DOMAIN wire' PROVE Told(wire[i].view, wire[i].at)'
    OBVIOUS
  <2>2. PICK m2 \in {wire[i + 1]} : Told(m2.view, m2.at)' /\ m2 = wire'[i]
    BY <1>2, <1>3 DEF ConsoleInv, MessagesInv
  <2>3. QED BY <2>2 DEF Told
<1>8. MessagesInv'
  BY <1>1, <1>3, <1>5, <1>6, <1>7 DEF MessagesInv, ConsoleInv
<1>9. QED BY <1>1, <1>8, PageHears

\* What a question is answered is how it is now.
LEMMA AskedIsTold == ASSUME ConsoleInv PROVE
  \A m \in {Console!Message(Console!RawState, wall)} : Told(m.view, m.at)
<1>1. Told(Console!Shown, turn)
  BY NowTold DEF ConsoleInv
<1>2. QED BY <1>1, ShownIs

LEMMA QuestionHolds ==
  ASSUME ConsoleInv, NEW q \in Questions, Console!LoadEverything(q) \/ Console!SearchEnds(q)
  PROVE  ConsoleInv'
<1>1. UNCHANGED Console!hostVars /\ UNCHANGED <<op, wire>>
  BY DEF Console!LoadEverything, Console!SearchEnds
<1>2. \A v, at : Told(v, at) => Told(v, at)'
  BY <1>1, HostStays, SeenStays
<1>3. PICK m : /\ Told(m.view, m.at)' /\ held'[q] \in {<<m>>, <<>>}
               /\ \A p \in Questions \ {q} : held'[p] = held[p]
               /\ held' = [p \in Questions |-> held'[p]]
               /\ \/ page' = page /\ shownAt' = shownAt
                  \/ page' = m.view /\ shownAt' = m.at
  <2>1. CASE Console!LoadEverything(q)
    <3>1. PICK m \in {Console!Message(Console!RawState, wall)} : Told(m.view, m.at)'
      BY <1>2, AskedIsTold
    <3>2. held' = [held EXCEPT ![q] = <<m>>] /\ UNCHANGED <<page, shownAt>>
      BY <2>1, <3>1 DEF Console!LoadEverything
    <3>3. held = [p \in Questions |-> held[p]]
      BY DEF ConsoleInv, MessagesInv
    <3>4. PICK one \in {<<m>>} : held' = [held EXCEPT ![q] = one]
      BY <3>2
    <3>5. /\ held'[q] = one /\ \A p \in Questions \ {q} : held'[p] = held[p]
          /\ held' = [p \in Questions |-> held'[p]]
      BY <3>3, <3>4
    <3>6. QED BY <3>1, <3>2, <3>4, <3>5
  <2>2. CASE Console!SearchEnds(q)
    <3>1. PICK m \in {Head(held[q])} : Told(m.view, m.at)'
      BY <1>2, <2>2 DEF Console!SearchEnds, ConsoleInv, MessagesInv
    <3>2. held' = [held EXCEPT ![q] = <<>>] /\ page' = m.view /\ shownAt' = m.at
      BY <2>2, <3>1 DEF Console!SearchEnds, Console!Shows
    <3>3. held = [p \in Questions |-> held[p]]
      BY DEF ConsoleInv, MessagesInv
    <3>4. QED BY <3>1, <3>2, <3>3
  <2>3. QED BY <2>1, <2>2
<1>4. Told(page, shownAt)'
  BY <1>2, <1>3 DEF ConsoleInv, MessagesInv, Told
<1>5. \A p \in Questions : held'[p] # <<>> => Told(Head(held[p]).view, Head(held[p]).at)'
  <2>1. SUFFICES ASSUME NEW p \in Questions, held'[p] # <<>>
                 PROVE  Told(Head(held[p]).view, Head(held[p]).at)'
    OBVIOUS
  <2>2. CASE p = q
    <3>1. Head(held'[p]) = m
      BY <1>3, <2>1, <2>2
    <3>2. QED BY <1>3, <3>1 DEF Told
  <2>3. CASE p # q
    <3>1. PICK h \in {Head(held[p])} : Told(h.view, h.at)' /\ h = Head(held'[p])
      BY <1>2, <1>3, <2>1, <2>3 DEF ConsoleInv, MessagesInv
    <3>2. QED BY <3>1 DEF Told
  <2>4. QED BY <2>2, <2>3
<1>6. wire' = wire
  BY <1>1
<1>7. wire' \in Seq({wire'[i] : i \in DOMAIN wire'})
  BY <1>6 DEF ConsoleInv, MessagesInv
<1>8. \A i \in DOMAIN wire' : Told(wire[i].view, wire[i].at)'
  BY <1>2, <1>6 DEF ConsoleInv, MessagesInv, Told
<1>9. MessagesInv'
  BY <1>3, <1>4, <1>5, <1>7, <1>8 DEF MessagesInv
<1>10. QED BY <1>1, <1>9, PageHears

-----------------------------------------------------------------------------
(* What the page asks for, while the receiver stays as it is. *)

Simple == {"none", "toggle", "start", "reload", "respond"}

LEMMA OpMoves ==
  ASSUME ConsoleInv, UNCHANGED seenVars, UNCHANGED <<wire, held>>, BackupInv',
         Told(page, shownAt)', OpInv', OpTold', Console!InvitedHasHelper'
  PROVE  ConsoleInv'
<1>1. TurnsInv' /\ Console!WallIsOpen' /\ \A v, at : Told(v, at) => Told(v, at)'
  BY SeenStays
<1>2. wire' = wire /\ held' = held
  OBVIOUS
<1>3. \A q \in Questions : held'[q] # <<>> => Told(Head(held[q]).view, Head(held[q]).at)'
  BY <1>1, <1>2 DEF ConsoleInv, MessagesInv, Told
<1>4. wire' \in Seq({wire'[i] : i \in DOMAIN wire'}) /\ held' = [q \in Questions |-> held'[q]]
  BY <1>2 DEF ConsoleInv, MessagesInv
<1>5. \A i \in DOMAIN wire' : Told(wire[i].view, wire[i].at)'
  BY <1>1, <1>2 DEF ConsoleInv, MessagesInv, Told
<1>6. MessagesInv'
  BY <1>3, <1>4, <1>5 DEF MessagesInv
<1>7. QED BY <1>1, <1>6 DEF ConsoleInv

LEMMA SimpleOp ==
  ASSUME op'.kind \in Simple
  PROVE  OpInv' /\ OpTold'
BY DEF OpInv, OpTold, Making, Simple

LEMMA SimpleHolds ==
  ASSUME ConsoleInv, UNCHANGED seenVars, UNCHANGED <<wire, held>>, BackupInv',
         Told(page, shownAt)', op'.kind \in Simple, AllHelped'
  PROVE  ConsoleInv'
BY SimpleOp, HelpedIsEnough, OpMoves

\* The page and the host stay.
LEMMA PageStays ==
  ASSUME ConsoleInv, UNCHANGED seenVars, UNCHANGED <<page, shownAt>>
  PROVE  Told(page, shownAt)'
<1>1. \A v, at : Told(v, at) => Told(v, at)'
  BY SeenStays
<1>2. QED BY <1>1 DEF ConsoleInv, MessagesInv, Told

LEMMA HelpStays ==
  ASSUME ConsoleInv, AllHelped, UNCHANGED seenVars,
         helperAt \subseteq helperAt', unwritten \subseteq unwritten'
  PROVE  AllHelped'
BY SeenStays DEF AllHelped

LEMMA NothingAsked ==
  ASSUME ConsoleInv, NEW asks, Console!Click(asks)
  PROVE  /\ UNCHANGED Console!hostVars /\ UNCHANGED <<wire, held>> /\ Told(page, shownAt)' /\ op' = asks
         /\ BackupInv' /\ UNCHANGED seenVars /\ AllHelped'
<1>1. UNCHANGED Console!hostVars /\ UNCHANGED <<wire, held>> /\ UNCHANGED <<page, shownAt>> /\ op' = asks
  BY DEF Console!Click
<1>2. UNCHANGED seenVars /\ BackupInv' /\ UNCHANGED <<helperAt, unwritten>>
  BY <1>1, HostStays
<1>3. op.kind = "none"
  BY DEF Console!Click, Console!NoOp
<1>4. AllHelped
  BY <1>3, HelpedUnlessMaking DEF Making, ConsoleInv
<1>5. helperAt' = helperAt /\ unwritten' = unwritten
  BY <1>2
<1>6. AllHelped' /\ Told(page, shownAt)'
  BY <1>1, <1>2, <1>4, <1>5, HelpStays, PageStays
<1>7. QED BY <1>1, <1>2, <1>6

LEMMA ClicksHold ==
  ASSUME ConsoleInv, Console!ToggleReceiver \/ Console!Respond
  PROVE  ConsoleInv'
<1>1. PICK asks : Console!Click(asks) /\ asks.kind \in Simple
  <2>1. CASE Console!ToggleReceiver
    <3>1. PICK kind \in {"toggle", "start"} : Console!Click([kind |-> kind])
      BY <2>1 DEF Console!ToggleReceiver
    <3>2. [kind |-> kind].kind \in Simple
      BY DEF Simple
    <3>3. QED BY <3>1, <3>2
  <2>2. CASE Console!Respond
    <3>1. PICK i \in DOMAIN page.waiting, yes \in BOOLEAN :
            Console!Click([kind |-> "respond", invite |-> i, yes |-> yes])
      BY <2>2 DEF Console!Respond
    <3>2. [kind |-> "respond", invite |-> i, yes |-> yes].kind \in Simple
      BY DEF Simple
    <3>3. QED BY <3>1, <3>2
  <2>3. QED BY <2>1, <2>2
<1>2. /\ UNCHANGED seenVars /\ UNCHANGED <<wire, held>> /\ BackupInv'
      /\ Told(page, shownAt)' /\ op' = asks /\ AllHelped'
  BY <1>1, NothingAsked
<1>3. op'.kind \in Simple
  BY <1>1, <1>2
<1>4. QED BY <1>2, <1>3, SimpleHolds

\* The state that is read before the user approves.
LEMMA FirewallHolds ==
  ASSUME ConsoleInv, Console!ConfigureFirewall
  PROVE  ConsoleInv'
<1>1. PICK raw \in {Console!RawState} : Console!Click([kind |-> "firewall", raw |-> raw])
  BY DEF Console!ConfigureFirewall
<1>2. PICK asks \in {[kind |-> "firewall", raw |-> raw]} : Console!Click(asks)
  BY <1>1
<1>3. asks.kind = "firewall" /\ asks.raw = raw
  BY <1>2
<1>4. DOMAIN raw.guests = guests /\ raw.at = turn
  BY <1>1 DEF Console!RawState
<1>5. RawTold(raw)
  BY <1>1, <1>4 DEF RawTold, ConsoleInv, TurnsInv
<1>6. RawTold(raw)' /\ op' = asks
  BY <1>2, <1>5, NothingAsked, SeenStays
<1>7. OpInv'
  BY <1>3, <1>6 DEF OpInv, Making
<1>8. OpTold'
  BY <1>3, <1>6 DEF OpTold, Making, RawTold
<1>9. QED BY <1>2, <1>7, <1>8, NothingAsked, HelpedIsEnough, OpMoves

LEMMA NewHelperHolds ==
  ASSUME ConsoleInv, Console!CreateHelper \/ Console!DeployHelper
  PROVE  ConsoleInv'
<1>1. PICK how \in {"create", "deploy"} : Console!NewHelper(how)
  BY DEF Console!CreateHelper, Console!DeployHelper
<1>2. PICK i \in Invites : /\ invited[i] = "new"
                           /\ Console!Click([kind |-> how, invite |-> i, step |-> "ensure"])
  BY <1>1 DEF Console!NewHelper
<1>3. PICK asks \in {[kind |-> how, invite |-> i, step |-> "ensure"]} : Console!Click(asks)
  BY <1>2
<1>4. asks.kind = how /\ asks.invite = i /\ asks.step = "ensure"
  BY <1>3
<1>5. op' = asks /\ UNCHANGED seenVars
  BY <1>3, NothingAsked
<1>6. invited' = invited
  BY <1>5 DEF seenVars
<1>7. OpInv'
  BY <1>2, <1>4, <1>5, <1>6 DEF OpInv, Making
<1>8. OpTold'
  BY <1>4, <1>5 DEF OpTold, Making
<1>9. QED BY <1>3, <1>7, <1>8, NothingAsked, HelpedIsEnough, OpMoves

\* A machine that the page lists is paired no more or still, but not invited.
LEMMA ForgetHolds ==
  ASSUME ConsoleInv, Console!ForgetGuest
  PROVE  ConsoleInv'
<1>1. PICK g \in DOMAIN page.guests : Console!Click([kind |-> "forget", invite |-> g, gone |-> FALSE])
  BY DEF Console!ForgetGuest
<1>2. g \in Gone
  BY <1>1 DEF ConsoleInv, MessagesInv, Told
<1>3. PICK asks \in {[kind |-> "forget", invite |-> g, gone |-> FALSE]} : Console!Click(asks)
  BY <1>1
<1>4. asks.kind = "forget" /\ asks.invite = g /\ asks.gone = FALSE
  BY <1>3
<1>5. op' = asks /\ UNCHANGED seenVars
  BY <1>3, NothingAsked
<1>6. Gone' = Gone
  BY <1>5, SeenStays
<1>7. OpInv'
  BY <1>2, <1>4, <1>5, <1>6 DEF OpInv, Making
<1>8. OpTold'
  BY <1>4, <1>5 DEF OpTold, Making
<1>9. QED BY <1>3, <1>7, <1>8, NothingAsked, HelpedIsEnough, OpMoves

\* The answer is read, and arrives.
LEMMA ReloadStateHolds ==
  ASSUME ConsoleInv, Console!ReloadState
  PROVE  ConsoleInv'
<1>1. UNCHANGED Console!hostVars /\ UNCHANGED <<wire, held>> /\ UNCHANGED <<page, shownAt>>
  BY DEF Console!ReloadState
<1>2. UNCHANGED seenVars /\ BackupInv' /\ helperAt' = helperAt /\ unwritten' = unwritten
  BY <1>1, HostStays
<1>3. PICK m \in {Console!Message(Console!RawState, wall)} : Told(m.view, m.at)
  BY AskedIsTold
<1>4. Told(m.view, m.at)' /\ Told(page, shownAt)'
  BY <1>1, <1>2, <1>3, SeenStays, PageStays
<1>5. PICK o \in {[kind |-> "answer", told |-> m]} : op' = o
  BY <1>3 DEF Console!ReloadState
<1>6. o.kind = "answer" /\ o.told = m
  BY <1>5
<1>7. OpInv'
  BY <1>5, <1>6 DEF OpInv, Making
<1>8. OpTold'
  BY <1>4, <1>5, <1>6 DEF OpTold, Making, Told
<1>9. AllHelped
  BY HelpedUnlessMaking DEF Console!ReloadState, Making, ConsoleInv
<1>10. AllHelped'
  BY <1>2, <1>9, HelpStays
<1>11. QED BY <1>1, <1>2, <1>4, <1>7, <1>8, <1>10, HelpedIsEnough, OpMoves

LEMMA AnswerShown ==
  ASSUME ConsoleInv, Console!AnswerArrives \/ Console!Ensured
  PROVE  ConsoleInv'
<1>1. UNCHANGED Console!hostVars /\ UNCHANGED <<wire, held>>
  BY DEF Console!AnswerArrives, Console!Ensured
<1>2. UNCHANGED seenVars /\ BackupInv' /\ helperAt' = helperAt /\ unwritten' = unwritten
  BY <1>1, HostStays
<1>3. PICK m \in {op.told} : Told(m.view, m.at) /\ page' = m.view /\ shownAt' = m.at
  BY DEF ConsoleInv, OpTold, Making, Console!AnswerArrives, Console!Ensured, Console!Shows
<1>4. Told(m.view, m.at)'
  BY <1>2, <1>3, SeenStays
<1>5. Told(page, shownAt)'
  BY <1>3, <1>4 DEF Told
<1>6. AllHelped
  BY HelpedUnlessMaking DEF Console!AnswerArrives, Console!Ensured, Making, ConsoleInv
<1>7. AllHelped'
  BY <1>2, <1>6, HelpStays
<1>8. CASE Console!AnswerArrives
  <2>1. op'.kind \in Simple
    BY <1>8 DEF Console!AnswerArrives, Console!NoOp, Simple
  <2>2. QED BY <1>1, <1>2, <1>5, <1>7, <2>1, SimpleHolds
<1>9. CASE Console!Ensured
  <2>1. PICK o \in {[kind |-> op.kind, invite |-> op.invite, step |-> "enroll"]} : op' = o
    BY <1>9 DEF Console!Ensured, Console!Goes
  <2>2. o.kind = op.kind /\ o.invite = op.invite /\ o.step = "enroll"
    BY <2>1
  <2>3. op.kind \in {"create", "deploy"} /\ op.invite \in Invites /\ invited[op.invite] = "new"
    BY <1>9 DEF Console!Ensured, ConsoleInv, OpInv, Making
  <2>4. invited' = invited
    BY <1>2 DEF seenVars
  <2>5. OpInv'
    BY <2>1, <2>2, <2>3, <2>4 DEF OpInv, Making
  <2>6. OpTold'
    BY <2>1, <2>2, <2>3 DEF OpTold, Making
  <2>7. QED BY <1>1, <1>2, <1>5, <1>7, <2>5, <2>6, HelpedIsEnough, OpMoves
<1>10. QED BY <1>8, <1>9

\* The helper is written, or copied into the machine; or it is not, which is history.
LEMMA WriteHolds ==
  ASSUME ConsoleInv, Console!WritePortableHelper \/ Console!RunVmrun
  PROVE  ConsoleInv'
<1>1. /\ UNCHANGED <<receiver, invited, guests, heard, wall, rule>>
      /\ UNCHANGED <<staged, backing, failing, safe, behind>> /\ UNCHANGED <<turn, sentAt, unsaidAt>>
      /\ UNCHANGED <<wire, held, page, shownAt>>
  BY DEF Console!WritePortableHelper, Console!RunVmrun, Console!backupVars
<1>2. UNCHANGED seenVars /\ BackupInv'
  BY <1>1 DEF seenVars, ConsoleInv, BackupInv
<1>3. Told(page, shownAt)' /\ Console!Waiting' = Console!Waiting
  BY <1>1, <1>2, PageStays, SeenStays
<1>4. Making /\ op.step = "write"
  BY DEF Console!WritePortableHelper, Console!RunVmrun, Making
<1>5. op.invite \in Invites /\ Console!Waiting \subseteq helperAt \cup unwritten \cup {op.invite}
  BY <1>4 DEF ConsoleInv, OpInv, Console!InvitedHasHelper
<1>6. helperAt \subseteq helperAt' /\ unwritten \subseteq unwritten'
  BY DEF Console!WritePortableHelper, Console!RunVmrun
<1>7. \/ op.invite \in helperAt' \cup unwritten' /\ op'.kind \in Simple
      \/ op.kind = "deploy" /\ op' = Console!Goes("cancel")
  BY DEF Console!WritePortableHelper, Console!RunVmrun, Console!Reloads, Console!Fails, Console!NoOp, Simple
<1>8. CASE op.invite \in helperAt' \cup unwritten' /\ op'.kind \in Simple
  <2>1. AllHelped'
    BY <1>3, <1>5, <1>6, <1>8 DEF AllHelped
  <2>2. QED BY <1>1, <1>2, <1>3, <1>8, <2>1, SimpleHolds
<1>9. CASE op.kind = "deploy" /\ op' = Console!Goes("cancel")
  <2>1. PICK o \in {Console!Goes("cancel")} : op' = o
    BY <1>9
  <2>2. o.kind = "deploy" /\ o.invite = op.invite /\ o.step = "cancel"
    BY <1>9, <2>1 DEF Console!Goes
  <2>3. OpInv' /\ OpTold'
    BY <1>5, <2>1, <2>2 DEF OpInv, OpTold, Making
  <2>4. Console!InvitedHasHelper'
    BY <1>3, <1>5, <1>6, <2>1, <2>2 DEF Console!InvitedHasHelper
  <2>5. QED BY <1>1, <1>2, <1>3, <2>3, <2>4, OpMoves
<1>10. QED BY <1>7, <1>8, <1>9

\* What is refused, and a receiver that is shown as on.
Refused == \/ op.kind \in {"toggle", "respond", "forget"} /\ op' = Console!NoOp
           \/ Making /\ op.step = "ensure" /\ op' = Console!Goes("enroll")

LEMMA RefusedHolds ==
  ASSUME ConsoleInv, Refused, UNCHANGED seenVars, UNCHANGED Console!backupVars,
         UNCHANGED <<helperAt, unwritten>>, UNCHANGED <<wire, held, page, shownAt>>
  PROVE  ConsoleInv'
<1>1. BackupInv'
  BY DEF Console!backupVars, ConsoleInv, BackupInv
<1>2. Told(page, shownAt)'
  BY PageStays
<1>3. AllHelped
  BY HelpedUnlessMaking DEF ConsoleInv, Refused, Making
<1>4. helperAt' = helperAt /\ unwritten' = unwritten
  OBVIOUS
<1>5. AllHelped'
  BY <1>3, <1>4, HelpStays
<1>6. CASE op' = Console!NoOp
  <2>1. op'.kind \in Simple
    BY <1>6 DEF Console!NoOp, Simple
  <2>2. QED BY <1>1, <1>2, <1>5, <2>1, SimpleHolds
<1>7. CASE Making /\ op.step = "ensure" /\ op' = Console!Goes("enroll")
  <2>1. PICK o \in {Console!Goes("enroll")} : op' = o
    BY <1>7
  <2>2. o.kind = op.kind /\ o.invite = op.invite /\ o.step = "enroll"
    BY <2>1 DEF Console!Goes
  <2>3. op.kind \in {"create", "deploy"} /\ op.invite \in Invites /\ invited[op.invite] = "new"
    BY <1>7 DEF ConsoleInv, OpInv, Making
  <2>4. invited' = invited
    BY DEF seenVars
  <2>5. OpInv'
    BY <2>1, <2>2, <2>3, <2>4 DEF OpInv, Making
  <2>6. OpTold'
    BY <2>1, <2>2, <2>3 DEF OpTold, Making
  <2>7. QED BY <1>1, <1>2, <1>5, <2>5, <2>6, HelpedIsEnough, OpMoves
<1>8. QED BY <1>6, <1>7 DEF Refused

\* The machine that was forgotten is not listed any more, or was not.
LEMMA TakenHolds ==
  ASSUME ConsoleInv, Console!TakenFromList
  PROVE  ConsoleInv'
<1>1. UNCHANGED Console!hostVars /\ UNCHANGED <<wire, held>> /\ shownAt' = shownAt
  BY DEF Console!TakenFromList
<1>2. UNCHANGED seenVars /\ BackupInv' /\ helperAt' = helperAt /\ unwritten' = unwritten
  BY <1>1, HostStays
<1>3. PICK p \in {page} : Told(p, shownAt)
  BY DEF ConsoleInv, MessagesInv
<1> DEFINE left == DOMAIN p.guests \ {op.invite}
           those == [g \in left |-> p.guests[g]]
           theirs == [g \in left |-> p.backup[g]]
<1>4. /\ p = [on |-> p.on, waiting |-> p.waiting, guests |-> p.guests, wall |-> p.wall, backup |-> p.backup]
      /\ page' = [p EXCEPT !.guests = those, !.backup = theirs]
  BY <1>3 DEF Told, Console!TakenFromList
<1>5. DOMAIN those = left /\ left \subseteq Gone
  BY <1>3 DEF Told
<1>6. IsLatest(shownAt) => those = p.guests /\ theirs = p.backup
  <2>1. SUFFICES ASSUME IsLatest(shownAt) PROVE those = p.guests /\ theirs = p.backup
    OBVIOUS
  <2>2. p = Console!Shown
    BY <1>3, <2>1 DEF Told
  <2>3. /\ DOMAIN p.guests = guests /\ p.guests = [g \in guests |-> g \in heard]
        /\ p.backup = [g \in guests |-> Console!BackupStatus(g)]
    BY <2>2, ShownIs
  <2>4. op.invite \notin guests
    BY DEF Console!TakenFromList, ConsoleInv, OpInv
  <2>5. left = guests
    BY <2>3, <2>4
  <2>6. QED BY <2>3, <2>5
<1> HIDE DEF left, those, theirs
<1>7. PICK v \in {[on |-> p.on, waiting |-> p.waiting, guests |-> those, wall |-> p.wall, backup |-> theirs]} :
        page' = v
  BY <1>4
<1>8. /\ v = [on |-> v.on, waiting |-> v.waiting, guests |-> v.guests, wall |-> v.wall, backup |-> v.backup]
      /\ v.guests = those
  BY <1>7
<1>9. IsLatest(shownAt) => v = p
  BY <1>4, <1>6, <1>7
<1>10. Told(v, shownAt)
  BY <1>3, <1>5, <1>8, <1>9 DEF Told
<1>11. PICK at \in {shownAt} : Told(v, at)' /\ at = shownAt'
  BY <1>1, <1>2, <1>10, SeenStays
<1>12. Told(page, shownAt)'
  BY <1>7, <1>11 DEF Told
<1>13. AllHelped
  BY HelpedUnlessMaking DEF Console!TakenFromList, Making, ConsoleInv
<1>14. AllHelped' /\ op'.kind \in Simple
  BY <1>2, <1>13, HelpStays DEF Console!TakenFromList, Console!NoOp, Simple
<1>15. QED BY <1>1, <1>2, <1>12, <1>14, SimpleHolds

-----------------------------------------------------------------------------
(* What the page asks for changes the receiver. *)

LEMMA OpChanges ==
  ASSUME ConsoleInv, Console!Changed, Console!EmitState \/ Console!Unsaid,
         UNCHANGED <<held, page, shownAt>>, UNCHANGED Console!backupVars,
         invited' \in [Invites -> Stages], guests' \subseteq Gone', Gone \subseteq Gone',
         Console!WallIsOpen', OpInv', OpTold', Console!InvitedHasHelper'
  PROVE  ConsoleInv'
<1>1. TurnsInv' /\ turn' = turn + 1 /\ (sentAt' = turn' \/ unsaidAt' = turn')
  BY TurnsMove DEF ConsoleInv
<1>2. MessagesInv'
  BY <1>1, ChangeHeard DEF ConsoleInv
<1>3. BackupInv'
  BY DEF ConsoleInv, BackupInv, Console!backupVars
<1>4. QED BY <1>1, <1>2, <1>3 DEF ConsoleInv

LEMMA ReceiverStarts ==
  ASSUME Console!StartReceiver
  PROVE  Console!WallIsOpen'
BY DEF Console!StartReceiver, Console!EnsureRule, Console!WallIsOpen

LEMMA StartHolds ==
  ASSUME ConsoleInv, Console!StartAsked
  PROVE  ConsoleInv'
<1>1. /\ Console!Changed /\ Console!EmitState /\ UNCHANGED <<held, page, shownAt>>
      /\ UNCHANGED Console!backupVars /\ UNCHANGED <<invited, guests>>
      /\ helperAt' = helperAt /\ unwritten' = unwritten
  BY DEF Console!StartAsked
<1>2. Console!WallIsOpen'
  BY ReceiverStarts DEF Console!StartAsked
<1>3. AllHelped
  BY HelpedUnlessMaking DEF Console!StartAsked, Making, ConsoleInv
<1>4. AllHelped'
  BY <1>1, <1>3 DEF AllHelped, Console!Waiting
<1>5. op'.kind \in Simple
  BY DEF Console!StartAsked, Console!Reloads, Simple
<1>6. QED BY <1>1, <1>2, <1>4, <1>5, ListsStay, SimpleOp, HelpedIsEnough, OpChanges DEF ConsoleInv

LEMMA StopHolds ==
  ASSUME ConsoleInv, Console!StopAsked
  PROVE  ConsoleInv'
<1>1. /\ UNCHANGED <<held, page, shownAt>> /\ UNCHANGED Console!backupVars
      /\ UNCHANGED <<guests, wall, rule>> /\ helperAt' = helperAt /\ unwritten' = unwritten
      /\ op.kind = "toggle"
  BY DEF Console!StopAsked
<1>2. CASE op' = Console!NoOp /\ UNCHANGED <<receiver, heard, invited, turn, wire, sentAt, unsaidAt>>
  <2>1. UNCHANGED seenVars
    BY <1>1, <1>2 DEF seenVars, Console!backupVars
  <2>2. QED BY <1>1, <1>2, <2>1, RefusedHolds DEF Refused
<1>3. CASE /\ guests = {} /\ Console!Waiting = {} /\ Console!Changed
           /\ invited' = [i \in Invites |-> IF invited[i] = "rejected" THEN "gone" ELSE invited[i]]
           /\ Console!EmitState /\ Console!Reloads
  <2>1. invited' \in [Invites -> Stages] /\ Gone \subseteq Gone' /\ guests' \subseteq Gone'
        /\ Console!Waiting' = {}
    BY <1>1, <1>3 DEF ConsoleInv, TurnsInv, Stages, Gone, Console!Waiting
  <2>2. Console!WallIsOpen' /\ AllHelped'
    BY <1>1, <2>1 DEF ConsoleInv, Console!WallIsOpen, AllHelped
  <2>3. op'.kind \in Simple
    BY <1>3 DEF Console!Reloads, Simple
  <2>4. QED BY <1>1, <1>3, <2>1, <2>2, <2>3, SimpleOp, HelpedIsEnough, OpChanges
<1>4. QED BY <1>2, <1>3 DEF Console!StopAsked, Console!Fails

\* The page's own start of the receiver is answered with how it is now.
LEMMA EnsureHolds ==
  ASSUME ConsoleInv, Console!EnsureReceiver
  PROVE  ConsoleInv'
<1>1. /\ UNCHANGED <<held, page, shownAt>> /\ UNCHANGED Console!backupVars
      /\ UNCHANGED <<invited, guests>> /\ helperAt' = helperAt /\ unwritten' = unwritten
      /\ Making /\ op.step = "ensure" /\ op.kind \in {"create", "deploy"}
  BY DEF Console!EnsureReceiver, Making
<1>2. CASE op' = Console!Goes("enroll") /\ UNCHANGED <<receiver, heard, wall, rule, turn, wire, sentAt, unsaidAt>>
  <2>1. UNCHANGED seenVars
    BY <1>1, <1>2 DEF seenVars, Console!backupVars
  <2>2. QED BY <1>1, <1>2, <2>1, RefusedHolds DEF Refused
<1>3. CASE /\ Console!Changed /\ Console!StartReceiver /\ Console!EmitState
           /\ op' = [kind |-> op.kind, invite |-> op.invite, step |-> "ensured",
                     told |-> Console!Message(Console!RawState, wall)']
  <2>1. TurnsInv'
    BY <1>1, <1>3, ListsStay, TurnsMove DEF ConsoleInv
  <2>2. PICK m : Told(m.view, m.at)' /\ m = Console!Message(Console!RawState, wall)'
    BY <1>3, <2>1, HostTells
  <2>3. PICK o \in {[kind |-> op.kind, invite |-> op.invite, step |-> "ensured", told |-> m]} : op' = o
    BY <1>3, <2>2
  <2>4. o.kind = op.kind /\ o.invite = op.invite /\ o.step = "ensured" /\ o.told = m
    BY <2>3
  <2>5. op.invite \in Invites /\ invited[op.invite] = "new"
    BY <1>1 DEF ConsoleInv, OpInv
  <2>6. OpInv'
    BY <1>1, <2>3, <2>4, <2>5 DEF OpInv, Making
  <2>7. OpTold'
    BY <1>1, <2>2, <2>3, <2>4 DEF OpTold, Making, Told
  <2>8. AllHelped
    BY <1>1, HelpedUnlessMaking DEF ConsoleInv
  <2>9. AllHelped'
    BY <1>1, <2>8 DEF AllHelped, Console!Waiting
  <2>10. Console!WallIsOpen'
    BY <1>3, ReceiverStarts
  <2>11. QED BY <1>1, <1>3, <2>6, <2>7, <2>9, <2>10, ListsStay, HelpedIsEnough, OpChanges DEF ConsoleInv
<1>4. QED BY <1>2, <1>3 DEF Console!EnsureReceiver

\* The invitation is made, for the helper that is being made.
LEMMA EnrollHolds ==
  ASSUME ConsoleInv, Console!CreateEnrollment
  PROVE  ConsoleInv'
<1>1. /\ UNCHANGED <<held, page, shownAt>> /\ UNCHANGED Console!backupVars
      /\ guests' = guests /\ helperAt' = helperAt /\ unwritten' = unwritten
      /\ op.kind \in {"create", "deploy"} /\ op.step = "enroll" /\ Console!Changed /\ Console!EmitState
      /\ invited' = [invited EXCEPT ![op.invite] = "invited"] /\ op' = Console!Goes("write")
  BY DEF Console!CreateEnrollment
<1>2. Making /\ op.invite \in Invites /\ invited[op.invite] = "new"
  BY <1>1 DEF ConsoleInv, OpInv, Making
<1>3. PICK i \in {op.invite} : TRUE
  OBVIOUS
<1>4. /\ invited' \in [Invites -> Stages] /\ invited'[i] = "invited"
      /\ \A j \in Invites \ {i} : invited'[j] = invited[j]
  BY <1>1, <1>2, <1>3 DEF ConsoleInv, TurnsInv, Stages
<1>5. Gone' = Gone /\ Console!Waiting' \subseteq Console!Waiting \cup {i} /\ guests' \subseteq Gone'
  BY <1>1, <1>2, <1>3, <1>4 DEF ConsoleInv, TurnsInv, Gone, Console!Waiting
<1>6. PICK o \in {Console!Goes("write")} : op' = o
  BY <1>1
<1>7. o.kind = op.kind /\ o.invite = i /\ o.step = "write"
  BY <1>3, <1>6 DEF Console!Goes
<1>8. OpInv' /\ OpTold'
  BY <1>1, <1>2, <1>3, <1>6, <1>7 DEF OpInv, OpTold, Making
<1>9. AllHelped
  BY <1>1, <1>2, HelpedUnlessMaking DEF ConsoleInv
<1>10. Console!InvitedHasHelper'
  BY <1>1, <1>5, <1>6, <1>7, <1>9 DEF AllHelped, Console!InvitedHasHelper
<1>11. Console!WallIsOpen'
  BY ReceiverStarts DEF Console!CreateEnrollment
<1>12. QED BY <1>1, <1>4, <1>5, <1>8, <1>10, <1>11, OpChanges

LEMMA DeployHolds ==
  ASSUME ConsoleInv, Console!DeployFails
  PROVE  ConsoleInv'
<1>1. /\ UNCHANGED <<held, page, shownAt>> /\ UNCHANGED Console!backupVars
      /\ UNCHANGED <<guests, wall, rule>> /\ helperAt' = helperAt /\ unwritten' = unwritten
      /\ op.kind = "deploy" /\ op' = Console!NoOp
      /\ Console!Changed /\ (Console!EmitState \/ Console!Unsaid)
  BY DEF Console!DeployFails, Console!Fails
<1>2. PICK i \in {op.invite} : invited' = [invited EXCEPT ![i] = "gone"]
  BY DEF Console!DeployFails, Console!CancelEnrollment
<1>3. i \in Invites /\ Console!Waiting \subseteq helperAt \cup unwritten \cup {i}
  BY <1>1, <1>2 DEF ConsoleInv, OpInv, Making, Console!InvitedHasHelper
<1>4. /\ invited' \in [Invites -> Stages] /\ invited'[i] = "gone"
      /\ \A j \in Invites \ {i} : invited'[j] = invited[j]
  BY <1>2, <1>3 DEF ConsoleInv, TurnsInv, Stages
<1>5. Gone \subseteq Gone' /\ guests' \subseteq Gone' /\ Console!Waiting' \subseteq Console!Waiting \ {i}
  BY <1>1, <1>3, <1>4 DEF ConsoleInv, TurnsInv, Gone, Console!Waiting
<1>6. AllHelped' /\ Console!WallIsOpen'
  BY <1>1, <1>3, <1>5 DEF AllHelped, Console!WallIsOpen, ConsoleInv
<1>7. op'.kind \in Simple
  BY <1>1 DEF Console!NoOp, Simple
<1>8. QED BY <1>1, <1>4, <1>5, <1>6, <1>7, SimpleOp, HelpedIsEnough, OpChanges

LEMMA RespondHolds ==
  ASSUME ConsoleInv, Console!RespondAsked
  PROVE  ConsoleInv'
<1>1. /\ UNCHANGED <<held, page, shownAt>> /\ UNCHANGED Console!backupVars
      /\ UNCHANGED <<receiver, guests, heard, wall, rule>> /\ helperAt' = helperAt /\ unwritten' = unwritten
      /\ op.kind = "respond"
  BY DEF Console!RespondAsked
<1>2. CASE op' = Console!NoOp /\ UNCHANGED <<invited, turn, wire, sentAt, unsaidAt>>
  <2>1. UNCHANGED seenVars
    BY <1>1, <1>2 DEF seenVars, Console!backupVars
  <2>2. QED BY <1>1, <1>2, <2>1, RefusedHolds DEF Refused
<1>3. CASE /\ invited[op.invite] \in {"invited", "pending", "approved"} /\ Console!Changed
           /\ invited' = [invited EXCEPT ![op.invite] = IF op.yes THEN "approved" ELSE "rejected"]
           /\ Console!EmitState /\ Console!Reloads
  <2>1. PICK s \in {"approved", "rejected"} : invited' = [invited EXCEPT ![op.invite] = s]
    BY <1>3
  <2>2. PICK i \in {op.invite} : invited' = [invited EXCEPT ![i] = s] /\ invited[i] \in {"invited", "pending", "approved"}
    BY <1>3, <2>1
  <2>3. /\ invited' \in [Invites -> Stages]
        /\ \A j \in Invites : invited'[j] = invited[j]
                \/ (invited[j] \in {"invited", "pending", "approved"} /\ invited'[j] = s)
    BY <2>2 DEF ConsoleInv, TurnsInv, Stages
  <2>4. Gone \subseteq Gone' /\ guests' \subseteq Gone' /\ Console!Waiting' \subseteq Console!Waiting
    BY <1>1, <2>3 DEF ConsoleInv, TurnsInv, Gone, Console!Waiting
  <2>5. AllHelped
    BY <1>1, HelpedUnlessMaking DEF ConsoleInv, Making
  <2>6. AllHelped' /\ Console!WallIsOpen'
    BY <1>1, <2>4, <2>5 DEF AllHelped, Console!WallIsOpen, ConsoleInv
  <2>7. op'.kind \in Simple
    BY <1>3 DEF Console!Reloads, Simple
  <2>8. QED BY <1>1, <1>3, <2>3, <2>4, <2>6, <2>7, SimpleOp, HelpedIsEnough, OpChanges
<1>4. QED BY <1>2, <1>3 DEF Console!RespondAsked, Console!Decided, Console!Fails

LEMMA ForgottenHolds ==
  ASSUME ConsoleInv, Console!ForgetAsked
  PROVE  ConsoleInv'
<1>1. /\ UNCHANGED <<held, page, shownAt>> /\ UNCHANGED Console!backupVars
      /\ UNCHANGED <<receiver, invited, wall, rule>> /\ helperAt' = helperAt /\ unwritten' = unwritten
      /\ op.kind = "forget"
  BY DEF Console!ForgetAsked
<1>2. CASE op' = Console!NoOp /\ UNCHANGED <<guests, heard, turn, wire, sentAt, unsaidAt>>
  <2>1. UNCHANGED seenVars
    BY <1>1, <1>2 DEF seenVars, Console!backupVars
  <2>2. QED BY <1>1, <1>2, <2>1, RefusedHolds DEF Refused
<1>3. CASE /\ guests' = guests \ {op.invite} /\ Console!Changed /\ Console!EmitState
           /\ op' = [kind |-> op.kind, invite |-> op.invite, gone |-> TRUE]
  <2>1. PICK o \in {[kind |-> op.kind, invite |-> op.invite, gone |-> TRUE]} : op' = o
    BY <1>3
  <2>2. o.kind = "forget" /\ o.invite = op.invite /\ o.gone
    BY <1>1, <2>1
  <2>3. invited' = invited
    BY <1>1
  <2>4. /\ invited' \in [Invites -> Stages] /\ Gone' = Gone /\ guests' \subseteq Gone'
        /\ Console!Waiting' = Console!Waiting
    BY <1>3, <2>3 DEF ConsoleInv, TurnsInv, Stages, Gone, Console!Waiting
  <2>5. op.invite \in Gone
    BY <1>1 DEF ConsoleInv, OpInv
  <2>6. OpInv'
    BY <1>3, <2>1, <2>2, <2>4, <2>5 DEF OpInv, Making
  <2>7. OpTold'
    BY <2>1, <2>2 DEF OpTold, Making
  <2>8. AllHelped
    BY <1>1, HelpedUnlessMaking DEF ConsoleInv, Making
  <2>9. AllHelped' /\ Console!WallIsOpen'
    BY <1>1, <2>4, <2>8 DEF AllHelped, Console!WallIsOpen, ConsoleInv
  <2>10. QED BY <1>1, <1>3, <2>4, <2>6, <2>7, <2>9, HelpedIsEnough, OpChanges
<1>4. QED BY <1>2, <1>3 DEF Console!ForgetAsked, Console!Fails

\* The state of before the approval is sent as the latest only if it still is.
LEMMA ApprovalHolds ==
  ASSUME ConsoleInv, Console!FirewallAnswered
  PROVE  ConsoleInv'
<1>1. /\ UNCHANGED <<held, page, shownAt>> /\ UNCHANGED <<staged, backing, failing, safe, behind>>
      /\ UNCHANGED <<receiver, invited, guests, heard>> /\ helperAt' = helperAt /\ unwritten' = unwritten
      /\ op.kind = "firewall" /\ Console!Changed /\ Console!ConfigureRule
      /\ sentAt' = turn' /\ unsaidAt' = unsaidAt
  BY DEF Console!FirewallAnswered, Console!backupVars
<1>2. PICK raw \in {op.raw} : RawTold(raw)
  BY <1>1 DEF ConsoleInv, OpTold
<1>3. PICK at \in {IF raw.at = turn THEN turn' ELSE raw.at} : TRUE
  OBVIOUS
<1>4. PICK v \in {Console!Format(raw, wall')} : TRUE
  OBVIOUS
<1>5. PICK told \in {[view |-> v, at |-> at]} :
        wire' = Append(wire, told) /\ op' = [kind |-> "answer", told |-> told]
  BY <1>2, <1>3, <1>4 DEF Console!FirewallAnswered
<1>6. told.view = v /\ told.at = at
  BY <1>5
<1>7. turn \in Nat /\ turn' = turn + 1 /\ sentAt \in 0 .. turn /\ unsaidAt \in 0 .. turn
  BY <1>1 DEF ConsoleInv, TurnsInv, Console!Changed
<1>8. TurnsInv' /\ Gone' = Gone /\ Console!Waiting' = Console!Waiting
  BY <1>1, <1>7 DEF ConsoleInv, TurnsInv, Gone, Console!Waiting
<1>9. /\ v = [on |-> v.on, waiting |-> v.waiting, guests |-> v.guests, wall |-> v.wall, backup |-> v.backup]
      /\ v.on = raw.on /\ v.waiting = raw.waiting /\ v.guests = raw.guests /\ v.wall = wall'
      /\ v.backup = [g \in DOMAIN raw.guests |-> Console!BackupStatus(g)]
  BY <1>4 DEF Console!Format
<1>10. at \in Nat /\ at <= turn' /\ DOMAIN v.guests \subseteq Gone'
  BY <1>2, <1>3, <1>7, <1>8, <1>9 DEF RawTold
<1>11. IsLatest(at)' => v = Console!Shown'
  <2>1. SUFFICES ASSUME IsLatest(at)' PROVE v = Console!Shown'
    OBVIOUS
  <2>2. raw.at = turn
    BY <1>1, <1>2, <1>3, <1>7, <2>1 DEF IsLatest, RawTold
  <2>3. raw.on = Console!RawState.on /\ raw.waiting = Console!RawState.waiting /\ raw.guests = Console!RawState.guests
    BY <1>2, <1>7, <2>2 DEF RawTold, IsLatest
  <2>4. /\ raw.on = receiver' /\ raw.waiting = [i \in Console!Waiting' |-> invited'[i]]
        /\ raw.guests = [g \in guests' |-> g \in heard']
    BY <1>1, <1>8, <2>3 DEF Console!RawState
  <2>5. DOMAIN raw.guests = guests'
    BY <2>4
  <2>6. \A g : Console!BackupStatus(g)' = Console!BackupStatus(g)
    BY <1>1 DEF Console!BackupStatus
  <2>7. v.backup = [g \in guests' |-> Console!BackupStatus(g)']
    BY <1>9, <2>5, <2>6
  <2>8. Console!Shown' = [on |-> receiver', waiting |-> [i \in Console!Waiting' |-> invited'[i]],
                         guests |-> [g \in guests' |-> g \in heard'], wall |-> wall',
                         backup |-> [g \in guests' |-> Console!BackupStatus(g)']]
    BY DEF Console!Shown, Console!Format, Console!RawState
  <2>9. QED BY <1>9, <2>4, <2>7, <2>8
<1>12. Told(v, at)'
  BY <1>9, <1>10, <1>11 DEF Told
<1>13. Told(told.view, told.at)'
  BY <1>6, <1>12 DEF Told
<1>14. MessagesInv'
  BY <1>1, <1>5, <1>7, <1>8, <1>13, ChangeTold DEF ConsoleInv
<1>15. PICK o \in {[kind |-> "answer", told |-> told]} : op' = o
  BY <1>5
<1>16. o.kind = "answer" /\ o.told = told
  BY <1>15
<1>17. OpInv'
  BY <1>15, <1>16 DEF OpInv, Making
<1>18. OpTold'
  BY <1>13, <1>15, <1>16 DEF OpTold, Making, Told
<1>19. AllHelped
  BY <1>1, HelpedUnlessMaking DEF ConsoleInv, Making
<1>20. AllHelped'
  BY <1>1, <1>8, <1>19 DEF AllHelped
<1>21. Console!WallIsOpen' /\ BackupInv'
  BY <1>1 DEF Console!ConfigureRule, Console!WallIsOpen, ConsoleInv, BackupInv
<1>22. QED BY <1>8, <1>14, <1>17, <1>18, <1>20, <1>21, HelpedIsEnough DEF ConsoleInv

-----------------------------------------------------------------------------

LEMMA ConsoleInit ==
  ASSUME Console!ConsoleInit
  PROVE  ConsoleInv
<1>1. /\ wire = <<>> /\ turn = 0 /\ sentAt = 0 /\ unsaidAt = 0 /\ op = Console!NoOp
      /\ held = [q \in Questions |-> <<>>] /\ page = Console!Shown /\ shownAt = 0
      /\ wall = "unknown" /\ helperAt = guests /\ unwritten = {} /\ guests \in SUBSET Invites
      /\ invited = [i \in Invites |-> IF i \in guests THEN "gone" ELSE "new"]
  BY DEF Console!ConsoleInit
<1>2. TurnsInv
  BY <1>1 DEF TurnsInv, Gone
<1>3. Console!Waiting = {}
  BY <1>1 DEF Console!Waiting
<1>4. Told(page, shownAt)
  <2>1. Told(Console!Shown, turn)
    BY <1>2, NowTold
  <2>2. QED BY <1>1, <2>1
<1>5. DOMAIN wire = {}
  <2>1. DOMAIN <<>> = {}
    OBVIOUS
  <2>2. QED BY <1>1, <2>1
<1>6. wire \in Seq({wire[i] : i \in DOMAIN wire})
  BY <1>1
<1>7. MessagesInv
  BY <1>1, <1>4, <1>5, <1>6 DEF MessagesInv
<1>8. op.kind = "none"
  BY <1>1 DEF Console!NoOp
<1>9. OpInv /\ OpTold
  BY <1>8 DEF OpInv, OpTold, Making
<1>10. BackupInv
  BY DEF BackupInv, Console!ConsoleInit
<1>11. Console!WallIsOpen /\ Console!InvitedHasHelper
  BY <1>1, <1>3 DEF Console!WallIsOpen, Console!InvitedHasHelper
<1>12. QED BY <1>2, <1>7, <1>9, <1>10, <1>11 DEF ConsoleInv

LEMMA ConsoleStepHolds ==
  ASSUME ConsoleInv, [Console!ConsoleStep]_(Console!consoleVars)
  PROVE  ConsoleInv'
<1>1. CASE UNCHANGED Console!consoleVars
  <2>1. UNCHANGED Console!hostVars /\ UNCHANGED op /\ UNCHANGED <<wire, held, page, shownAt>>
    BY <1>1 DEF Console!consoleVars, Console!hostVars
  <2>2. QED BY <2>1, HostStays, MessagesStay, PageHears
<1>2. CASE \E g \in Invites : \/ Console!Heartbeat(g) \/ Console!Silence(g) \/ Console!CommitBatch(g)
                              \/ Console!BackupStarts(g) \/ Console!FolderEnds(g) \/ Console!RunEnds(g)
                              \/ Console!AskToPair(g) \/ Console!Expire(g)
  BY <1>2, HeardHolds, BatchHolds, RunHolds, FolderHolds, InvitationEnds
<1>3. CASE \/ Console!HandleState \/ Console!ReloadState \/ Console!AnswerArrives \/ Console!Ensured
           \/ \E q \in Questions : Console!LoadEverything(q) \/ Console!SearchEnds(q)
  BY <1>3, HandleHolds, ReloadStateHolds, AnswerShown, QuestionHolds
<1>4. CASE \/ Console!ToggleReceiver \/ Console!ConfigureFirewall \/ Console!CreateHelper
           \/ Console!DeployHelper \/ Console!Respond \/ Console!ForgetGuest \/ Console!TakenFromList
  BY <1>4, ClicksHold, FirewallHolds, NewHelperHolds, ForgetHolds, TakenHolds
<1>5. CASE \/ Console!StartAsked \/ Console!StopAsked \/ Console!FirewallAnswered \/ Console!EnsureReceiver
           \/ Console!CreateEnrollment \/ Console!DeployFails \/ Console!RespondAsked \/ Console!ForgetAsked
           \/ Console!WritePortableHelper \/ Console!RunVmrun
  BY <1>5, StartHolds, StopHolds, ApprovalHolds, EnsureHolds, EnrollHolds, DeployHolds, RespondHolds,
     ForgottenHolds, WriteHolds
<1>6. QED BY <1>1, <1>2, <1>3, <1>4, <1>5 DEF Console!ConsoleStep

LEMMA ConsoleHoldsNow == ConsoleInv => Console!ConsoleHolds
<1>1. SUFFICES ASSUME ConsoleInv PROVE Console!ConsoleHolds
  OBVIOUS
<1>2. Console!PageShowsHost
  BY <1>1 DEF ConsoleInv, MessagesInv, Told, IsLatest, Console!PageShowsHost
<1>3. Console!ProtectedIsBackedUp
  BY <1>1 DEF ConsoleInv, TurnsInv, Gone, BackupInv, Console!ProtectedIsBackedUp, Console!BackupStatus
<1>4. QED BY <1>1, <1>2, <1>3 DEF ConsoleInv, Console!ConsoleHolds

-----------------------------------------------------------------------------
(* What is opened, shown and named, together.                              *)

LEMMA WaysMove ==
  ASSUME [Step]_vars
  PROVE  /\ [Drive!Next]_(Drive!mountVars) /\ [Processes!Next]_(Processes!rcloneVars)
         /\ [Processes!ServerNext]_(Processes!serverVars)
<1>1. /\ UNCHANGED mountVars => UNCHANGED Drive!mountVars
      /\ UNCHANGED rcloneVars => UNCHANGED Processes!rcloneVars
      /\ UNCHANGED serverVars => UNCHANGED Processes!serverVars
  BY DEF mountVars, rcloneVars, serverVars, Drive!mountVars, Processes!rcloneVars,
         Processes!serverVars, Processes!webVars, Processes!shareVars
<1>2. UNCHANGED wayVars => UNCHANGED mountVars /\ UNCHANGED rcloneVars /\ UNCHANGED serverVars
  BY DEF wayVars
<1>3. CASE WayNext
  BY <1>1, <1>3 DEF WayNext
<1>4. CASE UNCHANGED wayVars
  BY <1>1, <1>2, <1>4
<1>5. QED
  BY <1>3, <1>4 DEF Step, vars, PointsNext, JobsNext, CatalogNext, ReplicasNext, PacksNext, PanelNext

LEMMA PagesMove ==
  ASSUME [Step]_vars
  PROVE  /\ [Explorer!ExplorerStep]_(Explorer!explorerVars) /\ [Explorer!AliasStep]_(Explorer!aliasVars)
         /\ [Console!ConsoleStep]_(Console!consoleVars) /\ [Console!SearchStep]_(Console!searchVars)
<1>1. /\ UNCHANGED explorerVars => UNCHANGED Explorer!explorerVars
      /\ UNCHANGED aliasVars => UNCHANGED Explorer!aliasVars
  BY DEF explorerVars, aliasVars, Explorer!explorerVars, Explorer!aliasVars
<1>2. UNCHANGED consoleVars => UNCHANGED Console!consoleVars
  BY DEF consoleVars, Console!consoleVars, Console!receiverVars, Console!backupVars
<1>3. UNCHANGED searchVars => UNCHANGED Console!searchVars
  BY DEF searchVars, Console!searchVars
<1>4. UNCHANGED panelVars =>
        UNCHANGED explorerVars /\ UNCHANGED aliasVars /\ UNCHANGED consoleVars /\ UNCHANGED searchVars
  BY DEF panelVars
<1>5. CASE PanelNext
  BY <1>1, <1>2, <1>3, <1>5 DEF PanelNext
<1>6. CASE UNCHANGED panelVars
  BY <1>1, <1>2, <1>3, <1>4, <1>6
<1>7. QED
  BY <1>5, <1>6 DEF Step, vars, PointsNext, JobsNext, CatalogNext, ReplicasNext, WayNext, vaultVars,
                    PacksNext

OwnedInv ==
  /\ DriveInv /\ PortsInv /\ ServersInv
  /\ ExplorerInv /\ NamesInv /\ ConsoleInv /\ SearchInv

\* What the program has opened it knows as its own, and what its pages show is so: for
\* any number of drives, processes, files, names, guests and virtual machines, unless a
\* drive or a server is opened while another is going down, the user goes on while an
\* item is deleted, or a name is given while names are synchronised.
THEOREM OpenedIsOwnedAlways ==
  ASSUME ~Overlaps, ~Impatient, NameHabits = {}
  PROVE  Spec => []OpenedIsOwned
<1>1. /\ Drive!MountsAssumption /\ Processes!RunsAssumption /\ Processes!ServersAssumption
      /\ Explorer!ExplorerAssumption /\ Console!ConsoleAssumption
  BY RecoveryAssumption
<1>2. Init => OwnedInv
  BY <1>1, DriveInit, PortsInit, ServersInit, ExplorerInit, NamesInit, ConsoleInit, SearchInit
     DEF Init, OwnedInv
<1>3. OwnedInv /\ [Step]_vars => OwnedInv'
  <2> SUFFICES ASSUME OwnedInv, [Step]_vars PROVE OwnedInv'
    OBVIOUS
  <2>1. DriveInv' /\ PortsInv' /\ ServersInv'
    BY <1>1, WaysMove, DriveStepHolds, PortsStepHolds, ServerStepHolds DEF OwnedInv
  <2>2. ExplorerInv' /\ NamesInv'
    BY <1>1, PagesMove, ExplorerStepHolds, NamesStepHolds DEF OwnedInv
  <2>3. ConsoleInv' /\ SearchInv'
    BY <1>1, PagesMove, ConsoleStepHolds, SearchStepHolds DEF OwnedInv
  <2>4. QED BY <2>1, <2>2, <2>3 DEF OwnedInv
<1>4. OwnedInv => OpenedIsOwned
  <2> SUFFICES ASSUME OwnedInv PROVE OpenedIsOwned
    OBVIOUS
  <2>1. Drive!DriveIsOwned /\ Processes!OpenIsKnown /\ Processes!PortsApart
    BY DriveIsOwnedNow, OpenIsKnownNow DEF OwnedInv, PortsInv
  <2>2. Explorer!ExplorerKeeps /\ Explorer!NameIsKept
    BY ExplorerKeepsNow, NameIsKeptNow DEF OwnedInv
  <2>3. Console!ConsoleHolds /\ Console!SearchHolds
    BY ConsoleHoldsNow, SearchHoldsNow DEF OwnedInv
  <2>4. QED BY <2>1, <2>2, <2>3 DEF OpenedIsOwned
<1>5. QED BY <1>2, <1>3, <1>4, PTL DEF Spec, Step
=============================================================================

---------------------------- MODULE RunStoreProofs ----------------------------
(***************************************************************************)
(* The run store, for any number of producers and any artifacts: on its    *)
(* own, and under the run command and the live view that write to it.      *)
(***************************************************************************)
EXTENDS LiveRun, FiniteSetTheorems, SequenceTheorems, TLAPS

Fields == {"running", "artifacts", "index", "update", "truncated", "saved", "failed", "dead"}

(* A run in front of a listing it is not in. *)
LEMMA ListedInFront ==
  ASSUME NEW p \in Producer, NEW runs \in Seq(Producer), IsFiniteSet(Range(runs)),
         p \notin Range(runs), Len(runs) = Cardinality(Range(runs))
  PROVE  /\ Range(<<p>> \o runs) = Range(runs) \cup {p}
         /\ IsFiniteSet(Range(<<p>> \o runs))
         /\ Len(<<p>> \o runs) = Cardinality(Range(<<p>> \o runs))
<1> DEFINE front == <<p>>
<1>1. front \in Seq(Producer) /\ Len(front) = 1 /\ Range(front) = {p}
  BY DEF Range
<1> HIDE DEF front
<1>2. Range(front \o runs) = Range(runs) \cup {p}
  <2>1. Range(front \o runs) = Range(front) \cup Range(runs)
    BY <1>1, RangeConcatenation
  <2>2. QED BY <1>1, <2>1
<1>3. Len(front \o runs) = 1 + Len(runs)
  <2>1. Len(front \o runs) = Len(front) + Len(runs)
    BY <1>1, ConcatProperties
  <2>2. QED BY <1>1, <2>1
<1>4. /\ IsFiniteSet(Range(runs) \cup {p})
      /\ Cardinality(Range(runs) \cup {p}) = Cardinality(Range(runs)) + 1
  BY FS_AddElement
<1>5. Cardinality(Range(runs)) \in Nat
  BY FS_CardinalityType
<1>6. Len(front \o runs) = Cardinality(Range(front \o runs))
  BY <1>2, <1>3, <1>4, <1>5
<1>7. QED BY <1>2, <1>4, <1>6 DEF front

(* The next of the distinct artifacts goes to the first n of them. *)
LEMMA NextArtifact ==
  ASSUME NEW S, NEW files \in Seq(S), IsInjective(files), NEW D, IsFiniteSet(D),
         NEW n, n = Cardinality(D), n < Len(files), D = {files[i] : i \in 1 .. n}
  PROVE  /\ n \in Nat /\ Len(files) \in Nat
         /\ IsFiniteSet(D \cup {files[n + 1]})
         /\ Cardinality(D \cup {files[n + 1]}) = n + 1
         /\ D \cup {files[n + 1]} = {files[i] : i \in 1 .. n + 1}
         /\ n + 1 = Len(files) => D \cup {files[n + 1]} = Range(files)
<1>1. n \in Nat /\ Len(files) \in Nat /\ DOMAIN files = 1 .. Len(files)
  BY FS_CardinalityType
<1>2. files[n + 1] \notin D
  <2>1. SUFFICES ASSUME NEW i \in 1 .. n, files[i] = files[n + 1] PROVE FALSE
    OBVIOUS
  <2>2. i \in DOMAIN files /\ n + 1 \in DOMAIN files /\ i # n + 1
    BY <1>1
  <2>3. QED BY <2>1, <2>2 DEF IsInjective
<1>3. /\ IsFiniteSet(D \cup {files[n + 1]})
      /\ Cardinality(D \cup {files[n + 1]}) = n + 1
  BY <1>2, FS_AddElement
<1>4. D \cup {files[n + 1]} = {files[i] : i \in 1 .. n + 1}
  <2>1. \A i : i \in 1 .. n + 1 <=> i \in 1 .. n \/ i = n + 1
    BY <1>1
  <2>2. QED BY <2>1
<1>5. Range(files) = {files[i] : i \in 1 .. Len(files)}
  BY <1>1 DEF Range
<1>6. QED BY <1>1, <1>3, <1>4, <1>5

(* Steps that leave the directories alone. *)
LEMMA SameDirs ==
  ASSUME ArtifactsInOrder, UNCHANGED dir,
         \A p \in Producer :
           \/ saving'[p] = saving[p]
           \/ saving[p] = "running" /\ saving'[p] = "artifacts"
           \/ saving'[p] \in {"failed", "dead"}
           \/ /\ saving[p] \in {"index", "update", "truncated"}
              /\ saving'[p] \in {"index", "update", "truncated", "saved"}
  PROVE  ArtifactsInOrder'
  BY DEF ArtifactsInOrder

(* Steps of a producer outside of appendIndex, and its death anywhere.     *)
LEMMA AsideInv ==
  ASSUME StoreInv, StoreTypeOK', NEW p \in Producer,
         UNCHANGED <<index, known, overlapped, finished>>,
         saving[p] \notin {"saved", "failed", "dead"}, saving'[p] \in {"artifacts", "index", "failed", "dead"},
         saving[p] = "truncated" => saving'[p] \in {"failed", "dead"},
         \A q \in Producer \ {p} : saving'[q] = saving[q]
  PROVE  ListedAreSaved' /\ OneAtATime'
<1>1. Saved' = Saved
  BY DEF Saved
<1>2. Updating' = Updating \ {p}
  BY DEF Updating
<1>3. ListedAreSaved'
  BY <1>1 DEF StoreInv, ListedAreSaved
<1>4. OneAtATime'
  <2>1. SUFFICES ASSUME ~ overlapped PROVE OneAtATime'
    BY DEF OneAtATime
  <2>2. \A q, r \in Updating' : q = r
    BY <1>2, <2>1 DEF StoreInv, OneAtATime
  <2>3. (index.state # "torn" => Lists(index.runs))'
    BY <1>1, <2>1 DEF StoreInv, OneAtATime, Lists
  <2>4. (index.state = "torn" =>
           \E q \in Producer : saving[q] \in {"truncated", "failed", "dead"})'
    <3>1. SUFFICES ASSUME index.state = "torn"
                   PROVE  \E q \in Producer : saving'[q] \in {"truncated", "failed", "dead"}
      OBVIOUS
    <3>2. PICK q \in Producer : saving[q] \in {"truncated", "failed", "dead"}
      BY <2>1, <3>1 DEF StoreInv, OneAtATime
    <3>3. CASE q # p
      BY <3>2, <3>3
    <3>4. CASE q = p
      BY <3>2, <3>4
    <3>5. QED BY <3>3, <3>4
  <2>5. (\A q \in Updating :
           /\ Lists(known[q])
           /\ saving[q] = "update" => index.state # "torn" /\ known[q] = index.runs
           /\ saving[q] = "truncated" => index.state = "torn")'
    <3>1. \A q \in Updating' : q \in Updating /\ saving'[q] = saving[q]
      BY <1>2 DEF Updating
    <3>2. QED BY <1>1, <2>1, <3>1 DEF StoreInv, OneAtATime, Lists
  <2>6. QED BY <2>2, <2>3, <2>4, <2>5 DEF OneAtATime
<1>5. QED BY <1>3, <1>4

LEMMA BeginSaveInv ==
  ASSUME StoreInv, NEW p \in Producer, BeginSave(p)
  PROVE  StoreInv'
<1>1. PICK to \in {"artifacts", "failed"} :
        saving[p] = "running" /\ saving' = [saving EXCEPT ![p] = to]
  BY DEF BeginSave, Move
<1>2. UNCHANGED <<dir, index, known, overlapped, finished>>
  BY DEF BeginSave
<1>3. saving \in [Producer -> Fields]
  BY DEF StoreInv, StoreTypeOK, Fields
<1>4. saving'[p] = to /\ \A q \in Producer \ {p} : saving'[q] = saving[q]
  BY <1>1, <1>3
<1>5. StoreTypeOK'
  BY <1>1, <1>2 DEF StoreInv, StoreTypeOK
<1>6. ArtifactsInOrder'
  BY <1>1, <1>2, <1>4, SameDirs DEF StoreInv
<1>7. QED BY <1>1, <1>2, <1>4, <1>5, <1>6, AsideInv DEF StoreInv

(* The next artifact is not in the directory yet. *)
LEMMA WriteArtifactInv ==
  ASSUME StoreInv, NEW p \in Producer, WriteArtifact(p)
  PROVE  StoreInv'
<1> DEFINE next == Cardinality(dir[p]) + 1
<1> DEFINE file == Artifacts[p][next]
<1>1. UNCHANGED <<index, known, overlapped, finished>> /\ saving[p] = "artifacts"
  BY DEF WriteArtifact
<1>2. saving \in [Producer -> Fields] /\ dir = [q \in Producer |-> dir[q]]
  BY DEF StoreInv, StoreTypeOK, Fields
<1>3. Artifacts[p] \in Seq(Range(Artifacts[p])) /\ IsInjective(Artifacts[p])
  BY RunStoreAssumption
<1>4. /\ IsFiniteSet(dir[p]) /\ Cardinality(dir[p]) < Len(Artifacts[p])
      /\ dir[p] = {Artifacts[p][i] : i \in 1 .. Cardinality(dir[p])}
  BY <1>1 DEF StoreInv, ArtifactsInOrder
<1>5. CASE saving' = [saving EXCEPT ![p] = "failed"] /\ UNCHANGED dir
  <2>1. saving'[p] = "failed" /\ \A q \in Producer \ {p} : saving'[q] = saving[q]
    BY <1>2, <1>5
  <2>2. StoreTypeOK'
    BY <1>1, <1>5 DEF StoreInv, StoreTypeOK
  <2>3. ArtifactsInOrder'
    BY <1>5, <2>1, SameDirs DEF StoreInv
  <2>4. QED BY <1>1, <2>1, <2>2, <2>3, AsideInv DEF StoreInv
<1>6. CASE /\ dir' = [dir EXCEPT ![p] = @ \cup {file}]
           /\ saving' = IF next < Len(Artifacts[p]) THEN saving
                        ELSE [saving EXCEPT ![p] = "index"]
  <2>1. /\ saving'[p] = IF next < Len(Artifacts[p]) THEN "artifacts" ELSE "index"
        /\ \A q \in Producer \ {p} : saving'[q] = saving[q]
    BY <1>1, <1>2, <1>6
  <2>2. dir'[p] = dir[p] \cup {file} /\ \A q \in Producer \ {p} : dir'[q] = dir[q]
    BY <1>2, <1>6
  <2>3. StoreTypeOK'
    BY <1>1, <1>2, <1>6 DEF StoreInv, StoreTypeOK
  <2>4. /\ Cardinality(dir[p]) \in Nat /\ Len(Artifacts[p]) \in Nat
        /\ IsFiniteSet(dir[p] \cup {file}) /\ Cardinality(dir[p] \cup {file}) = next
        /\ dir[p] \cup {file} = {Artifacts[p][i] : i \in 1 .. next}
        /\ next = Len(Artifacts[p]) => dir[p] \cup {file} = Range(Artifacts[p])
    <3> DEFINE n == Cardinality(dir[p])
    <3>1. n = Cardinality(dir[p]) /\ n < Len(Artifacts[p])
      BY <1>4
    <3>2. dir[p] = {Artifacts[p][i] : i \in 1 .. n}
      BY <1>4
    <3>3. IsFiniteSet(dir[p])
      BY <1>4
    <3> DEFINE D == dir[p]
    <3> DEFINE files == Artifacts[p]
    <3>4. files \in Seq(Range(files)) /\ IsInjective(files) /\ IsFiniteSet(D)
          /\ n = Cardinality(D) /\ n < Len(files) /\ D = {files[i] : i \in 1 .. n}
      BY <1>3, <3>1, <3>2, <3>3
    <3> HIDE DEF n, D, files
    <3>5. /\ n \in Nat /\ Len(files) \in Nat
          /\ IsFiniteSet(D \cup {files[n + 1]})
          /\ Cardinality(D \cup {files[n + 1]}) = n + 1
          /\ D \cup {files[n + 1]} = {files[i] : i \in 1 .. n + 1}
          /\ n + 1 = Len(files) => D \cup {files[n + 1]} = Range(files)
      BY <3>4, NextArtifact
    <3>6. QED BY <3>5 DEF n, D, files
  <2>5. IsFiniteSet(dir'[p]) /\ Cardinality(dir'[p]) = next
    BY <2>2, <2>4
  <2>6. /\ dir'[p] = {Artifacts[p][i] : i \in 1 .. next}
        /\ next = Len(Artifacts[p]) => dir'[p] = Range(Artifacts[p])
    BY <2>2, <2>4
  <2>7. next < Len(Artifacts[p]) \/ next = Len(Artifacts[p])
    BY <1>4, <2>4
  <2>8. ArtifactsInOrder'
    <3>1. ASSUME NEW q \in Producer
          PROVE  (/\ IsFiniteSet(dir[q])
                  /\ saving[q] \in {"running", "artifacts"} =>
                       /\ Cardinality(dir[q]) < Len(Artifacts[q])
                       /\ dir[q] = {Artifacts[q][i] : i \in 1 .. Cardinality(dir[q])}
                  /\ saving[q] \in {"index", "update", "truncated", "saved"} =>
                       dir[q] = Range(Artifacts[q]))'
      <4>1. CASE q # p
        BY <2>1, <2>2, <4>1 DEF StoreInv, ArtifactsInOrder
      <4>2. CASE q = p /\ next < Len(Artifacts[p])
        <5>1. saving'[q] = "artifacts"
          BY <2>1, <4>2
        <5>2. QED BY <2>5, <2>6, <4>2, <5>1
      <4>3. CASE q = p /\ next = Len(Artifacts[p])
        <5>1. saving'[q] = "index"
          BY <2>1, <2>4, <4>3
        <5>2. QED BY <2>5, <2>6, <4>3, <5>1
      <4>4. QED BY <2>7, <4>1, <4>2, <4>3
    <3>2. QED BY <3>1 DEF ArtifactsInOrder
  <2>9. QED BY <1>1, <2>1, <2>3, <2>8, AsideInv DEF StoreInv
<1>7. QED BY <1>5, <1>6 DEF WriteArtifact

LEMMA SaveFaultInv ==
  ASSUME StoreInv, NEW p \in Producer, SaveFault(p)
  PROVE  StoreInv'
<1>1. PICK to \in {"failed", "dead"} : saving' = [saving EXCEPT ![p] = to]
  BY DEF SaveFault, IndexError, Crash
<1>2. /\ UNCHANGED <<dir, index, known, overlapped, finished>>
      /\ saving[p] \notin {"saved", "failed", "dead"}
  BY DEF SaveFault, IndexError, Crash
<1>3. saving \in [Producer -> Fields]
  BY DEF StoreInv, StoreTypeOK, Fields
<1>4. saving'[p] = to /\ \A q \in Producer \ {p} : saving'[q] = saving[q]
  BY <1>1, <1>3
<1>5. StoreTypeOK'
  BY <1>1, <1>2 DEF StoreInv, StoreTypeOK
<1>6. ArtifactsInOrder'
  BY <1>2, <1>4, SameDirs DEF StoreInv
<1>7. QED BY <1>1, <1>2, <1>4, <1>5, <1>6, AsideInv DEF StoreInv

-------------------------------------------------------------------------------
(* Inside appendIndex. *)

LEMMA ReadIndexInv ==
  ASSUME StoreInv, NEW p \in Producer, ReadIndex(p)
  PROVE  StoreInv'
<1> DEFINE to == IF index.state = "torn" THEN "failed" ELSE "update"
<1>1. /\ saving[p] = "index" /\ saving' = [saving EXCEPT ![p] = to]
      /\ known' = [known EXCEPT ![p] = index.runs]
      /\ overlapped' = (overlapped \/ Updating # {})
      /\ UNCHANGED <<dir, index, finished>>
  BY DEF ReadIndex
<1>2. /\ saving \in [Producer -> Fields] /\ known \in [Producer -> Seq(Producer)]
      /\ index.runs \in Seq(Producer)
  BY DEF StoreInv, StoreTypeOK, Fields
<1>3. /\ saving'[p] = to /\ \A q \in Producer \ {p} : saving'[q] = saving[q]
      /\ known'[p] = index.runs /\ \A q \in Producer \ {p} : known'[q] = known[q]
  BY <1>1, <1>2
<1>4. StoreTypeOK'
  <2>1. overlapped' \in BOOLEAN
    BY <1>1 DEF StoreInv, StoreTypeOK
  <2>2. QED BY <1>1, <1>2, <2>1 DEF StoreInv, StoreTypeOK
<1>5. ArtifactsInOrder'
  BY <1>1, <1>3, SameDirs DEF StoreInv
<1>6. Saved' = Saved
  BY <1>1, <1>3 DEF Saved
<1>7. ListedAreSaved'
  BY <1>1, <1>3, <1>6 DEF StoreInv, ListedAreSaved
<1>8. OneAtATime'
  <2>1. SUFFICES ASSUME ~ overlapped, Updating = {} PROVE OneAtATime'
    BY <1>1 DEF OneAtATime
  <2>2. Updating' \subseteq {p}
    BY <1>3, <2>1 DEF Updating
  <2>3. index.state # "torn" => Lists(index.runs)'
    BY <1>1, <1>6, <2>1 DEF StoreInv, OneAtATime, Lists
  <2>4. index.state = "torn" =>
          \E q \in Producer : saving'[q] \in {"truncated", "failed", "dead"}
    BY <1>1, <1>3, <2>1 DEF StoreInv, OneAtATime
  <2>5. saving'[p] = "update" => index.state # "torn"
    BY <1>3
  <2>6. QED BY <1>1, <1>3, <2>2, <2>3, <2>4, <2>5 DEF OneAtATime, Updating, Lists
<1>9. QED BY <1>4, <1>5, <1>7, <1>8 DEF StoreInv

LEMMA TruncateInv ==
  ASSUME StoreInv, NEW p \in Producer, Truncate(p)
  PROVE  StoreInv'
<1>1. /\ saving[p] = "update" /\ saving' = [saving EXCEPT ![p] = "truncated"]
      /\ index' = Torn /\ UNCHANGED <<dir, known, overlapped, finished>>
  BY DEF Truncate, Move
<1>2. saving \in [Producer -> Fields]
  BY DEF StoreInv, StoreTypeOK, Fields
<1>3. saving'[p] = "truncated" /\ \A q \in Producer \ {p} : saving'[q] = saving[q]
  BY <1>1, <1>2
<1>4. index'.state = "torn" /\ index'.runs = <<>> /\ Range(index'.runs) = {}
  BY <1>1 DEF Torn, Range
<1>5. StoreTypeOK'
  BY <1>1, <1>2 DEF StoreInv, StoreTypeOK, Torn
<1>6. ArtifactsInOrder'
  BY <1>1, <1>3, SameDirs DEF StoreInv
<1>7. Saved' = Saved
  BY <1>1, <1>3 DEF Saved
<1>8. ListedAreSaved'
  BY <1>1, <1>4, <1>7 DEF StoreInv, ListedAreSaved
<1>9. OneAtATime'
  <2>1. SUFFICES ASSUME ~ overlapped PROVE OneAtATime'
    BY <1>1 DEF OneAtATime
  <2>2. Updating' = Updating /\ Updating = {p}
    BY <1>1, <1>3, <2>1 DEF StoreInv, OneAtATime, Updating
  <2>3. Lists(known[p])'
    BY <1>1, <1>7, <2>1, <2>2 DEF StoreInv, OneAtATime, Lists
  <2>4. QED BY <1>3, <1>4, <2>2, <2>3 DEF OneAtATime
<1>10. QED BY <1>5, <1>6, <1>8, <1>9 DEF StoreInv

LEMMA RewriteInv ==
  ASSUME StoreInv, NEW p \in Producer, Rewrite(p)
  PROVE  StoreInv'
<1>1. /\ saving[p] = "truncated" /\ saving' = [saving EXCEPT ![p] = "saved"]
      /\ index' = Whole(<<p>> \o known[p]) \/ (index' = Torn /\ index.state # "torn")
      /\ finished' = <<p>> \o finished /\ UNCHANGED <<dir, known, overlapped>>
  BY DEF Rewrite, Move
<1>2. saving \in [Producer -> Fields] /\ known[p] \in Seq(Producer)
  BY DEF StoreInv, StoreTypeOK, Fields
<1>3. saving'[p] = "saved" /\ \A q \in Producer \ {p} : saving'[q] = saving[q]
  BY <1>1, <1>2
<1> DEFINE front == <<p>>
<1>4. front \in Seq(Producer) /\ Range(front) = {p} /\ <<>> \in Seq(Producer) /\ Range(<<>>) = {}
  BY DEF Range
<1>5. <<p>> \o known[p] \in Seq(Producer)
  BY <1>2
<1>6. StoreTypeOK'
  <2>1. index' \in [state : {"none", "torn", "whole"}, runs : Seq(Producer)]
    <3> DEFINE runs == <<p>> \o known[p]
    <3> HIDE DEF runs
    <3>1. runs \in Seq(Producer) /\ (index' = Whole(runs) \/ index' = Torn)
      BY <1>1, <1>5 DEF runs
    <3>2. Whole(runs) \in [state : {"none", "torn", "whole"}, runs : Seq(Producer)]
      BY <3>1 DEF Whole
    <3>3. Torn \in [state : {"none", "torn", "whole"}, runs : Seq(Producer)]
      BY DEF Torn
    <3>4. QED BY <3>1, <3>2, <3>3
  <2>2. finished' \in Seq(Producer)
    <3>1. finished \in Seq(Producer)
      BY DEF StoreInv, StoreTypeOK
    <3> HIDE DEF front
    <3>2. QED BY <1>1, <1>4, <3>1 DEF front
  <2>3. QED BY <1>1, <1>2, <2>1, <2>2 DEF StoreInv, StoreTypeOK
<1>7. ArtifactsInOrder'
  BY <1>1, <1>3, SameDirs DEF StoreInv
<1>8. Saved' = Saved \cup {p} /\ p \notin Saved
  BY <1>1, <1>3 DEF Saved
<1>9. Range(<<p>> \o known[p]) = Range(known[p]) \cup {p}
  <2>1. Range(front \o known[p]) = Range(front) \cup Range(known[p])
    <3> HIDE DEF front
    <3>1. QED BY <1>2, <1>4, RangeConcatenation
  <2>2. QED BY <1>4, <2>1
<1>10. ListedAreSaved'
  <2>1. Range(index'.runs) \subseteq Saved'
    <3> DEFINE runs == <<p>> \o known[p]
    <3> HIDE DEF runs
    <3>1. Range(runs) \subseteq Saved'
      BY <1>8, <1>9 DEF StoreInv, ListedAreSaved, runs
    <3>2. index' = Whole(runs) \/ index' = Torn
      BY <1>1 DEF runs
    <3>3. QED BY <1>4, <3>1, <3>2 DEF Whole, Torn
  <2>2. \A q \in Producer : Range(known'[q]) \subseteq Saved'
    BY <1>1, <1>8 DEF StoreInv, ListedAreSaved
  <2>3. QED BY <2>1, <2>2 DEF ListedAreSaved
<1>11. OneAtATime'
  <2>1. SUFFICES ASSUME ~ overlapped PROVE OneAtATime'
    BY <1>1 DEF OneAtATime
  <2>2. Updating = {p} /\ Updating' = {}
    BY <1>1, <1>3, <2>1 DEF StoreInv, OneAtATime, Updating
  <2>3. index.state = "torn" /\ Lists(known[p])
    BY <1>1, <2>1, <2>2 DEF StoreInv, OneAtATime
  <2>4. index'.state = "whole" /\ index'.runs = <<p>> \o known[p]
    BY <1>1, <2>3 DEF Whole
  <2>5. /\ Range(index'.runs) = Saved' /\ IsFiniteSet(Range(index'.runs))
        /\ Len(index'.runs) = Cardinality(Range(index'.runs))
    BY <1>2, <1>8, <1>9, <2>3, <2>4, ListedInFront DEF Lists
  <2>6. index'.runs = finished'
    BY <1>1, <2>3, <2>4 DEF Lists
  <2>7. Lists(index.runs)'
    BY <2>5, <2>6 DEF Lists
  <2>8. QED BY <2>2, <2>4, <2>7 DEF OneAtATime
<1>12. QED BY <1>6, <1>7, <1>10, <1>11 DEF StoreInv

-------------------------------------------------------------------------------

LEMMA StoreStepInv ==
  ASSUME StoreInv, [StoreNext]_storeVars
  PROVE  StoreInv'
<1>1. CASE \E p \in Producer : BeginSave(p)
  BY <1>1, BeginSaveInv
<1>2. CASE \E p \in Producer : SaveStep(p)
  BY <1>2, WriteArtifactInv, ReadIndexInv, TruncateInv, RewriteInv DEF SaveStep
<1>3. CASE \E p \in Producer : SaveFault(p)
  BY <1>3, SaveFaultInv
<1>4. CASE UNCHANGED storeVars
  <2>1. StoreTypeOK' /\ ArtifactsInOrder'
    BY <1>4 DEF storeVars, StoreInv, StoreTypeOK, ArtifactsInOrder
  <2>2. ListedAreSaved'
    BY <1>4 DEF storeVars, StoreInv, ListedAreSaved, Saved
  <2>3. OneAtATime'
    BY <1>4 DEF storeVars, StoreInv, OneAtATime, Saved, Updating, Lists
  <2>4. QED BY <2>1, <2>2, <2>3 DEF StoreInv
<1>5. QED BY <1>1, <1>2, <1>3, <1>4 DEF StoreNext

LEMMA StoreInitInv == StoreInit => StoreInv
<1>1. SUFFICES ASSUME StoreInit PROVE StoreInv
  OBVIOUS
<1>2. /\ \A p \in Producer : dir[p] = {} /\ saving[p] = "running" /\ known[p] = <<>>
      /\ index.state = "none" /\ index.runs = <<>> /\ finished = <<>>
  BY <1>1 DEF StoreInit, NoIndex
<1>3. StoreTypeOK
  <2> DEFINE none == <<>>
  <2>1. none \in Seq(Producer)
    OBVIOUS
  <2>2. index = [state |-> "none", runs |-> none] /\ known = [p \in Producer |-> none]
    BY <1>1 DEF StoreInit, NoIndex
  <2> HIDE DEF none
  <2>3. index \in [state : {"none", "torn", "whole"}, runs : Seq(Producer)]
    BY <2>1, <2>2
  <2>4. known \in [Producer -> Seq(Producer)]
    BY <2>1, <2>2
  <2>5. finished \in Seq(Producer)
    BY <1>2, <2>1
  <2>6. QED BY <1>1, <2>3, <2>4, <2>5 DEF StoreInit, StoreTypeOK
<1>4. Saved = {} /\ Updating = {} /\ Range(<<>>) = {}
  BY <1>2 DEF Saved, Updating, Range
<1>5. ArtifactsInOrder
  <2>1. \A p \in Producer : Len(Artifacts[p]) \in Nat /\ Len(Artifacts[p]) > 0
    BY RunStoreAssumption, EmptySeq
  <2>2. IsFiniteSet({}) /\ Cardinality({}) = 0 /\ 1 .. 0 = {}
    BY FS_EmptySet
  <2>3. \A p \in Producer : {Artifacts[p][i] : i \in 1 .. Cardinality({})} = {}
    BY <2>2
  <2>4. QED BY <1>2, <2>1, <2>2, <2>3 DEF ArtifactsInOrder
<1>6. ListedAreSaved
  BY <1>2, <1>4 DEF ListedAreSaved
<1>7. OneAtATime
  <2>1. Lists(index.runs)
    BY <1>2, <1>4, FS_EmptySet DEF Lists
  <2>2. QED BY <1>2, <1>4, <2>1 DEF OneAtATime
<1>8. QED BY <1>3, <1>5, <1>6, <1>7 DEF StoreInv

(* StoreInv is an invariant of the store. *)
THEOREM Inductive == StoreSpec => []StoreInv
<1>1. StoreInv /\ [StoreNext]_storeVars => StoreInv'
  BY StoreStepInv
<1>2. QED BY <1>1, StoreInitInv, PTL DEF StoreSpec

(* Whoever dies and however producers interleave, a listed run is whole;   *)
(* and while their updates of the index do not overlap, every run that was *)
(* saved is listed once, the latest first.                                 *)
THEOREM Sound == StoreSpec => []StoreSound
<1>1. StoreInv => StoreSound
  <2>1. SUFFICES ASSUME StoreInv PROVE StoreSound
    OBVIOUS
  <2>2. ListedRunsAreWhole
    BY <2>1 DEF StoreInv, ListedRunsAreWhole, ListedAreSaved, ArtifactsInOrder, Saved
  <2>3. SequentialSavesAreListed
    BY <2>1 DEF StoreInv, SequentialSavesAreListed, OneAtATime, Lists, Saved, Updating
  <2>4. QED BY <2>2, <2>3 DEF StoreSound
<1>2. QED BY <1>1, Inductive, PTL

(* The run command, its poller and its live view write to the store by its *)
(* operations only.                                                        *)
LEMMA LiveStepIsStoreStep == [Next]_vars => [StoreNext]_storeVars
<1>1. SUFFICES ASSUME [Next]_vars PROVE [StoreNext]_storeVars
  OBVIOUS
<1>2. CASE \/ KillSwitch \/ PoolReturns \/ CtrlC \/ BrowserAbort \/ Scrape \/ TakeSignal
           \/ TakeResult \/ PollerStops \/ Complete \/ Announce \/ BatchExit \/ LiveExit
           \/ (\E b \in Page : Open(b) \/ StreamDone(b) \/ Leave(b))
           \/ Done \/ UNCHANGED vars
  BY <1>2 DEF KillSwitch, PoolReturns, CtrlC, BrowserAbort, Scrape, TakeSignal,
     TakeResult, PollerStops, Complete, Announce, BatchExit, LiveExit, Open,
     StreamDone, Leave, Done, vars
<1>3. CASE Evaluate \/ MySave \/ MyFault
  BY <1>3, LiveRunAssumption DEF Evaluate, MySave, MyFault, StoreNext
<1>4. CASE \E p \in Producer : OthersSave(p)
  BY <1>4 DEF OthersSave, StoreNext
<1>5. QED BY <1>1, <1>2, <1>3, <1>4 DEF Next, Command

(* A run of the run command is one of the store. *)
THEOREM RunsUseTheStore == Spec => StoreSpec
<1>1. Init => StoreInit
  BY DEF Init
<1>2. QED BY <1>1, LiveStepIsStoreStep, PTL DEF Spec, StoreSpec

(* The store is sound whatever ends a run, a watched one or a batch one,   *)
(* and whoever else writes to it.                                          *)
THEOREM SoundUnderRuns == Spec => []StoreSound
  BY RunsUseTheStore, Sound, PTL

-------------------------------------------------------------------------------
(* The command and its live view. *)

(* What is saved stays saved, whichever producer moves. *)
LEMMA SavedStays ==
  ASSUME StoreTypeOK, [StoreNext]_storeVars, NEW p \in Producer, saving[p] = "saved"
  PROVE  saving'[p] = "saved"
<1>1. saving \in [Producer -> Fields]
  BY DEF StoreTypeOK, Fields
<1>2. CASE UNCHANGED storeVars
  BY <1>2 DEF storeVars
<1>3. ASSUME NEW q \in Producer, BeginSave(q) \/ SaveStep(q) \/ SaveFault(q)
      PROVE  saving[q] # "saved" /\ \A r \in Producer \ {q} : saving'[r] = saving[r]
  BY <1>1, <1>3 DEF BeginSave, SaveStep, WriteArtifact, ReadIndex, Truncate, Rewrite,
     SaveFault, IndexError, Crash, Move
<1>4. QED BY <1>2, <1>3 DEF StoreNext

LEMMA LiveStart ==
  ASSUME Init
  PROVE  LiveInv
<1>1. LiveTypeOK
  BY DEF Init, LiveTypeOK, NoURL
<1>2. VerdictStands
  BY DEF Init, VerdictStands, Evaluated
<1>3. InterruptOnRecord
  BY DEF Init, InterruptOnRecord, Evaluated
<1>4. StoredFirst
  BY DEF Init, StoredFirst, NoURL
<1>5. QED BY <1>1, <1>2, <1>3, <1>4 DEF LiveInv

(* The pool, the signals, the poller and the other producers. *)
LEMMA AroundTheCommand ==
  ASSUME LiveInv, saving[Me] = "saved" => saving'[Me] = "saved",
         \/ KillSwitch \/ PoolReturns \/ CtrlC \/ BrowserAbort \/ Scrape
         \/ TakeSignal \/ TakeResult \/ PollerStops \/ UNCHANGED liveVars
  PROVE  LiveInv'
<1> USE DEF LiveInv
<1>1. CASE KillSwitch
  <2>1. LiveTypeOK'
    <3>1. pool' \in [state : {"running", "returned"}, aborted : BOOLEAN]
      BY <1>1 DEF LiveTypeOK, KillSwitch
    <3>2. QED BY <1>1, <3>1 DEF LiveTypeOK, KillSwitch
  <2>2. at' = at /\ ~ Evaluated /\ at \in {"running", "unwinding"}
    BY <1>1 DEF KillSwitch, VerdictStands, Evaluated
  <2>3. QED BY <1>1, <2>1, <2>2 DEF KillSwitch, VerdictStands, InterruptOnRecord, StoredFirst, Evaluated
<1>2. CASE PoolReturns
  <2>1. LiveTypeOK'
    BY <1>2 DEF LiveTypeOK, PoolReturns
  <2>2. pool'.state = "returned" /\ pool'.aborted = pool.aborted
    BY <1>2 DEF PoolReturns, LiveTypeOK
  <2>3. QED BY <1>2, <2>1, <2>2 DEF PoolReturns, VerdictStands, InterruptOnRecord, StoredFirst, Evaluated
<1>3. CASE CtrlC
  <2>1. LiveTypeOK'
    <3>1. ctx' \in BOOLEAN /\ cut' \in BOOLEAN
      BY <1>3, Zenon DEF LiveTypeOK, CtrlC
    <3>2. QED BY <1>3, <3>1 DEF LiveTypeOK, CtrlC
  <2>2. Evaluated => pool.state = "returned"
    BY DEF VerdictStands, Evaluated
  <2>3. VerdictStands' /\ StoredFirst'
    BY <1>3 DEF CtrlC, VerdictStands, StoredFirst, Evaluated
  <2>4. InterruptOnRecord'
    BY <1>3, <2>2 DEF CtrlC, InterruptOnRecord, Evaluated, LiveTypeOK
  <2>5. QED BY <2>1, <2>3, <2>4
<1>4. CASE BrowserAbort
  BY <1>4 DEF LiveTypeOK, BrowserAbort, VerdictStands, InterruptOnRecord, StoredFirst, Evaluated
<1>5. CASE Scrape
  <2>1. LiveTypeOK'
    BY <1>5 DEF LiveTypeOK, Scrape
  <2>2. ~ Evaluated /\ ~ Evaluated'
    BY <1>5 DEF Scrape, VerdictStands, Evaluated
  <2>3. QED BY <1>5, <2>1, <2>2 DEF Scrape, VerdictStands, InterruptOnRecord, StoredFirst, Evaluated
<1>6. CASE TakeSignal
  BY <1>6 DEF LiveTypeOK, TakeSignal, VerdictStands, InterruptOnRecord, StoredFirst, Evaluated
<1>7. CASE TakeResult
  <2>1. LiveTypeOK'
    BY <1>7 DEF LiveTypeOK, TakeResult
  <2>2. ~ Evaluated' /\ (verdict'.ended <=> watched /\ ctx)
    BY <1>7 DEF TakeResult, Evaluated, LiveTypeOK
  <2>3. QED BY <1>7, <2>1, <2>2 DEF TakeResult, VerdictStands, InterruptOnRecord, StoredFirst, Evaluated,
          LiveTypeOK
<1>8. CASE PollerStops
  <2>1. LiveTypeOK'
    BY <1>8 DEF LiveTypeOK, PollerStops
  <2>2. ~ Evaluated /\ ~ Evaluated'
    BY <1>8 DEF PollerStops, VerdictStands, Evaluated
  <2>3. QED BY <1>8, <2>1, <2>2 DEF PollerStops, VerdictStands, InterruptOnRecord, StoredFirst, Evaluated
<1>9. CASE UNCHANGED liveVars
  BY <1>9 DEF liveVars, LiveTypeOK, VerdictStands, InterruptOnRecord, StoredFirst, Evaluated
<1>10. QED BY <1>1, <1>2, <1>3, <1>4, <1>5, <1>6, <1>7, <1>8, <1>9

(* From the verdict to the exit, and the browser. *)
LEMMA SettlingTheRun ==
  ASSUME LiveInv, saving[Me] = "saved" => saving'[Me] = "saved",
         \/ Evaluate \/ Complete \/ Announce \/ BatchExit \/ LiveExit
         \/ \E b \in Page : Open(b) \/ StreamDone(b) \/ Leave(b)
  PROVE  LiveInv'
<1> USE DEF LiveInv
<1>1. CASE Evaluate
  <2>1. PICK breached \in BOOLEAN :
          verdict' = [ended |-> verdict.ended \/ (~ watched /\ ctx), aborted |-> pool.aborted,
                      breached |-> breached, samples |-> poller.samples]
    BY <1>1 DEF Evaluate
  <2>2. /\ at = "joining" /\ poller.state = "stopped" /\ at' = "saving" /\ exit = -1
        /\ UNCHANGED <<watched, pool, ctx, sigc, pressed, poller, live, page, exit, cut>>
    BY <1>1 DEF Evaluate, Alive
  <2>3. /\ verdict'.ended <=> verdict.ended \/ (~ watched /\ ctx)
        /\ verdict'.aborted = pool.aborted /\ verdict'.samples = poller.samples
    BY <2>1
  <2>4. LiveTypeOK'
    <3>1. verdict.ended \in BOOLEAN /\ pool.aborted \in BOOLEAN /\ poller.samples \in Nat
      BY DEF LiveTypeOK
    <3>2. verdict' \in [ended : BOOLEAN, aborted : BOOLEAN, breached : BOOLEAN, samples : Nat]
      BY <2>1, <3>1
    <3>3. QED BY <2>2, <3>2 DEF LiveTypeOK
  <2>5. VerdictStands'
    BY <2>2, <2>3 DEF VerdictStands, Evaluated
  <2>6. InterruptOnRecord'
    BY <2>2, <2>3 DEF InterruptOnRecord, Evaluated
  <2>7. StoredFirst'
    BY <2>2 DEF StoredFirst
  <2>8. QED BY <2>4, <2>5, <2>6, <2>7
<1>2. CASE Complete
  <2>1. LiveTypeOK'
    <3>1. live' \in [done : BOOLEAN, completed : BOOLEAN, runURL : {NoURL, "run"}]
      BY <1>2 DEF LiveTypeOK, Complete
    <3>2. at' \in {"complete", "serving"}
          /\ UNCHANGED <<watched, ctx, cut, pool, poller, verdict, page, exit>>
      BY <1>2 DEF Complete
    <3>3. QED BY <3>1, <3>2 DEF LiveTypeOK
  <2>2. Evaluated /\ Evaluated' /\ watched /\ watched' = watched
    BY <1>2 DEF Complete, Evaluated
  <2>3. VerdictStands' /\ InterruptOnRecord'
    BY <1>2, <2>2 DEF Complete, VerdictStands, InterruptOnRecord, Evaluated
  <2>4. StoredFirst'
    <3>1. CASE /\ saving[Me] = "saved" /\ at' = "complete"
               /\ live' = [live EXCEPT !.completed = TRUE, !.runURL = "run"]
      BY <1>2, <3>1 DEF Complete, StoredFirst, LiveTypeOK
    <3>2. CASE at' = "serving" /\ live' = [live EXCEPT !.done = TRUE]
      BY <1>2, <3>2 DEF Complete, StoredFirst, LiveTypeOK
    <3>3. QED BY <1>2, <3>1, <3>2 DEF Complete
  <2>5. QED BY <2>1, <2>3, <2>4
<1>3. CASE Announce
  <2>1. LiveTypeOK'
    BY <1>3 DEF LiveTypeOK, Announce
  <2>2. VerdictStands' /\ InterruptOnRecord'
    BY <1>3 DEF Announce, VerdictStands, InterruptOnRecord, Evaluated
  <2>3. live.completed
    BY <1>3 DEF Announce, StoredFirst
  <2>4. StoredFirst'
    BY <1>3, <2>3 DEF Announce, StoredFirst
  <2>5. QED BY <2>1, <2>2, <2>4
<1>4. CASE BatchExit
  BY <1>4 DEF LiveTypeOK, BatchExit, VerdictStands, InterruptOnRecord, StoredFirst, Evaluated
<1>5. CASE LiveExit
  BY <1>5 DEF LiveTypeOK, LiveExit, VerdictStands, InterruptOnRecord, StoredFirst, Evaluated
<1>6. ASSUME NEW b \in Page, Open(b) \/ StreamDone(b) \/ Leave(b) PROVE LiveInv'
  <2>1. PICK to \in {"closed", "live", "ended", "run"} :
          page' = [page EXCEPT ![b] = to] /\ (to = "run" => live.completed)
    BY <1>6 DEF Open, StreamDone, Leave, LiveTypeOK, StoredFirst, NoURL
  <2>2. UNCHANGED <<storeVars, watched, at, pool, ctx, sigc, pressed, poller, verdict, live, exit, cut>>
    BY <1>6 DEF Open, StreamDone, Leave
  <2>3. LiveTypeOK'
    BY <2>1, <2>2 DEF LiveTypeOK
  <2>4. VerdictStands' /\ InterruptOnRecord'
    BY <2>2 DEF VerdictStands, InterruptOnRecord, Evaluated
  <2>5. StoredFirst'
    BY <2>1, <2>2 DEF StoredFirst, storeVars, LiveTypeOK
  <2>6. QED BY <2>3, <2>4, <2>5
<1>7. QED BY <1>1, <1>2, <1>3, <1>4, <1>5, <1>6

LEMMA LiveStep ==
  ASSUME StoreInv, LiveInv, [Next]_vars
  PROVE  LiveInv'
<1>1. saving[Me] = "saved" => saving'[Me] = "saved"
  BY LiveStepIsStoreStep, SavedStays, LiveRunAssumption DEF StoreInv
<1>2. CASE MySave \/ MyFault \/ (\E p \in Producer : OthersSave(p)) \/ Done \/ UNCHANGED vars
  BY <1>1, <1>2, AroundTheCommand DEF MySave, MyFault, OthersSave, Done, vars, liveVars
<1>3. QED BY <1>1, <1>2, AroundTheCommand, SettlingTheRun DEF Next, Command

(* What the command, its poller, its live view and the store know of one   *)
(* another, as an invariant of the run.                                    *)
THEOREM LiveInductive == Spec => [](StoreInv /\ LiveInv)
<1>1. Spec => []StoreInv
  BY RunsUseTheStore, Inductive, PTL
<1>2. Init => LiveInv
  BY LiveStart
<1>3. StoreInv /\ LiveInv /\ [Next]_vars => LiveInv'
  BY LiveStep
<1>4. QED BY <1>1, <1>2, <1>3, PTL DEF Spec

(* A batch run exits with 1 if it was interrupted while its pool ran, went *)
(* by its kill switch or is in breach, and for no other reason than these  *)
(* or an interrupt while it was being settled, however the store fares.    *)
THEOREM ExitTruthful == Spec => []BatchExitTruthful
<1>1. LiveInv => BatchExitTruthful
  BY DEF LiveInv, LiveTypeOK, VerdictStands, InterruptOnRecord, Evaluated, BatchExitTruthful
<1>2. QED BY <1>1, LiveInductive, PTL

(* A browser is sent only to a run that is in the store whole, done goes   *)
(* up with the run to show or without one, and no agent sample comes in    *)
(* after the series was handed over.                                       *)
THEOREM HandOff == Spec => []LiveSafe
<1>1. StoreInv /\ LiveInv => HandOffWhole
  <2>1. SUFFICES ASSUME StoreInv, LiveInv PROVE HandOffWhole
    OBVIOUS
  <2>2. \A b \in Page : page[b] # NoURL
    BY <2>1 DEF LiveInv, LiveTypeOK, NoURL
  <2>3. live.completed => saving[Me] = "saved" /\ dir[Me] = Range(Artifacts[Me])
    BY <2>1, LiveRunAssumption DEF LiveInv, StoredFirst, StoreInv, ArtifactsInOrder
  <2>4. live.runURL # NoURL => live.completed
    BY <2>1 DEF LiveInv, LiveTypeOK, StoredFirst
  <2>5. QED BY <2>1, <2>2, <2>3, <2>4 DEF HandOffWhole, LiveInv, StoredFirst
<1>2. LiveInv => AgentSeriesWhole
  BY DEF LiveInv, VerdictStands, Evaluated, AgentSeriesWhole
<1>3. QED BY <1>1, <1>2, LiveInductive, PTL DEF LiveSafe

===============================================================================

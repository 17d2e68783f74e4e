------------------------------- MODULE RunStore -------------------------------
(***************************************************************************)
(* The run store (internal/store/store.go): the run directories and the    *)
(* index.json that every producer of a run writes, this engine with Save,  *)
(* the Python driver with write_run (sdk-python/src/flowbench/store.py).   *)
(*                                                                         *)
(* A producer writes its artifacts into a directory of its own and then    *)
(* reads, prepends to and rewrites the one index, without a lock; a write  *)
(* truncates the file first.  A producer may die at any step.              *)
(***************************************************************************)
EXTENDS Naturals, Sequences, SequencesExt, FiniteSets

CONSTANTS
  Producer,     \* processes that save a run, one each
  Artifacts     \* Producer -> the files of its run, in the order written

ASSUME RunStoreAssumption ==
  \A p \in Producer :
    /\ Artifacts[p] \in Seq(Range(Artifacts[p]))
    /\ Artifacts[p] # <<>> /\ IsInjective(Artifacts[p])

VARIABLES
  dir,         \* per producer: the whole files of its run directory
  index,       \* index.json: no file, torn, or a list of runs
  saving,      \* per producer: where it is
  known,       \* per producer: the index as it read it
  overlapped,  \* history: two producers were between read and write at once
  finished     \* history: the runs that were saved, latest first

storeVars == <<dir, index, saving, known, overlapped, finished>>

NoIndex == [state |-> "none", runs |-> <<>>]
Torn    == [state |-> "torn", runs |-> <<>>]
Whole(runs) == [state |-> "whole", runs |-> runs]

StoreInit ==
  /\ dir = [p \in Producer |-> {}]
  /\ index = NoIndex
  /\ saving = [p \in Producer |-> "running"]
  /\ known = [p \in Producer |-> <<>>]
  /\ overlapped = FALSE
  /\ finished = <<>>

Move(p, from, to) == saving[p] = from /\ saving' = [saving EXCEPT ![p] = to]

(* Inside appendIndex, with the index read and not yet rewritten. *)
Updating == {p \in Producer : saving[p] \in {"update", "truncated"}}

(* MkdirAll, or its failure. *)
BeginSave(p) ==
  /\ \E to \in {"artifacts", "failed"} : Move(p, "running", to)
  /\ UNCHANGED <<dir, index, known, overlapped, finished>>

(* Mutant of WriteArtifact: the index is written before the artifacts are. *)
IndexFirst(p) ==
  /\ Move(p, "artifacts", "index")
  /\ UNCHANGED <<dir, index, known, overlapped, finished>>

(* writeJSON of the next artifact; on an error Save returns. *)
WriteArtifact(p) ==
  LET next == Cardinality(dir[p]) + 1 IN
  /\ saving[p] = "artifacts"
  /\ \/ /\ dir' = [dir EXCEPT ![p] = @ \cup {Artifacts[p][next]}]
        /\ saving' = IF next < Len(Artifacts[p]) THEN saving
                     ELSE [saving EXCEPT ![p] = "index"]
     \/ /\ saving' = [saving EXCEPT ![p] = "failed"]
        /\ UNCHANGED dir
  /\ UNCHANGED <<index, known, overlapped, finished>>

(* readIndex: no file is an empty index, one that does not parse an error. *)
ReadIndex(p) ==
  /\ saving[p] = "index"
  /\ saving' = [saving EXCEPT ![p] = IF index.state = "torn" THEN "failed" ELSE "update"]
  /\ known' = [known EXCEPT ![p] = index.runs]
  /\ overlapped' = (overlapped \/ Updating # {})
  /\ UNCHANGED <<dir, index, finished>>

(* os.WriteFile opens the index and cuts it to nothing. *)
Truncate(p) ==
  /\ Move(p, "update", "truncated")
  /\ index' = Torn
  /\ UNCHANGED <<dir, known, overlapped, finished>>

(* It then writes the run in front of the runs it had read.  Over what     *)
(* another producer has written in the meantime the shorter of the two     *)
(* leaves the rest of the longer one behind it.                            *)
Rewrite(p) ==
  /\ Move(p, "truncated", "saved")
  /\ index' \in {Whole(<<p>> \o known[p])} \cup (IF index.state = "torn" THEN {} ELSE {Torn})
  /\ finished' = <<p>> \o finished
  /\ UNCHANGED <<dir, known, overlapped>>

(* A disk error on the way: Save fails, with what was written in place.    *)
IndexError(p) ==
  /\ saving[p] \in {"index", "update", "truncated"}
  /\ saving' = [saving EXCEPT ![p] = "failed"]
  /\ UNCHANGED <<dir, index, known, overlapped, finished>>

Crash(p) ==
  /\ saving[p] \notin {"saved", "failed", "dead"}
  /\ saving' = [saving EXCEPT ![p] = "dead"]
  /\ UNCHANGED <<dir, index, known, overlapped, finished>>

SaveStep(p) == WriteArtifact(p) \/ ReadIndex(p) \/ Truncate(p) \/ Rewrite(p)

SaveFault(p) == IndexError(p) \/ Crash(p)

StoreNext == \E p \in Producer : BeginSave(p) \/ SaveStep(p) \/ SaveFault(p)

StoreSpec == StoreInit /\ [][StoreNext]_storeVars

-------------------------------------------------------------------------------

(* A run the listing shows has every artifact its producer writes, whole,  *)
(* whoever dies and however producers interleave: the directory comes      *)
(* before the index (Save, write_run).                                     *)
ListedRunsAreWhole ==
  \A p \in Range(index.runs) : dir[p] = Range(Artifacts[p])

(* As long as no two producers were inside appendIndex at once, a run that *)
(* was saved is listed, once, in front of those saved before it, and the   *)
(* index is unreadable only while it is being rewritten or after whoever   *)
(* rewrote it died or failed on the way (appendIndex and its comment).     *)
SequentialSavesAreListed ==
  ~ overlapped =>
    /\ index.state # "torn" =>
         /\ Range(index.runs) = {p \in Producer : saving[p] = "saved"}
         /\ Len(index.runs) = Cardinality(Range(index.runs))
         /\ index.runs = finished
    /\ index.state = "torn" =>
         \E p \in Producer : saving[p] \in {"truncated", "failed", "dead"}
    /\ \A p \in Updating : saving[p] = "update" => known[p] = index.runs

(* What the listing shows is there, and what was saved it shows.           *)
StoreSound == ListedRunsAreWhole /\ SequentialSavesAreListed

-------------------------------------------------------------------------------
(* What makes StoreSound inductive. *)

StoreTypeOK ==
  /\ dir = [p \in Producer |-> dir[p]]
  /\ index \in [state : {"none", "torn", "whole"}, runs : Seq(Producer)]
  /\ saving \in [Producer -> {"running", "artifacts", "index", "update", "truncated",
                              "saved", "failed", "dead"}]
  /\ known \in [Producer -> Seq(Producer)]
  /\ overlapped \in BOOLEAN
  /\ finished \in Seq(Producer)

(* The files in a run directory are the first of the run's artifacts, and  *)
(* all of them once the producer turns to the index.                       *)
ArtifactsInOrder ==
  \A p \in Producer :
    /\ IsFiniteSet(dir[p])
    /\ saving[p] \in {"running", "artifacts"} =>
         /\ Cardinality(dir[p]) < Len(Artifacts[p])
         /\ dir[p] = {Artifacts[p][i] : i \in 1 .. Cardinality(dir[p])}
    /\ saving[p] \in {"index", "update", "truncated", "saved"} =>
         dir[p] = Range(Artifacts[p])

Saved == {p \in Producer : saving[p] = "saved"}

(* A run comes into a listing by being saved, and stays saved.             *)
ListedAreSaved ==
  /\ Range(index.runs) \subseteq Saved
  /\ \A p \in Producer : Range(known[p]) \subseteq Saved

Lists(runs) ==
  /\ Range(runs) = Saved /\ IsFiniteSet(Saved) /\ Len(runs) = Cardinality(Saved)
  /\ runs = finished

(* With one producer inside appendIndex at a time, what it has read is     *)
(* what it will write back.                                                *)
OneAtATime ==
  ~ overlapped =>
    /\ \A p, q \in Updating : p = q
    /\ index.state # "torn" => Lists(index.runs)
    /\ index.state = "torn" =>
         \E p \in Producer : saving[p] \in {"truncated", "failed", "dead"}
    /\ \A p \in Updating :
         /\ Lists(known[p])
         /\ saving[p] = "update" => index.state # "torn" /\ known[p] = index.runs
         /\ saving[p] = "truncated" => index.state = "torn"

StoreInv == StoreTypeOK /\ ArtifactsInOrder /\ ListedAreSaved /\ OneAtATime
===============================================================================

------------------------------- MODULE UseLoad -------------------------------
(***************************************************************************)
(* Loading a flow file and every file it reaches through `use:` (ParseFlow *)
(* and walker.use, internal/parser/parser.go).  The Go call stack of       *)
(* scenario, step and use is the variable stack, one frame to a walker; a  *)
(* file is the sequence of its use steps.  Errors are collected and the    *)
(* walk goes on, so what is compiled does not depend on them.              *)
(***************************************************************************)
EXTENDS Integers, Sequences, SequencesExt, FiniteSets

CONSTANTS
  File,         \* flow files
  Entry,        \* the one that is loaded
  Unusable,     \* a use of a path that is absolute, misnamed, unreadable or not YAML
  Graphs,       \* what the files may use
  MaxUseDepth   \* maxUseDepth

ASSUME UseAssumption ==
  /\ IsFiniteSet(File) /\ Entry \in File
  /\ Unusable \notin File
  /\ Graphs \subseteq [File -> Seq(File \cup {Unusable})]
  /\ MaxUseDepth \in Nat

VARIABLES
  uses,       \* file -> what its use steps name, in order
  stack,      \* load.stack with the walkers: file, the next use, errors so far
  done,       \* load.done, in the order the files were compiled
  verdict     \* "loading", then what ParseFlow returns

useVars == <<uses, stack, done, verdict>>

Walker(file) == [file |-> file, next |-> 1, errs |-> {}]

LoadInit ==
  /\ uses \in Graphs
  /\ stack = <<Walker(Entry)>>
  /\ done = <<>>
  /\ verdict = "loading"

Top    == stack[Len(stack)]
HasUse == stack # <<>> /\ Top.next =< Len(uses[Top.file])
Named  == uses[Top.file][Top.next]
Files  == {stack[i].file : i \in DOMAIN stack}

(* The top walker is done with a use step, perhaps with an error. *)
Onward(errs) ==
  [stack EXCEPT ![Len(stack)] =
     [file |-> @.file, next |-> @.next + 1, errs |-> @.errs \cup errs]]

Refuse(err) == stack' = Onward({err}) /\ UNCHANGED <<uses, done, verdict>>

UseUnusable == HasUse /\ Named = Unusable /\ Refuse("unusable")

UseCycle == HasUse /\ Named \in Files /\ Refuse("cycle")

Deep == Len(stack) > MaxUseDepth

Followed == HasUse /\ Named \in File \ Files

UseTooDeep == Followed /\ Deep /\ Refuse("depth")

Shared == Followed /\ ~ Deep /\ Named \in Range(done)

UseShared == Shared /\ stack' = Onward({}) /\ UNCHANGED <<uses, done, verdict>>

(* Mutant of UseFile: the file counts as compiled once it is opened. *)
UseFileDone ==
  /\ Followed /\ ~ Deep /\ Named \notin Range(done)
  /\ stack' = Append(Onward({}), Walker(Named))
  /\ done' = Append(done, Named)
  /\ UNCHANGED <<uses, verdict>>

UseFile ==
  /\ Followed /\ ~ Deep /\ Named \notin Range(done)
  /\ stack' = Append(Onward({}), Walker(Named))
  /\ UNCHANGED <<uses, done, verdict>>

(* Mutant of Compiled: a used file's errors stay with its walker. *)
CompiledQuietly ==
  /\ Len(stack) > 1 /\ ~ HasUse
  /\ stack' = Front(stack)
  /\ done' = Append(done, Top.file)
  /\ UNCHANGED <<uses, verdict>>

(* A used file is compiled, its errors are its user's. *)
Compiled ==
  /\ Len(stack) > 1 /\ ~ HasUse
  /\ stack' = [Front(stack) EXCEPT ![Len(stack) - 1].errs = @ \cup Top.errs]
  /\ done' = Append(done, Top.file)
  /\ UNCHANGED <<uses, verdict>>

ParseFlow ==
  /\ Len(stack) = 1 /\ ~ HasUse
  /\ verdict' = IF Top.errs = {} THEN "accepted" ELSE "refused"
  /\ stack' = <<>>
  /\ UNCHANGED <<uses, done>>

LoadNext ==
  UseUnusable \/ UseCycle \/ UseTooDeep \/ UseShared \/ UseFile \/ Compiled \/ ParseFlow

LoadSpec == LoadInit /\ [][LoadNext]_useVars

-------------------------------------------------------------------------------

LoadTypeOK ==
  /\ uses \in [File -> Seq(File \cup {Unusable})]
  /\ stack \in Seq([file : File, next : Nat \ {0}, errs : SUBSET {"unusable", "cycle", "depth"}])
  /\ done \in Seq(File)
  /\ verdict \in {"loading", "accepted", "refused"}

Accepted == verdict = "accepted"

(* A file is compiled once, however many use steps reach it, and never     *)
(* while it is being compiled; the stack is as deep as maxUseDepth allows. *)
CompiledOnce ==
  /\ IsInjective(done)
  /\ \A i, j \in DOMAIN stack : stack[i].file = stack[j].file => i = j
  /\ Files \cap Range(done) = {}
  /\ Len(stack) =< MaxUseDepth + 1

(* The files compiled before the k-th. *)
Before(k) == {done[m] : m \in 1 .. k - 1}

Linked == \A k \in DOMAIN done : Range(uses[done[k]]) \subseteq Before(k)

(* What ParseFlow accepts is complete and has no cycle: whatever a         *)
(* compiled file uses was compiled before it, so the executor's runUse     *)
(* always finds a flow and always comes to an end.                         *)
LinkedBefore ==
  Accepted => Range(uses[Entry]) \subseteq Range(done) \ {Entry} /\ Linked

LoadSound == CompiledOnce /\ LinkedBefore

(* The files that lie n use steps from the entry. *)
Levels(graph) ==
  LET level[n \in Nat] ==
        IF n = 0 THEN {Entry} ELSE UNION {Range(graph[f]) \cap File : f \in level[n - 1]}
  IN level

AtDepth(n) == Levels(uses)[n]

HasCycle == AtDepth(Cardinality(File)) # {}

(* A refusal has its reason in the files: if they are refused they hold a  *)
(* cycle, a use that leads nowhere, or a chain that is too deep.  A cycle  *)
(* is always refused; what a too deep chain is, see DepthBounded.          *)
RefusedForCause ==
  /\ verdict = "refused" =>
       \/ HasCycle \/ AtDepth(MaxUseDepth + 1) # {}
       \/ \E f \in File : Unusable \in Range(uses[f])
  /\ Accepted => ~ HasCycle

(* "A flow may be used from several flow files, up to 8 levels deep ... a  *)
(* chain deeper than 8 is refused" (docs/reference/yaml-dsl.md): no flow   *)
(* that is accepted nests deeper.                                          *)
DepthBounded == Accepted => AtDepth(MaxUseDepth + 1) = {}

-------------------------------------------------------------------------------
(* What makes LoadSound inductive. *)

(* A walker that met no error has had compiled all that it named, but for  *)
(* the file that is being walked above it.                                 *)
WalkedSoFar ==
  \A i \in DOMAIN stack : stack[i].errs = {} =>
    \A j \in 1 .. stack[i].next - 1 :
      \/ uses[stack[i].file][j] \in Range(done)
      \/ /\ j = stack[i].next - 1 /\ i < Len(stack)
         /\ stack[i + 1].file = uses[stack[i].file][j]

(* A compiled file that lacks one of its uses has left its error with a    *)
(* walker below.                                                           *)
CompiledWhole ==
  verdict # "refused" /\ (\A i \in DOMAIN stack : stack[i].errs = {}) => Linked

EntryBelow ==
  /\ Entry \notin Range(done)
  /\ stack # <<>> => stack[1].file = Entry
  /\ verdict = "loading" <=> stack # <<>>
  /\ Accepted => Range(uses[Entry]) \subseteq Range(done)

LoadInv == LoadTypeOK /\ CompiledOnce /\ WalkedSoFar /\ CompiledWhole /\ EntryBelow

-------------------------------------------------------------------------------
(* What makes RefusedForCause inductive. *)

(* The stack is a chain of uses that starts at the entry. *)
StackIsChain ==
  \A i \in 1 .. Len(stack) - 1 :
    LET named == uses[stack[i].file] IN
    stack[i].next - 1 \in DOMAIN named /\ stack[i + 1].file = named[stack[i].next - 1]

HasCause(err) ==
  CASE err = "unusable" -> \E f \in File : Unusable \in Range(uses[f])
    [] err = "depth"    -> AtDepth(MaxUseDepth + 1) # {}
    [] err = "cycle"    -> HasCycle

(* No walker has an error without its cause. *)
CauseInv ==
  /\ StackIsChain
  /\ \A i \in DOMAIN stack : \A err \in stack[i].errs : HasCause(err)
  /\ verdict = "refused" => \E err \in {"unusable", "cycle", "depth"} : HasCause(err)
===============================================================================

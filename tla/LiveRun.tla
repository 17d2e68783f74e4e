-------------------------------- MODULE LiveRun --------------------------------
(***************************************************************************)
(* One load, stress or soak run of `flowbench run` from the start of its   *)
(* executor to its exit code: executeLoad (cmd/flowbench/run.go), and with *)
(* --watch runLive and its liveServer (cmd/flowbench/watch.go), the agent  *)
(* poller beside it (agentpoll.go, internal/agent/poller.go), the          *)
(* operator's Ctrl-C, a browser, and the run store other producers write.  *)
(*                                                                         *)
(* The pool is what LoadRun says of it: it returns, with aborted set if    *)
(* the kill switch went, some time after its context is done or its        *)
(* schedule is over.  The kill switch cancels a context inside the pool    *)
(* and not the one the command holds.                                      *)
(***************************************************************************)
EXTENDS RunStore

CONSTANTS
  Me,            \* this process
  Page,          \* live pages open in browsers
  MaxSignals,    \* bound on the Ctrl-C's
  MaxScrapes     \* bound on the samples of the agent

ASSUME LiveRunAssumption ==
  /\ Me \in Producer
  /\ MaxSignals \in Nat /\ MaxScrapes \in Nat

VARIABLES
  watched,    \* --watch
  at,         \* where the command is
  pool,       \* executor.Run: running, then its Result
  ctx,        \* the command's context is done
  sigc,       \* Ctrl-C's in the channel, two at most
  pressed,    \* Ctrl-C's so far
  poller,     \* the agent's poller, and the samples it has
  verdict,    \* interrupted or ended, aborted, breached; agent samples saved
  live,       \* liveServer: done, completed, runURL
  page,       \* per page: what its stream has told it
  exit,       \* the exit code, -1 until then
  cut         \* history: a batch run was interrupted while its pool ran

liveVars == <<watched, at, pool, ctx, sigc, pressed, poller, verdict, live, page, exit, cut>>
vars     == <<storeVars, liveVars>>

NoURL == "none"

Init ==
  /\ StoreInit
  /\ watched \in BOOLEAN
  /\ at = "running"
  /\ pool = [state |-> "running", aborted |-> FALSE]
  /\ ctx = FALSE
  /\ sigc = 0
  /\ pressed = 0
  /\ poller = [state |-> "polling", samples |-> 0]
  /\ verdict = [ended |-> FALSE, aborted |-> FALSE, breached |-> FALSE, samples |-> 0]
  /\ live = [done |-> FALSE, completed |-> FALSE, runURL |-> NoURL]
  /\ page = [b \in Page |-> "closed"]
  /\ exit = -1
  /\ cut = FALSE

Alive == exit = -1 /\ saving[Me] # "dead"

(* A kill switch, inside the pool. *)
KillSwitch ==
  /\ Alive /\ pool.state = "running"
  /\ ~ pool.aborted
  /\ pool' = [pool EXCEPT !.aborted = TRUE]
  /\ UNCHANGED <<storeVars, watched, at, ctx, sigc, pressed, poller, verdict, live, page, exit, cut>>

PoolReturns ==
  /\ Alive /\ pool.state = "running"
  /\ pool' = [pool EXCEPT !.state = "returned"]
  /\ UNCHANGED <<storeVars, watched, at, ctx, sigc, pressed, poller, verdict, live, page, exit, cut>>

(* Ctrl-C: in batch it cancels the context until the command returns, with *)
(* --watch it waits in a channel of two.                                   *)
CtrlC ==
  /\ Alive /\ pressed < MaxSignals
  /\ pressed' = pressed + 1
  /\ IF watched THEN sigc' = (IF sigc < 2 THEN sigc + 1 ELSE sigc) /\ UNCHANGED ctx
     ELSE ctx' = TRUE /\ UNCHANGED sigc
  /\ cut' = (cut \/ (~ watched /\ pool.state = "running"))
  /\ UNCHANGED <<storeVars, watched, at, pool, poller, verdict, live, page, exit>>

(* POST /abort, from a browser, at any time. *)
BrowserAbort ==
  /\ Alive /\ watched
  /\ ctx' = TRUE
  /\ UNCHANGED <<storeVars, watched, at, pool, sigc, pressed, poller, verdict, live, page, exit, cut>>

(* runLive's select, on a Ctrl-C. *)
TakeSignal ==
  /\ Alive /\ watched /\ at = "running" /\ sigc > 0
  /\ sigc' = sigc - 1
  /\ ctx' = TRUE
  /\ at' = "unwinding"
  /\ UNCHANGED <<storeVars, watched, pool, pressed, poller, verdict, live, page, exit, cut>>

(* The Result is in the command's hands: what it makes of it, once the     *)
(* poller is joined.  A stop of the watched run is read from the context   *)
(* before the join, that of a batch run after it.                          *)
TakeResult ==
  /\ Alive /\ at \in {"running", "unwinding"}
  /\ pool.state = "returned"
  /\ at' = "joining"
  /\ verdict' = [verdict EXCEPT !.ended = watched /\ ctx]
  /\ poller' = [poller EXCEPT !.state = "stopping"]
  /\ UNCHANGED <<storeVars, watched, pool, ctx, sigc, pressed, live, page, exit, cut>>

(* Poll: a scrape that answers gives a sample, any other nothing.  One     *)
(* that was under way may still answer when the poller is stopped.         *)
Scrape ==
  /\ Alive /\ poller.state \in {"polling", "stopping"}
  /\ poller.samples < MaxScrapes
  /\ poller' = [poller EXCEPT !.samples = @ + 1]
  /\ UNCHANGED <<storeVars, watched, at, pool, ctx, sigc, pressed, verdict, live, page, exit, cut>>

(* The poller sees its own context done, once a scrape under way has       *)
(* answered or was cut off.                                                *)
PollerStops ==
  /\ Alive /\ poller.state = "stopping"
  /\ poller' = [poller EXCEPT !.state = "stopped"]
  /\ UNCHANGED <<storeVars, watched, at, pool, ctx, sigc, pressed, verdict, live, page, exit, cut>>

(* Mutant of Evaluate: the poller is told to stop and not waited for. *)
EvaluateUnjoined ==
  /\ Alive /\ at = "joining"
  /\ at' = "saving"
  /\ verdict' = [verdict EXCEPT !.aborted = pool.aborted, !.samples = poller.samples]
  /\ BeginSave(Me)
  /\ UNCHANGED <<watched, pool, ctx, sigc, pressed, poller, live, page, exit, cut>>

(* Join, evaluate the thresholds and the trends, and begin to save. *)
Evaluate ==
  /\ Alive /\ at = "joining"
  /\ poller.state = "stopped"
  /\ at' = "saving"
  /\ \E breached \in BOOLEAN :
       verdict' = [ended    |-> verdict.ended \/ (~ watched /\ ctx),
                   aborted  |-> pool.aborted,
                   breached |-> breached,
                   samples  |-> poller.samples]
  /\ BeginSave(Me)
  /\ UNCHANGED <<watched, pool, ctx, sigc, pressed, poller, live, page, exit, cut>>

(* Mutant of Complete: a run that was not stored is nothing to announce. *)
CompleteStoredOnly ==
  /\ Alive /\ at = "saving" /\ watched
  /\ saving[Me] = "saved" /\ at' = "complete"
  /\ live' = [live EXCEPT !.completed = TRUE, !.runURL = "run"]
  /\ UNCHANGED <<storeVars, watched, pool, ctx, sigc, pressed, poller, verdict, page, exit, cut>>

(* complete points the server at the stored run and its URL, and then says *)
(* done; with nothing stored, done goes up alone.                          *)
Complete ==
  /\ Alive /\ at = "saving" /\ watched
  /\ \/ saving[Me] = "saved" /\ at' = "complete"
        /\ live' = [live EXCEPT !.completed = TRUE, !.runURL = "run"]
     \/ saving[Me] \in {"saved", "failed"} /\ at' = "serving"
        /\ live' = [live EXCEPT !.done = TRUE]
  /\ UNCHANGED <<storeVars, watched, pool, ctx, sigc, pressed, poller, verdict, page, exit, cut>>

Announce ==
  /\ Alive /\ at = "complete"
  /\ at' = "serving"
  /\ live' = [done |-> TRUE, completed |-> TRUE, runURL |-> "run"]
  /\ UNCHANGED <<storeVars, watched, pool, ctx, sigc, pressed, poller, verdict, page, exit, cut>>

(* Mutant of BatchExit: a kill switch is taken for a clean end. *)
BatchExitUnaborted ==
  /\ Alive /\ at = "saving" /\ ~ watched
  /\ saving[Me] \in {"saved", "failed"}
  /\ exit' = IF verdict.ended \/ verdict.breached THEN 1 ELSE 0
  /\ UNCHANGED <<storeVars, watched, at, pool, ctx, sigc, pressed, poller, verdict, live, page, cut>>

(* executeLoad's exit: a store failure is a warning. *)
BatchExit ==
  /\ Alive /\ at = "saving" /\ ~ watched
  /\ saving[Me] \in {"saved", "failed"}
  /\ exit' = IF verdict.ended \/ verdict.aborted \/ verdict.breached THEN 1 ELSE 0
  /\ UNCHANGED <<storeVars, watched, at, pool, ctx, sigc, pressed, poller, verdict, live, page, cut>>

(* runLive's exit, on the next Ctrl-C: Shutdown gives the streams three    *)
(* seconds and no more.                                                    *)
LiveExit ==
  /\ Alive /\ at = "serving" /\ sigc > 0
  /\ sigc' = sigc - 1
  /\ exit' = IF verdict.ended \/ verdict.breached THEN 1 ELSE 0
  /\ UNCHANGED <<storeVars, watched, at, pool, ctx, pressed, poller, verdict, live, page, cut>>

-------------------------------------------------------------------------------
(* The browser. *)

(* GET / : the live page, or once a run is stored its dashboard. *)
Open(b) ==
  /\ Alive /\ watched /\ page[b] = "closed"
  /\ page' = [page EXCEPT ![b] = IF live.done /\ live.completed THEN live.runURL ELSE "live"]
  /\ UNCHANGED <<storeVars, watched, at, pool, ctx, sigc, pressed, poller, verdict, live, exit, cut>>

(* stream: a tick that finds done sends the run's URL and ends. *)
StreamDone(b) ==
  /\ Alive /\ page[b] = "live"
  /\ live.done
  /\ page' = [page EXCEPT ![b] = IF live.runURL = NoURL THEN "ended" ELSE live.runURL]
  /\ UNCHANGED <<storeVars, watched, at, pool, ctx, sigc, pressed, poller, verdict, live, exit, cut>>

Leave(b) ==
  /\ page[b] # "closed"
  /\ page' = [page EXCEPT ![b] = "closed"]
  /\ UNCHANGED <<storeVars, watched, at, pool, ctx, sigc, pressed, poller, verdict, live, exit, cut>>

-------------------------------------------------------------------------------

OthersSave(p) ==
  /\ p # Me
  /\ BeginSave(p) \/ SaveStep(p) \/ SaveFault(p)
  /\ UNCHANGED liveVars

(* This process writes its run, or is killed outright at any moment. *)
MySave == SaveStep(Me) /\ UNCHANGED liveVars

MyFault ==
  /\ Alive
  /\ SaveFault(Me)
  /\ UNCHANGED liveVars

Command ==
  \/ TakeSignal \/ TakeResult \/ PollerStops \/ Evaluate \/ MySave
  \/ Complete \/ Announce \/ BatchExit

Done == (~ Alive \/ at = "serving") /\ UNCHANGED vars

Next ==
  \/ KillSwitch \/ PoolReturns \/ CtrlC \/ BrowserAbort \/ Scrape
  \/ Command \/ LiveExit \/ MyFault
  \/ \E b \in Page : Open(b) \/ StreamDone(b) \/ Leave(b)
  \/ \E p \in Producer : OthersSave(p)
  \/ Done

Spec == Init /\ [][Next]_vars

(* The command's goroutine and the page's stream run when they can, and    *)
(* the pool returns (RunReturns of the pools).                             *)
FairSpec ==
  /\ Spec
  /\ WF_vars(Command)
  /\ WF_vars(PoolReturns)
  /\ \A b \in Page : WF_vars(StreamDone(b))

-------------------------------------------------------------------------------

(* A batch run that was interrupted while its pool ran, aborted by its     *)
(* kill switch or found in breach exits with 1, and only an interrupt that *)
(* came while it was being settled may add to that, however the store      *)
(* fared (executeLoad; docs/reference/cli.md).                             *)
BatchExitTruthful ==
  exit # -1 /\ ~ watched =>
    /\ cut \/ pool.aborted \/ verdict.breached => exit = 1
    /\ exit = 1 => ctx \/ pool.aborted \/ verdict.breached

(* The hand-off from the live view: a browser is sent to a stored run only *)
(* when this run is in the store whole, and once done is up the server has *)
(* the run to show or there is none (complete, ServeHTTP, stream).         *)
HandOffWhole ==
  /\ \A b \in Page : page[b] # NoURL
  /\ \A b \in Page : page[b] = "run" =>
       saving[Me] = "saved" /\ dir[Me] = Range(Artifacts[Me])
  /\ live.done /\ live.runURL # NoURL => live.completed

(* What the poller had when it was joined is what the run stores: no       *)
(* sample comes in after the series was handed over (startAgentPoll).      *)
AgentSeriesWhole == at \in {"saving", "complete", "serving"} => verdict.samples = poller.samples

LiveSafe == HandOffWhole /\ AgentSeriesWhole

(* Whatever ends a run, its artifacts are written or the failure to write  *)
(* them is known, a live page that stays open is told that the run is      *)
(* over, and a batch run exits (executeLoad, runLive, stream).             *)
RunIsSettled ==
  /\ <>(saving[Me] \in {"saved", "failed", "dead"})
  /\ \A b \in Page : page[b] = "live" ~> page[b] # "live" \/ ~ Alive
  /\ <>(watched \/ exit # -1 \/ saving[Me] = "dead")

-------------------------------------------------------------------------------
(* What makes BatchExitTruthful and LiveSafe inductive. *)

LiveTypeOK ==
  /\ watched \in BOOLEAN /\ ctx \in BOOLEAN /\ cut \in BOOLEAN
  /\ at \in {"running", "unwinding", "joining", "saving", "complete", "serving"}
  /\ pool \in [state : {"running", "returned"}, aborted : BOOLEAN]
  /\ poller \in [state : {"polling", "stopping", "stopped"}, samples : Nat]
  /\ verdict \in [ended : BOOLEAN, aborted : BOOLEAN, breached : BOOLEAN, samples : Nat]
  /\ live \in [done : BOOLEAN, completed : BOOLEAN, runURL : {NoURL, "run"}]
  /\ page \in [Page -> {"closed", "live", "ended", "run"}]
  /\ exit \in {-1, 0, 1}

Evaluated == at \in {"saving", "complete", "serving"}

(* The verdict is over a pool that has returned and a poller that has      *)
(* stopped, so neither it nor what it was made of changes again.           *)
VerdictStands ==
  /\ at \in {"running", "unwinding"} \/ pool.state = "returned"
  /\ Evaluated => /\ poller.state = "stopped"
                  /\ verdict.samples = poller.samples
                  /\ verdict.aborted = pool.aborted

(* A batch run's interrupt is on record from the moment it is pressed: in  *)
(* the context, and in the verdict if the pool was still running.          *)
InterruptOnRecord ==
  ~ watched =>
    /\ at \notin {"unwinding", "complete", "serving"}
    /\ cut \/ verdict.ended => ctx
    /\ Evaluated /\ cut => verdict.ended
    /\ exit # -1 => /\ Evaluated
                    /\ exit = IF verdict.ended \/ verdict.aborted \/ verdict.breached
                              THEN 1 ELSE 0

(* The run's URL is given out from the moment the run is stored, and to    *)
(* whoever asks or listens.                                                *)
StoredFirst ==
  /\ live.completed => saving[Me] = "saved"
  /\ live.runURL = "run" <=> live.completed
  /\ at = "complete" => live.completed
  /\ \A b \in Page : page[b] = "run" => live.completed

LiveInv == LiveTypeOK /\ VerdictStands /\ InterruptOnRecord /\ StoredFirst

===============================================================================

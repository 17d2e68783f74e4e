------------------------------ MODULE TargetGate ------------------------------
(***************************************************************************)
(* The host allow-list (internal/target/target.go): Check before the run,  *)
(* on the URLs as they are written, and Allows on each request, on the URL *)
(* with its templates expanded and resolved against the base URL.          *)
(*                                                                         *)
(* A URL is its form ("relative", "network" as in //host/path, or          *)
(* "absolute"), scheme, host, and whether host and scheme are templates;   *)
(* upper case is a scheme or host of its own that folds.                   *)
(***************************************************************************)
EXTENDS FiniteSets, Sequences

CONSTANTS
  BaseURLs,    \* sets of absolute URLs a target may declare
  URLs,        \* URLs a step may be written with
  Modes        \* the modes there are

URL ==
  [form : {"relative", "network", "absolute"}, scheme : STRING, host : STRING,
   dynamicScheme : BOOLEAN, dynamicHost : BOOLEAN]

(* TargetConfig.Validate and New: a target has a base URL. *)
ASSUME GateAssumption ==
  /\ URLs \subseteq URL
  /\ \A b \in BaseURLs : b \in Seq(URL) /\ b # <<>>

VARIABLES
  base,        \* the target's base URLs, the default one first
  banned,      \* its disallowed_modes
  gateMode,    \* the profile's mode
  urls,        \* what stepURLs names: the step's URL, perhaps a token URL
  gate,        \* "unchecked", "refused", "running" or "blocked"
  sent         \* the origins requests went to

gateVars == <<base, banned, gateMode, urls, gate, sent>>

Lower == [x \in {"HTTP", "WS", "API"} |-> CASE x = "HTTP" -> "http" [] x = "WS" -> "ws" [] x = "API" -> "api"]
CaseFolded(x) == IF x \in DOMAIN Lower THEN Lower[x] ELSE x

Origin(scheme, host) ==
  LET s == CaseFolded(scheme) IN
  <<CASE s \in {"ws", "grpc"}   -> "http"
      [] s \in {"wss", "grpcs"} -> "https"
      [] OTHER                  -> s, CaseFolded(host)>>

Origins == {Origin(b.scheme, b.host) : b \in {base[i] : i \in DOMAIN base}}

(* hasScheme and authority: the host is known before the run. *)
Static(u) == u.form = "absolute" /\ ~ u.dynamicScheme /\ ~ u.dynamicHost

(* Mutant of Check: the step's own URL is all that is looked at. *)
CheckFirst == \A u \in {urls[1]} : Static(u) => Origin(u.scheme, u.host) \in Origins

Check ==
  \A u \in {urls[i] : i \in DOMAIN urls} : Static(u) => Origin(u.scheme, u.host) \in Origins

(* Allows, of a URL with its templates expanded.  One without a scheme was *)
(* joined to the base URL by resolveURL, whatever it begins with.          *)
Allows(u) == u.form # "absolute" \/ Origin(u.scheme, u.host) \in Origins

(* What templates may stand for. *)
Expansions(u) ==
  {[u EXCEPT !.scheme = s, !.host = h] :
     s \in IF u.dynamicScheme THEN {"http", "ws", "gopher"} ELSE {u.scheme},
     h \in IF u.dynamicHost THEN {"api", "other"} ELSE {u.host}}

(* resolveURL, then the origin that is dialled. *)
Reached(u) ==
  IF u.form = "absolute" THEN Origin(u.scheme, u.host) ELSE Origin(base[1].scheme, base[1].host)

GateInit ==
  /\ base \in BaseURLs
  /\ banned \in SUBSET Modes /\ gateMode \in Modes
  /\ urls \in {<<u>> : u \in URLs} \cup {<<u, t>> : u \in URLs, t \in {x \in URLs : x.form = "absolute"}}
  /\ gate = "unchecked"
  /\ sent = {}

CheckTarget ==
  /\ gate = "unchecked"
  /\ gate' = IF Check /\ gateMode \notin banned THEN "running" ELSE "refused"
  /\ UNCHANGED <<base, banned, gateMode, urls, sent>>

SendRequest ==
  /\ gate = "running"
  /\ \E i \in DOMAIN urls : \E u \in Expansions(urls[i]) :
       IF Allows(u) THEN sent' = sent \cup {Reached(u)} /\ UNCHANGED gate
       ELSE gate' = "blocked" /\ UNCHANGED sent
  /\ UNCHANGED <<base, banned, gateMode, urls>>

GateNext == CheckTarget \/ SendRequest

GateSpec == GateInit /\ [][GateNext]_gateVars

-------------------------------------------------------------------------------

Protocols == {"http", "https", "ws", "wss", "grpc", "grpcs"}

Secure(scheme) == CaseFolded(scheme) \in {"https", "wss", "grpcs"}

(* Nothing leaves for an origin the target does not list, not even what a  *)
(* template expands to at run time; a disallowed mode sends nothing; the   *)
(* gate before the run decides all that it can, so that a scenario it lets *)
(* through is only ever blocked for a URL with a template in its host or   *)
(* scheme; and it refuses no URL of the protocols there are whose host is  *)
(* listed with the same security, in whatever one of them (Check, Allows,  *)
(* origin).                                                                *)
GatesAgree ==
  /\ sent \subseteq Origins
  /\ gateMode \in banned => sent = {} /\ gate # "blocked"
  /\ gate = "blocked" => \E i \in DOMAIN urls : urls[i].dynamicHost \/ urls[i].dynamicScheme
  /\ gate = "refused" =>
       \/ gateMode \in banned
       \/ \E i \in DOMAIN urls :
            /\ Static(urls[i])
            /\ \A j \in DOMAIN base :
                 \/ {CaseFolded(urls[i].scheme), CaseFolded(base[j].scheme)} \ Protocols # {}
                 \/ CaseFolded(base[j].host) # CaseFolded(urls[i].host)
                 \/ Secure(base[j].scheme) # Secure(urls[i].scheme)

-------------------------------------------------------------------------------
(* What makes GatesAgree inductive: the gate stands where Check put it.    *)

GateInv ==
  /\ base \in Seq(URL) /\ base # <<>> /\ urls \in Seq(URL)
  /\ gate \in {"unchecked", "refused", "running", "blocked"}
  /\ sent \subseteq Origins
  /\ gate \in {"unchecked", "refused"} => sent = {}
  /\ gate \in {"running", "blocked"} => Check /\ gateMode \notin banned
  /\ gate = "refused" => ~ Check \/ gateMode \in banned
  /\ gate = "blocked" => \E i \in DOMAIN urls : urls[i].dynamicHost \/ urls[i].dynamicScheme
===============================================================================

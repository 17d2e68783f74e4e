------------------------------ MODULE TokenCache ------------------------------
(***************************************************************************)
(* The token cache one auth.Provider shares among the virtual users of a   *)
(* run (internal/auth/auth.go, token and below).  A caller queues on the   *)
(* entry of its token endpoint, re-checks the cache once it has the entry, *)
(* and fetches a token while it holds it.                                  *)
(*                                                                         *)
(* The server counts a token's life from the moment it issues it, the      *)
(* provider from the moment it has read the answer.                        *)
(***************************************************************************)
EXTENDS Naturals

CONSTANTS
  User,       \* virtual users
  Key,        \* token_url, client_id and scopes: an entry of Provider.tokens
  Nobody,     \* holds an entry nobody holds
  Margin,     \* tokenRefreshMargin
  Timeout,    \* what bounds one token request
  Lifetime,   \* the lifetimes a server may state, 0 when it states none
  MaxNow      \* bound on the clock

ASSUME TokenCacheAssumption ==
  /\ Nobody \notin User
  /\ Margin \in Nat /\ Timeout \in Nat /\ Timeout < Margin
  /\ Lifetime \subseteq Nat
  /\ MaxNow \in Nat

VARIABLES
  now,     \* the clock
  entry,   \* per key: who holds it, its token, its expiresAt, its bodyAuth
  caller   \* per user: where its call of token is

tokenVars == <<now, entry, caller>>

(* A token is the moment the server stops taking it, or none. *)
NoToken == [known |-> FALSE, dies |-> 0]
Token   == [known : BOOLEAN, dies : Nat]

Entry == [holder : User \cup {Nobody}, token : Token, expiresAt : Nat, bodyAuth : BOOLEAN]

Caller == [at   : {"out", "locking", "basic", "body", "served", "refused"},
           key  : Key, sent : Nat, token : Token]

EmptyEntry == [holder |-> Nobody, token |-> NoToken, expiresAt |-> 0, bodyAuth |-> FALSE]

TokenInit ==
  /\ now = 0
  /\ entry = [k \in Key |-> EmptyEntry]
  /\ \E k \in Key :
       caller = [u \in User |-> [at |-> "out", key |-> k, sent |-> 0, token |-> NoToken]]

Granting(u) == caller[u].at \in {"basic", "body"}

(* Mutant of Fresh: a token is served up to its last moment. *)
FreshToTheEnd(k) == entry[k].token.known /\ now < entry[k].expiresAt

(* The token held for k is outside the refresh margin. *)
Fresh(k) == entry[k].token.known /\ now + Margin < entry[k].expiresAt

(* A call of token: the caller waits for the entry of its key. *)
Ask(u, k) ==
  /\ caller[u].at = "out"
  /\ caller' = [caller EXCEPT ![u] = [at |-> "locking", key |-> k, sent |-> 0, token |-> NoToken]]
  /\ UNCHANGED <<now, entry>>

(* The caller is done with what token returned. *)
Leave(u) ==
  /\ caller[u].at \in {"served", "refused"}
  /\ caller' = [caller EXCEPT ![u].at = "out", ![u].token = NoToken]
  /\ UNCHANGED <<now, entry>>

Acquires(u) == caller[u].at = "locking" /\ entry[caller[u].key].holder = Nobody

ServeCached(u) ==
  /\ Acquires(u)
  /\ Fresh(caller[u].key)
  /\ caller' = [caller EXCEPT ![u].at = "served", ![u].token = entry[caller[u].key].token]
  /\ UNCHANGED <<now, entry>>

(* The allow-list check fails or refuses the endpoint. *)
RefuseEndpoint(u) ==
  /\ Acquires(u)
  /\ ~ Fresh(caller[u].key)
  /\ caller' = [caller EXCEPT ![u].at = "refused"]
  /\ UNCHANGED <<now, entry>>

(* fetchToken: the credentials go as HTTP Basic until the endpoint is known *)
(* to take them as form fields.                                             *)
SendGrant(u) ==
  LET k == caller[u].key IN
  /\ Acquires(u)
  /\ ~ Fresh(k)
  /\ entry' = [entry EXCEPT ![k].holder = u]
  /\ caller' = [caller EXCEPT ![u].at = IF entry[k].bodyAuth THEN "body" ELSE "basic",
                              ![u].sent = now]
  /\ UNCHANGED now

(* A server that states no lifetime gets a token that is never fresh. *)
TimeToLive(stated) == IF stated > 0 THEN stated ELSE Margin

(* A 200 that carries an access_token, issued since the request was sent.  *)
(* With no lifetime stated the token may be dead the moment it is issued.  *)
IssueToken(u) ==
  LET k == caller[u].key IN
  /\ Granting(u)
  /\ \E issued \in caller[u].sent .. now, stated \in Lifetime :
       LET token == [known |-> TRUE, dies |-> issued + stated] IN
       /\ entry' = [entry EXCEPT ![k] =
                      [holder |-> Nobody, token |-> token,
                       expiresAt |-> now + TimeToLive(stated),
                       bodyAuth |-> @.bodyAuth \/ caller[u].at = "body"]]
       /\ caller' = [caller EXCEPT ![u].at = "served", ![u].sent = 0, ![u].token = token]
  /\ UNCHANGED now

(* A 400 or a 401 to Basic: the same grant again, as form fields. *)
RejectPlacement(u) ==
  /\ caller[u].at = "basic"
  /\ caller' = [caller EXCEPT ![u].at = "body", ![u].sent = now]
  /\ UNCHANGED <<now, entry>>

(* Mutant of FailGrant: an error return without the unlock. *)
FailGrantHolding(u) ==
  /\ Granting(u)
  /\ caller' = [caller EXCEPT ![u].at = "refused", ![u].sent = 0]
  /\ UNCHANGED <<now, entry>>

(* Any other answer, none at all, or one that is no token response.  The   *)
(* entry keeps what it had.                                                *)
FailGrant(u) ==
  /\ Granting(u)
  /\ caller' = [caller EXCEPT ![u].at = "refused", ![u].sent = 0]
  /\ entry' = [entry EXCEPT ![caller[u].key].holder = Nobody]
  /\ UNCHANGED now

(* A token request ends within Timeout, the reading of its body included. *)
Tick ==
  /\ now < MaxNow
  /\ \A u \in User : Granting(u) => now < caller[u].sent + Timeout
  /\ now' = now + 1
  /\ UNCHANGED <<entry, caller>>

TokenStep(u) ==
  \/ ServeCached(u) \/ RefuseEndpoint(u) \/ SendGrant(u)
  \/ IssueToken(u) \/ RejectPlacement(u) \/ FailGrant(u)

TokenNext ==
  \/ Tick
  \/ \E u \in User : TokenStep(u) \/ Leave(u) \/ \E k \in Key : Ask(u, k)

TokenSpec == TokenInit /\ [][TokenNext]_tokenVars

-------------------------------------------------------------------------------

TokenTypeOK ==
  /\ now \in Nat
  /\ entry \in [Key -> Entry]
  /\ caller \in [User -> Caller]

(* What the refresh margin is for: a token served from the cache is still  *)
(* good at the server for longer than the margin less one request timeout, *)
(* however late in the exchange the provider read its clock (token).       *)
CachedTokensLive ==
  \A k \in Key : Fresh(k) => now + Margin < entry[k].token.dies + Timeout

(* The herd at the start of a run collapses into one fetch: whoever asks   *)
(* an endpoint for a token holds its entry, and the cache had nothing      *)
(* fresh to give (token, and the comment on tokenEntry).                   *)
OneGrantAtATime ==
  \A u \in User : Granting(u) =>
    /\ entry[caller[u].key].holder = u
    /\ ~ Fresh(caller[u].key)

(* An endpoint that took the form fields once is not probed with Basic     *)
(* again (tokenEntry.bodyAuth).                                            *)
NoSecondProbe ==
  \A u \in User : caller[u].at = "basic" => ~ entry[caller[u].key].bodyAuth

(* Nobody holds an entry without a grant under way: no error path keeps a  *)
(* token endpoint locked for the rest of the run (token's deferred unlock). *)
EntriesAreFreed ==
  \A k \in Key : entry[k].holder # Nobody =>
    Granting(entry[k].holder) /\ caller[entry[k].holder].key = k

TokenSafe == TokenTypeOK /\ CachedTokensLive /\ OneGrantAtATime /\ NoSecondProbe /\ EntriesAreFreed

-------------------------------------------------------------------------------
(* What makes TokenSafe inductive. *)

(* A grant under way is no older than a token request may get.             *)
GrantsInTime ==
  \A u \in User : Granting(u) =>
    caller[u].sent =< now /\ now =< caller[u].sent + Timeout

(* What the provider takes for the end of a token's life is late by one    *)
(* request at most, or is inside the margin already.                       *)
ExpiryHonest ==
  \A k \in Key : entry[k].token.known =>
    \/ entry[k].expiresAt =< entry[k].token.dies + Timeout
    \/ entry[k].expiresAt =< now + Margin

TokenInv ==
  /\ TokenTypeOK /\ OneGrantAtATime /\ NoSecondProbe /\ EntriesAreFreed
  /\ GrantsInTime /\ ExpiryHonest
===============================================================================

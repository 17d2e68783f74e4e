------------------------------ MODULE CallProofs ------------------------------
(***************************************************************************)
(* A call step.  The token cache, for any number of virtual users and      *)
(* token endpoints, any lifetimes and any margin longer than a token       *)
(* request: on its own, and under the call steps that use it.  The         *)
(* requests of those steps, for any attempts, schemes, headers and         *)
(* cookies.  And the exchange of a call and its legs, for any number of    *)
(* redirects and of dials left behind.                                     *)
(***************************************************************************)
EXTENDS Calls, HttpCall, SequenceTheorems, WellFoundedInduction, TLAPS

-------------------------------------------------------------------------------
(* The token cache (TokenCache, Calls). *)

(* What a step that ends or begins no grant may do: callers move between   *)
(* the places outside of one.                                              *)
Quiet(u) ==
  /\ UNCHANGED <<now, entry>>
  /\ ~ Granting(u) /\ ~ Granting(u)'
  /\ \A w \in User \ {u} : caller'[w] = caller[w]

LEMMA QuietInv ==
  ASSUME TokenInv, TokenTypeOK', NEW u \in User, Quiet(u)
  PROVE  TokenInv'
<1>1. \A w \in User : Granting(w)' => Granting(w) /\ caller'[w] = caller[w]
  BY DEF Quiet, Granting
<1>2. \A w \in User : Granting(w) => w # u /\ Granting(w)' /\ caller'[w] = caller[w]
  BY DEF Quiet, Granting
<1>3. \A k \in Key : Fresh(k)' <=> Fresh(k)
  BY DEF Quiet, Fresh
<1>4. \A w \in User : Granting(w) => caller[w].key \in Key
  BY DEF TokenInv, TokenTypeOK, Caller
<1>5. OneGrantAtATime'
  BY <1>1, <1>3, <1>4 DEF TokenInv, OneGrantAtATime, Quiet
<1>6. NoSecondProbe'
  <2>1. \A w \in User : caller'[w].at = "basic" => Granting(w)'
    BY DEF Granting
  <2>2. QED BY <1>1, <2>1 DEF TokenInv, NoSecondProbe, Quiet
<1>7. EntriesAreFreed'
  <2>1. \A k \in Key : entry[k].holder \in User \cup {Nobody}
    BY DEF TokenInv, TokenTypeOK, Entry
  <2>2. QED BY <1>2, <2>1 DEF TokenInv, EntriesAreFreed, Quiet
<1>8. GrantsInTime'
  BY <1>1 DEF TokenInv, GrantsInTime, Quiet
<1>9. ExpiryHonest'
  BY DEF TokenInv, ExpiryHonest, Quiet
<1>10. QED BY <1>5, <1>6, <1>7, <1>8, <1>9 DEF TokenInv

(* The callers that move outside of a grant. *)
LEMMA OutsideInv ==
  ASSUME TokenInv, NEW u \in User,
         \/ Leave(u) \/ ServeCached(u) \/ RefuseEndpoint(u) \/ \E k \in Key : Ask(u, k)
  PROVE  TokenInv'
<1>1. now \in Nat /\ entry \in [Key -> Entry] /\ caller \in [User -> Caller]
  BY DEF TokenInv, TokenTypeOK
<1>2. UNCHANGED <<now, entry>> /\ \A w \in User \ {u} : caller'[w] = caller[w]
  BY <1>1 DEF Leave, ServeCached, RefuseEndpoint, Ask
<1>3. ~ Granting(u)
  BY DEF Leave, ServeCached, RefuseEndpoint, Ask, Acquires, Granting
<1>4. ~ Granting(u)' /\ caller' \in [User -> Caller]
  <2>1. CASE Leave(u)
    <3>1. PICK c \in Caller : c = [caller[u] EXCEPT !.at = "out", !.token = NoToken]
      BY <1>1 DEF Caller, NoToken, Token
    <3>2. caller' = [caller EXCEPT ![u] = c]
      BY <2>1, <3>1 DEF Leave
    <3>3. c.at = "out"
      BY <1>1, <3>1 DEF Caller
    <3>4. QED BY <1>1, <3>2, <3>3 DEF Granting
  <2>2. CASE ServeCached(u)
    <3>1. entry[caller[u].key].token \in Token
      BY <1>1 DEF Entry, Caller
    <3>2. QED BY <1>1, <2>2, <3>1 DEF ServeCached, Granting, Caller
  <2>3. CASE RefuseEndpoint(u)
    BY <1>1, <2>3 DEF RefuseEndpoint, Granting, Caller
  <2>4. CASE \E k \in Key : Ask(u, k)
    BY <1>1, <2>4 DEF Ask, Granting, Caller, NoToken, Token
  <2>5. QED BY <2>1, <2>2, <2>3, <2>4
<1>5. TokenTypeOK'
  BY <1>1, <1>2, <1>4 DEF TokenTypeOK
<1>6. QED BY <1>2, <1>3, <1>4, <1>5, QuietInv DEF Quiet

(* The clock: a grant that would be older than Timeout holds it up, and    *)
(* nothing becomes fresh by waiting.                                       *)
LEMMA TickInv ==
  ASSUME TokenInv, Tick
  PROVE  TokenInv'
<1> USE TokenCacheAssumption
<1>1. now \in Nat /\ entry \in [Key -> Entry] /\ caller \in [User -> Caller]
  BY DEF TokenInv, TokenTypeOK
<1>2. now' = now + 1 /\ UNCHANGED <<entry, caller>>
  BY DEF Tick
<1>3. TokenTypeOK'
  BY <1>1, <1>2 DEF TokenTypeOK
<1>4. \A k \in Key : Fresh(k)' => Fresh(k)
  BY <1>1, <1>2 DEF Fresh, Entry
<1>5. OneGrantAtATime'
  <2>1. \A w \in User : caller[w].key \in Key
    BY <1>1 DEF Caller
  <2>2. QED BY <1>2, <1>4, <2>1 DEF TokenInv, OneGrantAtATime, Granting
<1>6. NoSecondProbe' /\ EntriesAreFreed'
  BY <1>2 DEF TokenInv, NoSecondProbe, EntriesAreFreed, Granting
<1>7. GrantsInTime'
  <2>1. \A w \in User : caller[w].sent \in Nat
    BY <1>1 DEF Caller
  <2>2. QED BY <1>1, <1>2, <2>1 DEF TokenInv, GrantsInTime, Granting, Tick
<1>8. ExpiryHonest'
  <2>1. \A k \in Key : entry[k].expiresAt \in Nat /\ entry[k].token.dies \in Nat
    BY <1>1 DEF Entry, Token
  <2>2. QED BY <1>1, <1>2, <2>1 DEF TokenInv, ExpiryHonest
<1>9. QED BY <1>3, <1>5, <1>6, <1>7, <1>8 DEF TokenInv

(* A grant begins: the caller takes the entry it found free. *)
LEMMA SendGrantInv ==
  ASSUME TokenInv, NEW u \in User, SendGrant(u)
  PROVE  TokenInv'
<1> USE TokenCacheAssumption
<1> DEFINE k == caller[u].key
<1>1. now \in Nat /\ entry \in [Key -> Entry] /\ caller \in [User -> Caller] /\ k \in Key
  BY DEF TokenInv, TokenTypeOK, Caller
<1>2. /\ caller[u].at = "locking" /\ entry[k].holder = Nobody /\ ~ Fresh(k) /\ now' = now
      /\ entry' = [entry EXCEPT ![k].holder = u]
      /\ caller' = [caller EXCEPT ![u].at = IF entry[k].bodyAuth THEN "body" ELSE "basic",
                                  ![u].sent = now]
  BY DEF SendGrant, Acquires
<1> HIDE DEF k
<1>3. /\ \A w \in User \ {u} : caller'[w] = caller[w]
      /\ caller'[u].key = k /\ caller'[u].sent = now
      /\ caller'[u].at = IF entry[k].bodyAuth THEN "body" ELSE "basic"
  BY <1>1, <1>2 DEF Caller, k
<1>4. /\ \A j \in Key \ {k} : entry'[j] = entry[j]
      /\ entry'[k].holder = u
      /\ \A j \in Key : /\ entry'[j].token = entry[j].token
                        /\ entry'[j].expiresAt = entry[j].expiresAt
                        /\ entry'[j].bodyAuth = entry[j].bodyAuth
  BY <1>1, <1>2 DEF Entry
<1>5. TokenTypeOK'
  <2>1. entry' \in [Key -> Entry]
    BY <1>1, <1>2 DEF Entry
  <2>2. caller' \in [User -> Caller]
    <3>1. PICK c \in Caller : c = [caller[u] EXCEPT !.at = IF entry[k].bodyAuth THEN "body" ELSE "basic",
                                                    !.sent = now]
      BY <1>1 DEF Caller
    <3>2. caller' = [caller EXCEPT ![u] = c]
      BY <1>2, <3>1
    <3>3. QED BY <1>1, <3>2
  <2>3. QED BY <1>1, <1>2, <2>1, <2>2 DEF TokenTypeOK
<1>6. \A j \in Key : Fresh(j)' <=> Fresh(j)
  BY <1>2, <1>4 DEF Fresh
<1>7. \A w \in User \ {u} : Granting(w) => caller[w].key \in Key \ {k}
  BY <1>1, <1>2 DEF TokenInv, OneGrantAtATime, Caller
<1>8. OneGrantAtATime'
  <2>1. SUFFICES ASSUME NEW w \in User, Granting(w)'
                 PROVE  entry'[caller'[w].key].holder = w /\ ~ Fresh(caller[w].key)'
    BY <1>3 DEF OneGrantAtATime, Fresh, k
  <2>2. CASE w = u
    BY <1>1, <1>2, <1>3, <1>4, <1>6, <2>2 DEF k
  <2>3. CASE w # u
    BY <1>3, <1>4, <1>6, <1>7, <2>1, <2>3 DEF TokenInv, OneGrantAtATime, Granting
  <2>4. QED BY <2>2, <2>3
<1>9. NoSecondProbe'
  <2>1. \A w \in User \ {u} : caller'[w].at = "basic" => ~ entry'[caller'[w].key].bodyAuth
    BY <1>3, <1>4, <1>7 DEF TokenInv, NoSecondProbe, Granting
  <2>2. caller'[u].at = "basic" => ~ entry'[caller'[u].key].bodyAuth
    BY <1>1, <1>3, <1>4
  <2>3. QED BY <2>1, <2>2 DEF NoSecondProbe
<1>10. EntriesAreFreed'
  <2>1. entry'[k].holder = u /\ Granting(u)' /\ caller'[u].key = k
    BY <1>3, <1>4 DEF Granting
  <2>2. \A j \in Key \ {k} : entry[j].holder # Nobody =>
          entry[j].holder \in User \ {u}
    BY <1>1, <1>2 DEF TokenInv, EntriesAreFreed, Entry, Granting
  <2>3. \A j \in Key \ {k} : (entry[j].holder # Nobody =>
          Granting(entry[j].holder) /\ caller[entry[j].holder].key = j)'
    BY <1>3, <1>4, <2>2 DEF TokenInv, EntriesAreFreed, Granting
  <2>4. QED BY <2>1, <2>3 DEF EntriesAreFreed
<1>11. GrantsInTime'
  <2>1. \A w \in User \ {u} : Granting(w)' => caller'[w].sent =< now' /\ now' =< caller'[w].sent + Timeout
    BY <1>2, <1>3 DEF TokenInv, GrantsInTime, Granting
  <2>2. caller'[u].sent =< now' /\ now' =< caller'[u].sent + Timeout
    BY <1>1, <1>2, <1>3
  <2>3. QED BY <2>1, <2>2 DEF GrantsInTime
<1>12. ExpiryHonest'
  BY <1>2, <1>4 DEF TokenInv, ExpiryHonest
<1>13. QED BY <1>5, <1>8, <1>9, <1>10, <1>11, <1>12 DEF TokenInv

(* What the ends of a grant have in common: the caller lets its entry go.  *)
LEMMA GrantEndsInv ==
  ASSUME TokenInv, TokenTypeOK', NEW u \in User, Granting(u), ~ Granting(u)', now' = now,
         \A w \in User \ {u} : caller'[w] = caller[w],
         \A j \in Key \ {caller[u].key} : entry'[j] = entry[j],
         entry'[caller[u].key].holder = Nobody,
         \/ entry'[caller[u].key].expiresAt =< entry'[caller[u].key].token.dies + Timeout
         \/ entry'[caller[u].key].expiresAt =< now + Margin
         \/ /\ entry'[caller[u].key].token = entry[caller[u].key].token
            /\ entry'[caller[u].key].expiresAt = entry[caller[u].key].expiresAt
  PROVE  TokenInv'
<1> DEFINE k == caller[u].key
<1>1. k \in Key /\ entry[k].holder = u
  BY DEF TokenInv, OneGrantAtATime, TokenTypeOK, Caller
<1>2. \A w \in User \ {u} : Granting(w) =>
        /\ caller[w].key \in Key \ {k}
        /\ entry'[caller[w].key] = entry[caller[w].key]
  BY <1>1 DEF TokenInv, OneGrantAtATime, TokenTypeOK, Caller
<1>3. \A w \in User : Granting(w)' => w # u /\ Granting(w) /\ caller'[w] = caller[w]
  BY DEF Granting
<1>4. OneGrantAtATime'
  BY <1>2, <1>3 DEF TokenInv, OneGrantAtATime, Fresh
<1>5. NoSecondProbe'
  <2>1. \A w \in User : caller'[w].at = "basic" => Granting(w)'
    BY DEF Granting
  <2>2. QED BY <1>2, <1>3, <2>1 DEF TokenInv, NoSecondProbe
<1>6. EntriesAreFreed'
  <2>1. \A j \in Key \ {k} : entry[j].holder # Nobody => entry[j].holder \in User \ {u}
    BY DEF TokenInv, EntriesAreFreed, TokenTypeOK, Entry
  <2>2. \A j \in Key \ {k} : (entry[j].holder # Nobody =>
          Granting(entry[j].holder) /\ caller[entry[j].holder].key = j)'
    BY <2>1 DEF TokenInv, EntriesAreFreed, Granting
  <2>3. QED BY <2>2 DEF EntriesAreFreed
<1>7. GrantsInTime'
  BY <1>3 DEF TokenInv, GrantsInTime
<1>8. ExpiryHonest'
  BY <1>1 DEF TokenInv, ExpiryHonest
<1>9. QED BY <1>4, <1>5, <1>6, <1>7, <1>8 DEF TokenInv

(* A token comes in.  The provider's count of its life starts no later     *)
(* than one request after the server's.                                    *)
LEMMA IssueTokenInv ==
  ASSUME TokenInv, NEW u \in User, IssueToken(u)
  PROVE  TokenInv'
<1> USE TokenCacheAssumption
<1> DEFINE k == caller[u].key
<1>1. /\ now \in Nat /\ entry \in [Key -> Entry] /\ caller \in [User -> Caller]
      /\ k \in Key /\ caller[u].sent \in Nat
  BY DEF TokenInv, TokenTypeOK, Caller
<1>2. caller[u].sent =< now /\ now =< caller[u].sent + Timeout /\ Granting(u) /\ now' = now
  BY DEF TokenInv, GrantsInTime, IssueToken
<1>3. PICK issued \in caller[u].sent .. now, stated \in Lifetime :
        /\ entry' = [entry EXCEPT ![k] =
             [holder |-> Nobody, token |-> [known |-> TRUE, dies |-> issued + stated],
              expiresAt |-> now + TimeToLive(stated),
              bodyAuth |-> @.bodyAuth \/ caller[u].at = "body"]]
        /\ caller' = [caller EXCEPT ![u].at = "served", ![u].sent = 0,
                       ![u].token = [known |-> TRUE, dies |-> issued + stated]]
  BY DEF IssueToken
<1>4. issued \in Nat /\ stated \in Nat /\ now =< issued + Timeout
  BY <1>1, <1>2, <1>3
<1>5. TimeToLive(stated) \in Nat
      /\ (TimeToLive(stated) = stated \/ TimeToLive(stated) = Margin)
  BY <1>4 DEF TimeToLive
<1>6. entry'[k].holder = Nobody
      /\ entry'[k].expiresAt = now + TimeToLive(stated)
      /\ entry'[k].token.dies = issued + stated
      /\ \A j \in Key \ {k} : entry'[j] = entry[j]
  BY <1>1, <1>3
<1>7. \/ entry'[k].expiresAt =< entry'[k].token.dies + Timeout
      \/ entry'[k].expiresAt =< now + Margin
  BY <1>1, <1>4, <1>5, <1>6
<1>8. ~ Granting(u)' /\ \A w \in User \ {u} : caller'[w] = caller[w]
  BY <1>1, <1>3 DEF Granting, Caller
<1>9. TokenTypeOK'
  <2>1. [known |-> TRUE, dies |-> issued + stated] \in Token
    BY <1>4 DEF Token
  <2>2. (entry[k].bodyAuth \/ caller[u].at = "body") \in BOOLEAN
    BY Zenon
  <2>3. now + TimeToLive(stated) \in Nat
    BY <1>1, <1>5
  <2>4. entry' \in [Key -> Entry]
    BY <1>1, <1>3, <2>1, <2>2, <2>3 DEF Entry
  <2>5. caller' \in [User -> Caller]
    <3>1. PICK c \in Caller : c = [caller[u] EXCEPT !.at = "served", !.sent = 0,
                                    !.token = [known |-> TRUE, dies |-> issued + stated]]
      BY <1>1, <2>1 DEF Caller
    <3>2. caller' = [caller EXCEPT ![u] = c]
      BY <1>3, <3>1
    <3>3. QED BY <1>1, <3>2
  <2>6. QED BY <1>1, <1>2, <2>4, <2>5 DEF TokenTypeOK
<1>10. QED BY <1>2, <1>6, <1>7, <1>8, <1>9, GrantEndsInv

LEMMA FailGrantInv ==
  ASSUME TokenInv, NEW u \in User, FailGrant(u)
  PROVE  TokenInv'
<1> DEFINE k == caller[u].key
<1>1. /\ now \in Nat /\ entry \in [Key -> Entry] /\ caller \in [User -> Caller]
      /\ k \in Key
  BY DEF TokenInv, TokenTypeOK, Caller
<1>2. /\ Granting(u) /\ now' = now
      /\ caller' = [caller EXCEPT ![u].at = "refused", ![u].sent = 0]
      /\ entry' = [entry EXCEPT ![k].holder = Nobody]
  BY DEF FailGrant
<1>3. TokenTypeOK'
  <2>1. PICK c \in Caller : c = [caller[u] EXCEPT !.at = "refused", !.sent = 0]
    BY <1>1 DEF Caller
  <2>2. caller' = [caller EXCEPT ![u] = c]
    BY <1>2, <2>1
  <2>3. caller' \in [User -> Caller]
    BY <1>1, <2>2
  <2>4. PICK e \in Entry : e = [entry[k] EXCEPT !.holder = Nobody]
    BY <1>1 DEF Entry
  <2>5. entry' = [entry EXCEPT ![k] = e]
    BY <1>2, <2>4
  <2>6. entry' \in [Key -> Entry]
    BY <1>1, <2>5
  <2>7. QED BY <1>1, <1>2, <2>3, <2>6 DEF TokenTypeOK
<1>4. ~ Granting(u)' /\ \A w \in User \ {u} : caller'[w] = caller[w]
  BY <1>1, <1>2 DEF Granting, Caller
<1>5. /\ entry'[k].holder = Nobody /\ entry'[k].token = entry[k].token
      /\ entry'[k].expiresAt = entry[k].expiresAt
      /\ \A j \in Key \ {k} : entry'[j] = entry[j]
  BY <1>1, <1>2 DEF Entry
<1>6. QED BY <1>2, <1>3, <1>4, <1>5, GrantEndsInv

(* The second try keeps the entry. *)
LEMMA RejectPlacementInv ==
  ASSUME TokenInv, NEW u \in User, RejectPlacement(u)
  PROVE  TokenInv'
<1> USE TokenCacheAssumption
<1>1. now \in Nat /\ entry \in [Key -> Entry] /\ caller \in [User -> Caller]
  BY DEF TokenInv, TokenTypeOK
<1>2. /\ UNCHANGED <<now, entry>> /\ caller[u].at = "basic"
      /\ caller' = [caller EXCEPT ![u].at = "body", ![u].sent = now]
  BY DEF RejectPlacement
<1>3. TokenTypeOK'
  BY <1>1, <1>2 DEF TokenTypeOK, Caller
<1>4. /\ \A w \in User \ {u} : caller'[w] = caller[w]
      /\ caller'[u].key = caller[u].key /\ caller'[u].at = "body" /\ caller'[u].sent = now
  BY <1>1, <1>2 DEF Caller
<1>5. \A w \in User : Granting(w)' <=> Granting(w)
  BY <1>2, <1>4 DEF Granting
<1>6. \A w \in User : caller'[w].key = caller[w].key
  BY <1>4
<1>7. OneGrantAtATime'
  BY <1>2, <1>5, <1>6 DEF TokenInv, OneGrantAtATime, Fresh
<1>8. NoSecondProbe'
  BY <1>2, <1>4 DEF TokenInv, NoSecondProbe
<1>9. EntriesAreFreed'
  <2>1. \A j \in Key : entry[j].holder # Nobody => entry[j].holder \in User
    BY <1>1 DEF Entry
  <2>2. QED BY <1>2, <1>5, <1>6, <2>1 DEF TokenInv, EntriesAreFreed
<1>10. GrantsInTime'
  <2>1. \A w \in User \ {u} : (Granting(w) =>
          caller[w].sent =< now /\ now =< caller[w].sent + Timeout)'
    BY <1>2, <1>4, <1>5 DEF TokenInv, GrantsInTime
  <2>2. caller'[u].sent =< now' /\ now' =< caller'[u].sent + Timeout
    BY <1>1, <1>2, <1>4
  <2>3. QED BY <2>1, <2>2 DEF GrantsInTime
<1>11. ExpiryHonest'
  BY <1>2 DEF TokenInv, ExpiryHonest
<1>12. QED BY <1>3, <1>7, <1>8, <1>9, <1>10, <1>11 DEF TokenInv

(* TokenInv is an invariant. *)
THEOREM TokensInductive == TokenSpec => []TokenInv
<1>1. TokenInit => TokenInv
  <2>1. SUFFICES ASSUME TokenInit PROVE TokenInv
    OBVIOUS
  <2>2. \A u \in User : caller[u].at = "out"
    <3>1. PICK key \in Key :
            caller = [u \in User |-> [at |-> "out", key |-> key, sent |-> 0, token |-> NoToken]]
      BY <2>1 DEF TokenInit
    <3>2. QED BY <3>1
  <2>3. \A k \in Key : entry[k] = EmptyEntry
    BY <2>1 DEF TokenInit
  <2>4. TokenTypeOK
    BY <2>1 DEF TokenInit, TokenTypeOK, EmptyEntry, NoToken, Entry, Token, Caller
  <2>5. QED
    BY <2>2, <2>3, <2>4 DEF TokenInv, OneGrantAtATime, NoSecondProbe, EntriesAreFreed,
       GrantsInTime, ExpiryHonest, Granting, EmptyEntry, NoToken
<1>2. TokenInv /\ [TokenNext]_tokenVars => TokenInv'
  <2>1. SUFFICES ASSUME TokenInv, [TokenNext]_tokenVars PROVE TokenInv'
    OBVIOUS
  <2>2. CASE Tick
    BY <2>1, <2>2, TickInv
  <2>3. CASE \E u \in User : SendGrant(u) \/ IssueToken(u) \/ RejectPlacement(u) \/ FailGrant(u)
    BY <2>1, <2>3, SendGrantInv, IssueTokenInv, RejectPlacementInv, FailGrantInv
  <2>4. CASE \E u \in User : \/ Leave(u) \/ ServeCached(u) \/ RefuseEndpoint(u)
                            \/ \E k \in Key : Ask(u, k)
    BY <2>1, <2>4, OutsideInv
  <2>5. CASE UNCHANGED tokenVars
    BY <2>1, <2>5 DEF tokenVars, TokenInv, TokenTypeOK, OneGrantAtATime, NoSecondProbe,
       EntriesAreFreed, GrantsInTime, ExpiryHonest, Granting, Fresh
  <2>6. QED BY <2>1, <2>2, <2>3, <2>4, <2>5 DEF TokenNext, TokenStep
<1>3. QED BY <1>1, <1>2, PTL DEF TokenSpec

(* One grant at a time to an endpoint, none while the cache has a fresh    *)
(* token, none with credentials an endpoint is known not to take, no entry *)
(* that stays locked, and no token served that the server no longer takes. *)
THEOREM TokensSafe == TokenSpec => []TokenSafe
<1>1. TokenInv => TokenSafe
  <2>1. SUFFICES ASSUME TokenInv, NEW k \in Key, Fresh(k)
                 PROVE  now + Margin < entry[k].token.dies + Timeout
    BY DEF TokenInv, TokenSafe, CachedTokensLive
  <2>2. now \in Nat /\ entry[k].expiresAt \in Nat /\ entry[k].token.dies \in Nat
    BY <2>1 DEF TokenInv, TokenTypeOK, Entry, Token
  <2>3. QED BY <2>1, <2>2, TokenCacheAssumption DEF Fresh, TokenInv, ExpiryHonest
<1>2. QED BY <1>1, TokensInductive, PTL

-------------------------------------------------------------------------------
(* The call steps. *)

CallsInv ==
  /\ call = [u \in User |-> call[u]]
  /\ \A u \in User : call[u].spec \in CallSpec

(* A call step asks for the token of a step that a flow has. *)
LEMMA CallsStep ==
  ASSUME CallsInv, [CallsNext]_vars
  PROVE  CallsInv' /\ [TokenNext]_tokenVars
<1> USE CallsAssumption
<1>1. /\ call = [w \in User |-> call[w]]
      /\ \A w \in User : call[w].spec \in CallSpec
  BY DEF CallsInv
<1>2. Between.spec \in CallSpec
  BY DEF Between
<1>3. CASE (Tick /\ UNCHANGED call) \/ (\E u \in User : TokenWork(u)) \/ UNCHANGED vars
  <2>1. call' = call
    BY <1>3 DEF TokenWork, vars
  <2>2. CallsInv'
    BY <1>1, <2>1 DEF CallsInv
  <2>3. [TokenNext]_tokenVars
    BY <1>3 DEF TokenWork, TokenNext, vars
  <2>4. QED BY <2>2, <2>3
<1>4. CASE \E u \in User : Begin(u) \/ Again(u) \/ CallStep(u)
  <2>1. PICK u \in User : Begin(u) \/ Again(u) \/ CallStep(u)
    BY <1>4
  <2>2. call[u].spec \in CallSpec
    BY <1>1
  <2>3. /\ call' = [w \in User |-> call'[w]]
        /\ \A w \in User \ {u} : call'[w] = call[w]
    BY <1>1, <2>1 DEF Begin, Again, CallStep, AskToken, Send, GiveUp, EndStep
  <2>4. call'[u].spec \in CallSpec
    <3>1. CASE Begin(u)
      BY <1>1, <3>1 DEF Begin
    <3>2. CASE Again(u)
      <4>1. call' = [call EXCEPT ![u].at = "attempt", ![u].attempt = @ + 1,
                                 ![u].wire = NoWire, ![u].sentAt = 0]
        BY <3>2 DEF Again
      <4>2. QED BY <1>1, <2>2, <4>1
    <3>3. CASE Send(u)
      <4>1. PICK req, wire : call' = [call EXCEPT ![u].at = "sent", ![u].req = req,
                                ![u].wire = wire, ![u].sentAt = now]
        BY <3>3 DEF Send
      <4>2. QED BY <1>1, <2>2, <4>1
    <3>4. CASE GiveUp(u) \/ EndStep(u)
      BY <1>1, <1>2, <3>4 DEF GiveUp, EndStep
    <3>5. CASE AskToken(u)
      <4> DEFINE asking == [call[u] EXCEPT !.at = "token"]
      <4>1. call' = [call EXCEPT ![u] = asking]
        BY <3>5 DEF AskToken
      <4>2. asking.spec = call[u].spec
        OBVIOUS
      <4> HIDE DEF asking
      <4>3. call'[u] = asking
        BY <1>1, <4>1
      <4>4. QED BY <2>2, <4>2, <4>3
    <3>6. QED BY <2>1, <3>1, <3>2, <3>3, <3>4, <3>5 DEF CallStep
  <2>5. CallsInv'
    BY <1>1, <2>3, <2>4 DEF CallsInv
  <2>6. [TokenNext]_tokenVars
    <3>1. CASE AskToken(u)
      <4>1. call[u].spec.key \in Key
        BY <2>2
      <4>2. QED BY <3>1, <4>1 DEF AskToken, TokenNext
    <3>2. CASE Again(u) \/ GiveUp(u) \/ EndStep(u)
      BY <3>2 DEF Again, GiveUp, EndStep, ForgetToken, TokenNext
    <3>3. CASE Begin(u) \/ Send(u)
      BY <3>3 DEF Begin, Send
    <3>4. QED BY <2>1, <3>1, <3>2, <3>3 DEF CallStep
  <2>7. QED BY <2>5, <2>6
<1>5. QED BY <1>3, <1>4 DEF CallsNext

(* Call steps, retries included, use the token cache by its operations     *)
(* only: their behaviours are behaviours of the token cache.               *)
THEOREM CallsUseTheCache == CallsSpec => TokenSpec
<1>1. CallsInit => TokenInit /\ CallsInv
  <2>1. SUFFICES ASSUME CallsInit PROVE CallsInv
    BY DEF CallsInit
  <2>2. call = [u \in User |-> Between] /\ Between.spec \in CallSpec
    BY <2>1, CallsAssumption DEF CallsInit, Between
  <2>3. QED BY <2>2 DEF CallsInv
<1>2. CallsInv /\ [CallsNext]_vars => CallsInv' /\ [TokenNext]_tokenVars
  BY CallsStep
<1>3. QED BY <1>1, <1>2, PTL DEF CallsSpec, TokenSpec

(* The token cache is safe under the call steps of any flows.              *)
THEOREM SafeUnderCalls == CallsSpec => []TokenSafe
  BY CallsUseTheCache, TokensSafe, PTL

-------------------------------------------------------------------------------
(* The requests (Calls). *)

(* A set that holds 0, and with every number its successor, holds them all. *)
LEMMA AllNumbers ==
  ASSUME NEW S, 0 \in S, \A n \in Nat : n \in S => n + 1 \in S
  PROVE  Nat \subseteq S
<1>1. SUFFICES ASSUME Nat \ S # {} PROVE FALSE
  OBVIOUS
<1>2. PICK n \in Nat \ S : \A m \in Nat \ S : <<m, n>> \notin OpToRel(<, Nat)
  BY <1>1, NatLessThanWellFounded, WFMin
<1>3. n - 1 \in Nat
  <2>1. n # 0 /\ n \in Nat
    BY <1>2
  <2>2. QED BY <2>1
<1>4. <<n - 1, n>> \in OpToRel(<, Nat)
  BY <1>2, <1>3 DEF OpToRel
<1>5. n - 1 \in S
  BY <1>2, <1>3, <1>4
<1>6. (n - 1) + 1 = n
  <2>1. n \in Nat
    BY <1>2
  <2>2. QED BY <2>1
<1>7. QED BY <1>2, <1>3, <1>5, <1>6

(* What Others takes of the i-th pair; what it has taken of the first k. *)
Bit(pairs, n, i) == IF pairs[i].name = n THEN <<>> ELSE <<pairs[i]>>

Onto(others, pairs, n, i) == IF i = 0 THEN <<>> ELSE others[i - 1] \o Bit(pairs, n, i)

Takes(others, pairs, n, k) == others = [i \in 0 .. k |-> Onto(others, pairs, n, i)]

(* Others takes the pairs one by one. *)
LEMMA OthersAre ==
  ASSUME NEW pairs, NEW n, Len(pairs) \in Nat
  PROVE  \E others : /\ Others(pairs, n) = others[Len(pairs)]
                     /\ Takes(others, pairs, n, Len(pairs))
<1> DEFINE Solved == {k \in Nat : \E f : Takes(f, pairs, n, k)}
<1>1. 0 \in Solved
  <2>1. PICK f : f = [i \in 0 .. 0 |-> <<>>]
    OBVIOUS
  <2>2. Takes(f, pairs, n, 0)
    <3>1. \A i \in 0 .. 0 : Onto(f, pairs, n, i) = <<>>
      BY DEF Onto
    <3>2. QED BY <2>1, <3>1 DEF Takes
  <2>3. QED BY <2>2
<1>2. ASSUME NEW k \in Nat, k \in Solved PROVE k + 1 \in Solved
  <2>1. PICK f : Takes(f, pairs, n, k)
    BY <1>2
  <2>2. PICK g : g = [i \in 0 .. k + 1 |-> IF i = k + 1 THEN f[k] \o Bit(pairs, n, i) ELSE f[i]]
    OBVIOUS
  <2>3. \A i \in 0 .. k : g[i] = f[i]
    BY <2>2
  <2>4. \A i \in 0 .. k : f[i] = Onto(f, pairs, n, i)
    BY <2>1 DEF Takes
  <2>5. ASSUME NEW i \in 0 .. k + 1 PROVE g[i] = Onto(g, pairs, n, i)
    <3>1. CASE i = 0
      BY <2>3, <2>4, <3>1 DEF Onto
    <3>2. CASE i \in 1 .. k
      <4>1. i \in 0 .. k /\ i - 1 \in 0 .. k /\ i # 0
        BY <3>2
      <4>2. g[i] = f[i - 1] \o Bit(pairs, n, i)
        BY <2>3, <2>4, <4>1 DEF Onto
      <4>3. QED BY <2>3, <4>1, <4>2 DEF Onto
    <3>3. CASE i = k + 1
      <4>1. k \in 0 .. k /\ i # 0 /\ i - 1 = k
        BY <3>3
      <4>2. g[i] = f[k] \o Bit(pairs, n, i)
        BY <2>2, <3>3
      <4>3. QED BY <2>3, <4>1, <4>2 DEF Onto
    <3>4. QED BY <3>1, <3>2, <3>3
  <2>6. Takes(g, pairs, n, k + 1)
    <3>1. g = [i \in 0 .. k + 1 |-> g[i]]
      BY <2>2
    <3>2. QED BY <2>5, <3>1 DEF Takes
  <2>7. QED BY <2>6
<1>3. Nat \subseteq Solved
  <2> HIDE DEF Solved
  <2>1. QED BY <1>1, <1>2, AllNumbers
<1>4. \E f : Takes(f, pairs, n, Len(pairs))
  BY <1>3
<1> DEFINE chosen == CHOOSE f : Takes(f, pairs, n, Len(pairs))
<1>5. Takes(chosen, pairs, n, Len(pairs))
  BY <1>4
<1>6. Others(pairs, n) = chosen[Len(pairs)]
  BY DEF Others, Takes, Onto, Bit
<1> HIDE DEF chosen
<1>7. QED BY <1>5, <1>6

(* Pair by pair. *)
LEMMA OthersGrow ==
  ASSUME NEW pairs, NEW n, NEW others, Len(pairs) \in Nat, Takes(others, pairs, n, Len(pairs))
  PROVE  /\ others[0] = <<>>
         /\ \A i \in 0 .. Len(pairs) - 1 : others[i + 1] = others[i] \o Bit(pairs, n, i + 1)
<1>1. \A i \in 0 .. Len(pairs) : others[i] = Onto(others, pairs, n, i)
  BY DEF Takes
<1>2. others[0] = <<>>
  BY <1>1 DEF Onto
<1>3. ASSUME NEW i \in 0 .. Len(pairs) - 1
      PROVE  others[i + 1] = others[i] \o Bit(pairs, n, i + 1)
  <2>1. i + 1 \in 0 .. Len(pairs) /\ i + 1 # 0 /\ (i + 1) - 1 = i
    OBVIOUS
  <2>2. QED BY <1>1, <2>1 DEF Onto
<1>4. QED BY <1>2, <1>3

(* It has all the pairs of another name, and no other. *)
LEMMA OthersHave ==
  ASSUME NEW S, NEW pairs \in Seq(S), NEW n
  PROVE  /\ Others(pairs, n) \in Seq(S)
         /\ \A j \in DOMAIN Others(pairs, n) : Others(pairs, n)[j].name # n
         /\ \A p \in Range(pairs) : p.name # n => p \in Range(Others(pairs, n))
<1>1. Len(pairs) \in Nat /\ DOMAIN pairs = 1 .. Len(pairs)
  OBVIOUS
<1>2. PICK others : Others(pairs, n) = others[Len(pairs)] /\ Takes(others, pairs, n, Len(pairs))
  BY <1>1, OthersAre
<1>3. /\ others[0] = <<>>
      /\ \A i \in 0 .. Len(pairs) - 1 : others[i + 1] = others[i] \o Bit(pairs, n, i + 1)
  BY <1>1, <1>2, OthersGrow
<1> DEFINE Good(i) ==
      /\ others[i] \in Seq(S)
      /\ \A j \in 1 .. Len(others[i]) : others[i][j].name # n
      /\ \A k \in 1 .. i : pairs[k].name # n => \E j \in 1 .. Len(others[i]) : others[i][j] = pairs[k]
<1> DEFINE Goods == {i \in Nat : i =< Len(pairs) => Good(i)}
<1>4. 0 \in Goods
  <2>1. <<>> \in Seq(S) /\ Len(<<>>) = 0
    OBVIOUS
  <2>2. PICK none \in Seq(S) : none = others[0] /\ Len(none) = 0
    BY <1>3, <2>1
  <2>3. /\ \A j \in 1 .. Len(none) : none[j].name # n
        /\ \A k \in 1 .. 0 : \E j \in 1 .. Len(none) : none[j] = pairs[k]
    BY <2>2
  <2>4. Good(0)
    BY <2>2, <2>3
  <2>5. QED BY <2>4
<1>5. \A i \in Nat : i \in Goods => i + 1 \in Goods
  <2>1. SUFFICES ASSUME NEW i \in Nat, i + 1 =< Len(pairs), Good(i) PROVE Good(i + 1)
    BY <1>1
  <2>2. PICK old \in Seq(S) : old = others[i]
    BY <2>1
  <2>3. i + 1 \in 1 .. Len(pairs) /\ i \in 0 .. Len(pairs) - 1
    BY <1>1, <2>1
  <2>4. PICK p \in S : p = pairs[i + 1]
    BY <1>1, <2>3
  <2>5. PICK new : new = others[i + 1]
    OBVIOUS
  <2>6. new = old \o Bit(pairs, n, i + 1)
    BY <1>3, <2>2, <2>3, <2>5
  <2>7. /\ \A j \in 1 .. Len(old) : old[j].name # n
        /\ \A k \in 1 .. i : pairs[k].name # n => \E j \in 1 .. Len(old) : old[j] = pairs[k]
    BY <2>1, <2>2
  <2>8. \A k \in 1 .. i + 1 : k \in 1 .. i \/ k = i + 1
    OBVIOUS
  <2>9. /\ new \in Seq(S)
        /\ \A j \in 1 .. Len(new) : new[j].name # n
        /\ \A k \in 1 .. i + 1 : pairs[k].name # n => \E j \in 1 .. Len(new) : new[j] = pairs[k]
    <3>1. CASE p.name = n
      <4>1. new = old
        BY <2>4, <2>6, <3>1 DEF Bit
      <4>2. QED BY <2>4, <2>7, <2>8, <3>1, <4>1
    <3>2. CASE p.name # n
      <4>1. new = Append(old, p)
        BY <2>4, <2>6, <3>2 DEF Bit
      <4>2. /\ new \in Seq(S) /\ Len(new) = Len(old) + 1 /\ new[Len(old) + 1] = p
            /\ \A j \in 1 .. Len(old) : new[j] = old[j]
            /\ Len(old) \in Nat
        BY <4>1
      <4>3. \A j \in 1 .. Len(new) : new[j].name # n
        BY <2>7, <3>2, <4>2
      <4>4. \A k \in 1 .. i + 1 : pairs[k].name # n => \E j \in 1 .. Len(new) : new[j] = pairs[k]
        <5>1. SUFFICES ASSUME NEW k \in 1 .. i + 1, pairs[k].name # n
                       PROVE  \E j \in 1 .. Len(new) : new[j] = pairs[k]
          OBVIOUS
        <5>2. CASE k = i + 1
          BY <2>4, <4>2, <5>2
        <5>3. CASE k \in 1 .. i
          <6>1. PICK j \in 1 .. Len(old) : old[j] = pairs[k]
            BY <2>7, <5>1, <5>3
          <6>2. j \in 1 .. Len(new) /\ new[j] = pairs[k]
            BY <4>2, <6>1
          <6>3. QED BY <6>2
        <5>4. QED BY <2>8, <5>2, <5>3
      <4>5. QED BY <4>2, <4>3, <4>4
    <3>3. QED BY <3>1, <3>2
  <2>10. QED BY <2>5, <2>9
<1>6. Nat \subseteq Goods
  <2> HIDE DEF Goods
  <2>1. QED BY <1>4, <1>5, AllNumbers
<1>7. Good(Len(pairs))
  <2>1. Len(pairs) \in Nat /\ Len(pairs) =< Len(pairs)
    BY <1>1
  <2> HIDE DEF Good
  <2>2. QED BY <1>6, <2>1
<1>8. PICK rest \in Seq(S) : rest = Others(pairs, n)
  BY <1>2, <1>7
<1>9. /\ \A j \in 1 .. Len(rest) : rest[j].name # n
      /\ \A k \in 1 .. Len(pairs) : pairs[k].name # n => \E j \in 1 .. Len(rest) : rest[j] = pairs[k]
  BY <1>2, <1>7, <1>8
<1>10. DOMAIN rest = 1 .. Len(rest)
  OBVIOUS
<1>11. QED BY <1>1, <1>8, <1>9, <1>10 DEF Range

(* With no other pair of that name but the last, it has all but the last. *)
LEMMA OthersSettled ==
  ASSUME NEW S, NEW pairs \in Seq(S), NEW n, NEW p,
         \A j \in DOMAIN pairs : pairs[j].name # n, p.name = n
  PROVE  Others(Append(pairs, p), n) = pairs
<1>1. PICK all : all = Append(pairs, p)
  OBVIOUS
<1>2. /\ Len(pairs) \in Nat /\ DOMAIN pairs = 1 .. Len(pairs) /\ Len(all) = Len(pairs) + 1
      /\ \A i \in 1 .. Len(pairs) : all[i] = pairs[i]
      /\ all[Len(pairs) + 1] = p
  <2>1. pairs \in Seq(S \cup {p})
    OBVIOUS
  <2>2. QED BY <1>1, <2>1
<1>3. PICK others : Others(all, n) = others[Len(all)] /\ Takes(others, all, n, Len(all))
  <2>1. Len(all) \in Nat
    BY <1>2
  <2>2. QED BY <2>1, OthersAre
<1>4. /\ others[0] = <<>>
      /\ \A i \in 0 .. Len(all) - 1 : others[i + 1] = others[i] \o Bit(all, n, i + 1)
  <2>1. Len(all) \in Nat
    BY <1>2
  <2>2. QED BY <1>3, <2>1, OthersGrow
<1> DEFINE Same(i) ==
      others[i] \in Seq(S) /\ Len(others[i]) = i /\ \A j \in 1 .. i : others[i][j] = pairs[j]
<1> DEFINE Sames == {i \in Nat : i =< Len(pairs) => Same(i)}
<1>5. 0 \in Sames
  <2>1. <<>> \in Seq(S) /\ Len(<<>>) = 0
    OBVIOUS
  <2>2. PICK none \in Seq(S) : none = others[0] /\ Len(none) = 0
    BY <1>4, <2>1
  <2>3. \A j \in 1 .. 0 : none[j] = pairs[j]
    OBVIOUS
  <2>4. Same(0)
    BY <2>2, <2>3
  <2>5. QED BY <2>4
<1>6. \A i \in Nat : i \in Sames => i + 1 \in Sames
  <2>1. SUFFICES ASSUME NEW i \in Nat, i + 1 =< Len(pairs), Same(i) PROVE Same(i + 1)
    BY <1>2
  <2>2. PICK old \in Seq(S) : old = others[i]
    BY <2>1
  <2>3. i + 1 \in 1 .. Len(all) /\ i + 1 \in 1 .. Len(pairs) /\ i \in 0 .. Len(all) - 1
    BY <1>2, <2>1
  <2>4. PICK q \in S : q = pairs[i + 1]
    BY <1>2, <2>3
  <2>5. q.name # n /\ all[i + 1] = q
    BY <1>2, <2>3, <2>4
  <2>6. others[i + 1] = Append(old, q)
    <3>1. others[i + 1] = old \o <<q>>
      BY <1>4, <2>2, <2>3, <2>5 DEF Bit
    <3>2. QED BY <3>1
  <2>7. Append(old, q) \in Seq(S) /\ Len(Append(old, q)) = i + 1
    BY <2>1, <2>2
  <2>8. \A j \in 1 .. i + 1 : Append(old, q)[j] = pairs[j]
    <3>1. Len(old) = i /\ \A j \in 1 .. i : old[j] = pairs[j]
      BY <2>1, <2>2
    <3>2. QED BY <2>4, <3>1
  <2>9. QED BY <2>6, <2>7, <2>8
<1>7. Nat \subseteq Sames
  <2> HIDE DEF Sames
  <2>1. QED BY <1>5, <1>6, AllNumbers
<1>8. Same(Len(pairs))
  BY <1>2, <1>7
<1>9. PICK most \in Seq(S) : most = others[Len(pairs)]
  BY <1>8
<1>10. most = pairs
  <2>1. Len(most) = Len(pairs) /\ \A j \in 1 .. Len(pairs) : most[j] = pairs[j]
    BY <1>8, <1>9
  <2>2. QED BY <2>1, SeqEqual
<1>11. others[Len(all)] = most
  <2>1. Len(pairs) \in 0 .. Len(all) - 1 /\ Len(pairs) + 1 = Len(all)
    BY <1>2
  <2>2. others[Len(pairs) + 1] = others[Len(pairs)] \o Bit(all, n, Len(pairs) + 1)
    BY <1>4, <2>1
  <2>3. Bit(all, n, Len(pairs) + 1) = <<>>
    BY <1>2 DEF Bit
  <2>4. most \o <<>> = most
    BY <1>9
  <2>5. QED BY <1>9, <2>1, <2>2, <2>3, <2>4
<1>12. QED BY <1>1, <1>3, <1>10, <1>11


(* Setting a key again is setting it. *)
LEMMA WithAgain ==
  ASSUME NEW f, NEW x, NEW v, NEW w
  PROVE  With(With(f, x, v), x, w) = With(f, x, w)
BY DEF With

LEMMA WithBothAgain ==
  ASSUME NEW f, NEW x, NEW y, NEW v, NEW w, NEW v2, NEW w2, x # y
  PROVE  With(With(With(With(f, x, v), y, w), x, v2), y, w2) = With(With(f, x, v2), y, w2)
<1>1. DOMAIN With(With(With(With(f, x, v), y, w), x, v2), y, w2) = DOMAIN f \cup {x, y}
  BY DEF With
<1>2. DOMAIN With(With(f, x, v2), y, w2) = DOMAIN f \cup {x, y}
  BY DEF With
<1>3. ASSUME NEW z \in DOMAIN f \cup {x, y}
      PROVE  With(With(With(With(f, x, v), y, w), x, v2), y, w2)[z] = With(With(f, x, v2), y, w2)[z]
  BY DEF With
<1>4. QED BY <1>1, <1>2, <1>3 DEF With

(* The cookie header is a sequence of pairs where there is one. *)
CookieOf(headers) == IF "Cookie" \in DOMAIN headers THEN headers["Cookie"] ELSE <<>>

IsCookie(headers) == IsSequence(CookieOf(headers))

LEMMA CookieLeft ==
  ASSUME NEW headers, NEW n, NEW v, IsCookie(headers)
  PROVE  /\ CookieOf(AddCookie(headers, n, v)) = Append(Others(CookieOf(headers), n), Pair(n, v))
         /\ Others(CookieOf(AddCookie(headers, n, v)), n) = Others(CookieOf(headers), n)
<1>1. PICK had : had = CookieOf(headers) /\ had \in Seq(Range(had))
  BY DEF IsCookie, IsSequence
<1>2. PICK rest \in Seq(Range(had)) :
        rest = Others(had, n) /\ \A j \in DOMAIN rest : rest[j].name # n
  BY <1>1, OthersHave
<1>3. AddCookie(headers, n, v) = With(headers, "Cookie", Append(rest, Pair(n, v)))
  BY <1>1, <1>2 DEF AddCookie, CookieOf
<1>4. CookieOf(AddCookie(headers, n, v)) = Append(rest, Pair(n, v))
  BY <1>3 DEF CookieOf, With
<1>5. Pair(n, v).name = n
  BY DEF Pair
<1>6. Others(Append(rest, Pair(n, v)), n) = rest
  BY <1>2, <1>5, OthersSettled
<1>7. QED BY <1>1, <1>2, <1>4, <1>6

(* A cookie set twice is set once. *)
LEMMA CookieAgain ==
  ASSUME NEW headers, NEW n, NEW v, IsCookie(headers)
  PROVE  AddCookie(AddCookie(headers, n, v), n, v) = AddCookie(headers, n, v)
<1>1. PICK pairs : pairs = Append(Others(CookieOf(headers), n), Pair(n, v))
  OBVIOUS
<1>2. PICK once : once = AddCookie(headers, n, v)
  OBVIOUS
<1>3. once = With(headers, "Cookie", pairs)
  BY <1>1, <1>2 DEF AddCookie, CookieOf
<1>4. AddCookie(once, n, v) = With(once, "Cookie", Append(Others(CookieOf(once), n), Pair(n, v)))
  BY DEF AddCookie, CookieOf
<1>5. Others(CookieOf(once), n) = Others(CookieOf(headers), n)
  BY <1>2, CookieLeft
<1>6. AddCookie(once, n, v) = With(With(headers, "Cookie", pairs), "Cookie", pairs)
  BY <1>1, <1>3, <1>4, <1>5
<1>7. QED BY <1>2, <1>3, <1>6, WithAgain

(* The headers and the query Apply leaves. *)
Heads(scheme, req, token, at) ==
  CASE scheme \in {"none", "api_key_query"} -> req.headers
    [] scheme = "bearer" -> With(req.headers, "Authorization", <<Pair("Bearer", "cred")>>)
    [] scheme = "basic"  -> With(req.headers, "Authorization", <<Pair("Basic", "cred")>>)
    [] scheme = "api_key_header" -> With(req.headers, "X-Key", <<Pair("key", "cred")>>)
    [] scheme = "cookie" -> AddCookie(req.headers, "session", "cred")
    [] scheme = "oauth2" -> With(req.headers, "Authorization", <<Pair("Bearer", token)>>)
    [] scheme = "hmac"   -> Signed(req, at)

Asked(scheme, req) ==
  IF scheme = "api_key_query" THEN With(req.query, "key", "cred") ELSE req.query

IsRequest(req) ==
  /\ req = [headers |-> req.headers, query |-> req.query, body |-> req.body]
  /\ IsCookie(req.headers)

LEMMA ApplyIs ==
  ASSUME NEW scheme \in Schemes, NEW req, NEW token, NEW at,
         req = [headers |-> req.headers, query |-> req.query, body |-> req.body]
  PROVE  Apply(scheme, req, token, at)
           = [headers |-> Heads(scheme, req, token, at), query |-> Asked(scheme, req),
              body |-> req.body]
<1>1. PICK h, q, b : req = [headers |-> h, query |-> q, body |-> b]
  OBVIOUS
<1>2. CASE scheme = "none"
  BY <1>1, <1>2 DEF Apply, Heads, Asked
<1>3. CASE scheme = "bearer"
  BY <1>1, <1>3 DEF Apply, Heads, Asked
<1>4. CASE scheme = "basic"
  BY <1>1, <1>4 DEF Apply, Heads, Asked
<1>5. CASE scheme = "api_key_header"
  BY <1>1, <1>5 DEF Apply, Heads, Asked
<1>6. CASE scheme = "api_key_query"
  BY <1>1, <1>6 DEF Apply, Heads, Asked
<1>7. CASE scheme = "cookie"
  BY <1>1, <1>7 DEF Apply, Heads, Asked
<1>8. CASE scheme = "oauth2"
  BY <1>1, <1>8 DEF Apply, Heads, Asked
<1>9. CASE scheme = "hmac"
  BY <1>1, <1>9 DEF Apply, Heads, Asked
<1>10. QED BY <1>2, <1>3, <1>4, <1>5, <1>6, <1>7, <1>8, <1>9 DEF Schemes

(* Apply puts its credentials in place of the ones an earlier attempt put. *)
LEMMA ApplyAgain ==
  ASSUME NEW scheme \in Schemes, NEW req, NEW t1, NEW a1, NEW t2, NEW a2, IsRequest(req)
  PROVE  Apply(scheme, Apply(scheme, req, t1, a1), t2, a2) = Apply(scheme, req, t2, a2)
<1>1. PICK once : once = Apply(scheme, req, t1, a1)
  OBVIOUS
<1>2. once = [headers |-> Heads(scheme, req, t1, a1), query |-> Asked(scheme, req), body |-> req.body]
  BY <1>1, ApplyIs DEF IsRequest
<1>3. once = [headers |-> once.headers, query |-> once.query, body |-> once.body]
  BY <1>2
<1>4. /\ once.headers = Heads(scheme, req, t1, a1) /\ once.query = Asked(scheme, req)
      /\ once.body = req.body
  BY <1>2
<1>5. Asked(scheme, once) = Asked(scheme, req)
  BY <1>4, WithAgain DEF Asked
<1>6. Heads(scheme, once, t2, a2) = Heads(scheme, req, t2, a2)
  <2>1. CASE scheme \in {"none", "api_key_query"}
    BY <1>4, <2>1 DEF Heads
  <2>2. CASE scheme = "bearer"
    BY <1>4, <2>2, WithAgain DEF Heads
  <2>3. CASE scheme = "basic"
    BY <1>4, <2>3, WithAgain DEF Heads
  <2>4. CASE scheme = "api_key_header"
    BY <1>4, <2>4, WithAgain DEF Heads
  <2>5. CASE scheme = "cookie"
    <3>1. once.headers = AddCookie(req.headers, "session", "cred")
      BY <1>4, <2>5 DEF Heads
    <3>2. Heads(scheme, once, t2, a2) = AddCookie(once.headers, "session", "cred")
      BY <2>5 DEF Heads
    <3>3. Heads(scheme, req, t2, a2) = AddCookie(req.headers, "session", "cred")
      BY <2>5 DEF Heads
    <3>4. QED BY <3>1, <3>2, <3>3, CookieAgain DEF IsRequest
  <2>6. CASE scheme = "oauth2"
    BY <1>4, <2>6, WithAgain DEF Heads
  <2>7. CASE scheme = "hmac"
    <3>1. once.headers = Signed(req, a1)
      BY <1>4, <2>7 DEF Heads
    <3>2. Heads(scheme, once, t2, a2) = Signed(once, a2) /\ Heads(scheme, req, t2, a2) = Signed(req, a2)
      BY <2>7 DEF Heads
    <3>3. once.query = req.query /\ once.body = req.body
      BY <1>4, <2>7 DEF Asked
    <3>4. Signature(once, a2) = Signature(req, a2)
      BY <3>3 DEF Signature
    <3>5. Signed(once, a2) = Signed(req, a2)
      BY <3>1, <3>4, WithBothAgain DEF Signed
    <3>6. QED BY <3>2, <3>5
  <2>8. QED BY <2>1, <2>2, <2>3, <2>4, <2>5, <2>6, <2>7 DEF Schemes
<1>7. Apply(scheme, once, t2, a2)
        = [headers |-> Heads(scheme, once, t2, a2), query |-> Asked(scheme, once), body |-> once.body]
  BY <1>3, ApplyIs
<1>8. Apply(scheme, req, t2, a2)
        = [headers |-> Heads(scheme, req, t2, a2), query |-> Asked(scheme, req), body |-> req.body]
  BY ApplyIs DEF IsRequest
<1>9. QED BY <1>1, <1>4, <1>5, <1>6, <1>7, <1>8

(* A request as a step has it: every header a spelling of one, each value a sequence. *)
AsBuilt(req) ==
  /\ req = [headers |-> req.headers, query |-> req.query, body |-> req.body]
  /\ DOMAIN req.headers \subseteq Header
  /\ \A h \in DOMAIN req.headers : IsSequence(req.headers[h])

LEMMA NoneIsSequence == IsSequence(<<>>)
BY DEF IsSequence

LEMMA OneIsSequence == ASSUME NEW p PROVE IsSequence(<<p>>)
<1>1. 1 \in DOMAIN <<p>> /\ <<p>>[1] = p
  OBVIOUS
<1>2. p \in Range(<<p>>)
  BY <1>1 DEF Range
<1>3. QED BY <1>2 DEF IsSequence

LEMMA BuiltAsBuilt ==
  ASSUME NEW spec \in CallSpec
  PROVE  /\ AsBuilt(BuildRequest(spec))
         /\ IsRequest(BuildRequest(spec))
         /\ \A h \in DOMAIN spec.headers :
              h \in DOMAIN BuildRequest(spec).headers /\ BuildRequest(spec).headers[h] = spec.headers[h]
         /\ \A h \in DOMAIN BuildRequest(spec).headers \ DOMAIN spec.headers :
              h = "Content-Type" /\ ~ Declares(spec.headers, "Content-Type")
<1>1. /\ DOMAIN spec.headers \subseteq Header
      /\ \A h \in DOMAIN spec.headers : IsSequence(spec.headers[h])
  BY CallsAssumption
<1>2. PICK own : own = spec.headers
  OBVIOUS
<1>3. PICK req : req = BuildRequest(spec)
  OBVIOUS
<1>4. req.query = spec.query /\ req.body = spec.body
      /\ req = [headers |-> req.headers, query |-> req.query, body |-> req.body]
  BY <1>3 DEF BuildRequest
<1>5. CASE spec.body /\ ~ Declares(own, "Content-Type")
  <2>1. req.headers = With(own, "Content-Type", <<Pair("type", "json")>>)
    BY <1>2, <1>3, <1>5 DEF BuildRequest
  <2>2. DOMAIN req.headers = DOMAIN own \cup {"Content-Type"}
        /\ req.headers["Content-Type"] = <<Pair("type", "json")>>
        /\ \A h \in DOMAIN own : h # "Content-Type" => req.headers[h] = own[h]
    BY <2>1 DEF With
  <2>3. IsSequence(req.headers["Content-Type"])
    BY <2>2, OneIsSequence
  <2>4. "Content-Type" \in Header
    BY DEF Header
  <2>5. "Content-Type" \notin DOMAIN own
    <3>1. Canonical["Content-Type"] = "Content-Type"
      BY <2>4 DEF Canonical
    <3>2. QED BY <1>5, <3>1 DEF Declares
  <2>6. AsBuilt(req)
    <3>1. DOMAIN req.headers \subseteq Header
      BY <1>1, <1>2, <2>2, <2>4
    <3>2. ASSUME NEW h \in DOMAIN req.headers PROVE IsSequence(req.headers[h])
      <4>1. CASE h = "Content-Type"
        BY <2>3, <4>1
      <4>2. CASE h # "Content-Type"
        <5>1. h \in DOMAIN own /\ req.headers[h] = own[h]
          BY <2>2, <4>2
        <5>2. QED BY <1>1, <1>2, <5>1
      <4>3. QED BY <4>1, <4>2
    <3>3. QED BY <1>4, <3>1, <3>2 DEF AsBuilt
  <2>7. IsCookie(req.headers)
    BY <2>6, NoneIsSequence DEF AsBuilt, IsCookie, CookieOf
  <2>8. QED BY <1>2, <1>3, <1>4, <1>5, <2>2, <2>5, <2>6, <2>7 DEF IsRequest
<1>6. CASE ~ (spec.body /\ ~ Declares(own, "Content-Type"))
  <2>1. req.headers = own
    BY <1>2, <1>3, <1>6 DEF BuildRequest
  <2>2. AsBuilt(req)
    BY <1>1, <1>2, <1>4, <2>1 DEF AsBuilt
  <2>3. IsCookie(req.headers)
    BY <2>2, NoneIsSequence DEF AsBuilt, IsCookie, CookieOf
  <2>4. QED BY <1>2, <1>3, <1>4, <2>1, <2>2, <2>3 DEF IsRequest
<1>7. QED BY <1>5, <1>6

(* Apply leaves the headers that are not its scheme's. *)
LEMMA ApplyKeeps ==
  ASSUME NEW scheme \in Schemes, NEW req, NEW token, NEW at,
         req = [headers |-> req.headers, query |-> req.query, body |-> req.body]
  PROVE  /\ DOMAIN Apply(scheme, req, token, at).headers = DOMAIN req.headers \cup Sets(scheme)
         /\ \A h \in DOMAIN req.headers \ Sets(scheme) :
              Apply(scheme, req, token, at).headers[h] = req.headers[h]
<1>1. PICK once : once = Apply(scheme, req, token, at)
  OBVIOUS
<1>2. once.headers = Heads(scheme, req, token, at)
  BY <1>1, ApplyIs
<1>3. CASE scheme \in {"none", "api_key_query"}
  BY <1>1, <1>2, <1>3 DEF Heads, Sets
<1>4. CASE scheme = "bearer"
  BY <1>1, <1>2, <1>4 DEF Heads, Sets, With
<1>5. CASE scheme = "basic"
  BY <1>1, <1>2, <1>5 DEF Heads, Sets, With
<1>6. CASE scheme = "api_key_header"
  BY <1>1, <1>2, <1>6 DEF Heads, Sets, With
<1>7. CASE scheme = "cookie"
  <2>1. PICK v : once.headers = With(req.headers, "Cookie", v)
    BY <1>2, <1>7 DEF Heads, AddCookie
  <2>2. QED BY <1>1, <1>7, <2>1 DEF Sets, With
<1>8. CASE scheme = "oauth2"
  BY <1>1, <1>2, <1>8 DEF Heads, Sets, With
<1>9. CASE scheme = "hmac"
  <2>1. PICK v, w : once.headers = With(With(req.headers, "X-Signature", v), "X-Timestamp", w)
    BY <1>2, <1>9 DEF Heads, Signed
  <2>2. QED BY <1>1, <1>9, <2>1 DEF Sets, With
<1>10. QED BY <1>3, <1>4, <1>5, <1>6, <1>7, <1>8, <1>9 DEF Schemes

(* A header spelled one way is sent as it is, or not at all when it is empty. *)
LEMMA WireOne ==
  ASSUME NEW headers, NEW h \in Header, NEW exact, h \in DOMAIN headers,
         \A g \in DOMAIN headers : Canonical[g] = Canonical[h] => g = h
  PROVE  WireValue(headers, Canonical[h], exact) = headers[h]
<1>1. PICK name : name = Canonical[h]
  OBVIOUS
<1>2. PICK set : set = {g \in DOMAIN headers :
                         Canonical[g] = name /\ (headers[g] # <<>> \/ name = "User-Agent")}
  OBVIOUS
<1>3. set = {} \/ set = {h}
  BY <1>1, <1>2
<1>4. WireValue(headers, name, exact)
        = CASE set = {} -> IF name = "User-Agent" THEN <<Pair("agent", "flowbench")>> ELSE <<>>
            [] OTHER    -> headers[CHOOSE g \in set : (g = name) = exact \/ set = {g}]
  BY <1>2 DEF WireValue
<1>5. CASE set = {}
  <2>1. headers[h] = <<>> /\ name # "User-Agent"
    BY <1>1, <1>2, <1>5
  <2>2. QED BY <1>1, <1>4, <1>5, <2>1
<1>6. CASE set = {h}
  <2>1. (CHOOSE g \in set : (g = name) = exact \/ set = {g}) = h
    BY <1>6
  <2>2. QED BY <1>1, <1>4, <1>6, <2>1
<1>7. QED BY <1>3, <1>5, <1>6

LEMMA SchemeKnown ==
  ASSUME NEW spec \in CallSpec
  PROVE  spec.scheme \in Schemes /\ spec.key \in Key
BY CallsAssumption

(* The names that are canonical already. *)
LEMMA CanonicalNames ==
  /\ DOMAIN Canonical = Header
  /\ \A scheme \in Schemes : \A h \in Sets(scheme) : h \in Header /\ Canonical[h] = h
  /\ \A h \in Header : Canonical[h] = "Cookie" => h = "cookie" \/ h = "Cookie"
  /\ \A h \in Header : Canonical[h] = "X-Signature" => h = "X-Signature"
  /\ Canonical["Content-Type"] = "Content-Type"
  /\ "Cookie" \in Range(Canonical) /\ "X-Signature" \in Range(Canonical)
<1>1. DOMAIN Canonical = Header
  BY DEF Canonical
<1>2. \A scheme \in Schemes : \A h \in Sets(scheme) : h \in Header /\ Canonical[h] = h
  BY DEF Canonical, Schemes, Sets, Header
<1>3. /\ \A h \in Header : Canonical[h] = "Cookie" => h = "cookie" \/ h = "Cookie"
      /\ \A h \in Header : Canonical[h] = "X-Signature" => h = "X-Signature"
      /\ Canonical["Content-Type"] = "Content-Type"
      /\ "Cookie" \in Header /\ Canonical["Cookie"] = "Cookie"
      /\ "X-Signature" \in Header /\ Canonical["X-Signature"] = "X-Signature"
  BY DEF Canonical, Header
<1>4. "Cookie" \in Range(Canonical) /\ "X-Signature" \in Range(Canonical)
  BY <1>1, <1>3 DEF Range
<1>5. QED BY <1>1, <1>2, <1>3, <1>4

(* What goes out under a name the step and its scheme spell one way. *)
LEMMA SentAsItIs ==
  ASSUME NEW req, NEW wire \in Wires(req), NEW h \in Header, h \in DOMAIN req.headers,
         \A g \in DOMAIN req.headers : Canonical[g] = Canonical[h] => g = h
  PROVE  /\ wire.headers[Canonical[h]] = req.headers[h]
         /\ wire.query = req.query /\ wire.body = req.body
<1>1. PICK exact \in BOOLEAN :
        wire = [headers |-> [n \in Range(Canonical) |-> WireValue(req.headers, n, exact)],
                query |-> req.query, body |-> req.body]
  BY DEF Wires
<1>2. Canonical[h] \in Range(Canonical)
  BY CanonicalNames DEF Range
<1>3. wire.headers[Canonical[h]] = WireValue(req.headers, Canonical[h], exact)
  BY <1>1, <1>2
<1>4. QED BY <1>1, <1>3, WireOne

(* A request its step and its scheme make is what RequestSafe asks for. *)
Honest(c) ==
  /\ c.spec.scheme = "hmac" =>
       c.wire.headers["X-Signature"] =
         <<Pair("hmac", [query |-> c.wire.query, body |-> c.wire.body, at |-> c.sentAt])>>
  /\ c.spec.scheme = "cookie" /\ "cookie" \notin DOMAIN c.spec.headers =>
       LET own  == c.spec.headers
           sent == c.wire.headers["Cookie"]
       IN /\ \E i \in DOMAIN sent : sent[i] = Pair("session", "cred")
          /\ \A i, j \in DOMAIN sent :
               sent[i].name = "session" /\ sent[j].name = "session" => i = j
          /\ "Cookie" \in DOMAIN own =>
               \A p \in Range(own["Cookie"]) : p.name # "session" => p \in Range(sent)
  /\ \A h \in DOMAIN c.spec.headers :
       /\ Canonical[h] \notin Sets(c.spec.scheme)
       /\ \A g \in DOMAIN c.spec.headers : Canonical[g] = Canonical[h] => g = h
       => c.wire.headers[Canonical[h]] = c.spec.headers[h]

LEMMA WhatIsSent ==
  ASSUME NEW c, NEW token, c.spec \in CallSpec, c.req = FromTheStep(c, token, c.sentAt),
         c.wire \in Wires(c.req)
  PROVE  Honest(c)
<1>1. PICK spec \in CallSpec : spec = c.spec
  OBVIOUS
<1>2. spec.scheme \in Schemes
  BY SchemeKnown
<1>3. PICK scheme \in Schemes : scheme = spec.scheme
  BY <1>2
<1>4. PICK base : base = BuildRequest(spec)
  OBVIOUS
<1>5. AsBuilt(base) /\ IsRequest(base)
  BY <1>4, BuiltAsBuilt
<1>6. PICK own : own = spec.headers
  OBVIOUS
<1>7. /\ \A h \in DOMAIN own : h \in DOMAIN base.headers /\ base.headers[h] = own[h]
      /\ \A h \in DOMAIN base.headers \ DOMAIN own :
           h = "Content-Type" /\ ~ Declares(own, "Content-Type")
      /\ DOMAIN own \subseteq Header
  BY <1>4, <1>6, BuiltAsBuilt, CallsAssumption
<1>8. base = [headers |-> base.headers, query |-> base.query, body |-> base.body]
      /\ DOMAIN base.headers \subseteq Header /\ IsCookie(base.headers)
  BY <1>5 DEF AsBuilt, IsRequest
<1>9. PICK at, wire, req : at = c.sentAt /\ wire = c.wire /\ req = c.req
  OBVIOUS
<1>10. req = Apply(scheme, base, token, at) /\ wire \in Wires(req)
  BY <1>1, <1>3, <1>4, <1>9 DEF FromTheStep
<1>11. /\ req.headers = Heads(scheme, base, token, at)
       /\ req.query = Asked(scheme, base) /\ req.body = base.body
  BY <1>8, <1>10, ApplyIs
<1>12. /\ DOMAIN req.headers = DOMAIN base.headers \cup Sets(scheme)
       /\ \A h \in DOMAIN base.headers \ Sets(scheme) : req.headers[h] = base.headers[h]
  BY <1>8, <1>10, ApplyKeeps
<1>13. DOMAIN req.headers \subseteq Header
  BY <1>8, <1>12, CanonicalNames
<1>14. ASSUME scheme = "hmac"
       PROVE  wire.headers["X-Signature"] =
                <<Pair("hmac", [query |-> wire.query, body |-> wire.body, at |-> at])>>
  <2>1. "X-Signature" \in DOMAIN req.headers /\ "X-Signature" \in Header
    BY <1>12, <1>14 DEF Sets, Header
  <2>2. Canonical["X-Signature"] = "X-Signature"
    BY <1>14, CanonicalNames DEF Sets
  <2>3. \A g \in DOMAIN req.headers : Canonical[g] = Canonical["X-Signature"] => g = "X-Signature"
    BY <1>13, <2>2, CanonicalNames
  <2>4. /\ wire.headers["X-Signature"] = req.headers["X-Signature"]
        /\ wire.query = req.query /\ wire.body = req.body
    BY <1>10, <2>1, <2>2, <2>3, SentAsItIs
  <2>5. req.headers = Signed(base, at)
    BY <1>11, <1>14 DEF Heads
  <2>6. req.headers["X-Signature"] = <<Signature(base, at)>>
    BY <2>5 DEF Signed, With
  <2>7. req.query = base.query
    BY <1>11, <1>14 DEF Asked
  <2>8. QED BY <1>11, <2>4, <2>6, <2>7 DEF Signature
<1>15. ASSUME scheme = "cookie", "cookie" \notin DOMAIN own,
              NEW sent, sent = wire.headers["Cookie"]
       PROVE  /\ \E i \in DOMAIN sent : sent[i] = Pair("session", "cred")
              /\ \A i, j \in DOMAIN sent :
                   sent[i].name = "session" /\ sent[j].name = "session" => i = j
              /\ "Cookie" \in DOMAIN own =>
                   \A p \in Range(own["Cookie"]) : p.name # "session" => p \in Range(sent)
  <2>1. "Cookie" \in DOMAIN req.headers /\ "Cookie" \in Header /\ "cookie" \notin DOMAIN req.headers
    <3>1. Sets(scheme) = {"Cookie"}
      BY <1>15 DEF Sets
    <3>2. "cookie" \notin DOMAIN base.headers
      BY <1>7, <1>15
    <3>3. QED BY <1>12, <3>1, <3>2 DEF Header
  <2>2. Canonical["Cookie"] = "Cookie"
    BY <1>15, CanonicalNames DEF Sets
  <2>3. \A g \in DOMAIN req.headers : Canonical[g] = Canonical["Cookie"] => g = "Cookie"
    BY <1>13, <2>1, <2>2, CanonicalNames
  <2>4. sent = req.headers["Cookie"]
    BY <1>10, <1>15, <2>1, <2>2, <2>3, SentAsItIs
  <2>5. req.headers = AddCookie(base.headers, "session", "cred")
    BY <1>11, <1>15 DEF Heads
  <2>6. PICK had : had = CookieOf(base.headers) /\ had \in Seq(Range(had))
    BY <1>8 DEF IsCookie, IsSequence
  <2>7. PICK rest \in Seq(Range(had)) :
          /\ rest = Others(had, "session")
          /\ \A j \in DOMAIN rest : rest[j].name # "session"
          /\ \A p \in Range(had) : p.name # "session" => p \in Range(rest)
    BY <2>6, OthersHave
  <2>8. PICK s : s = Pair("session", "cred")
    OBVIOUS
  <2>9. s.name = "session"
    BY <2>8 DEF Pair
  <2>10. sent = Append(rest, s)
    <3>1. CookieOf(req.headers) = req.headers["Cookie"]
      BY <2>1 DEF CookieOf
    <3>2. CookieOf(req.headers) = Append(Others(CookieOf(base.headers), "session"), s)
      BY <1>8, <2>5, <2>8, CookieLeft
    <3>3. QED BY <2>4, <2>6, <2>7, <3>1, <3>2
  <2>11. PICK n \in Nat : n = Len(rest) /\ DOMAIN rest = 1 .. n
    OBVIOUS
  <2>12. /\ DOMAIN sent = 1 .. n + 1 /\ sent[n + 1] = s
         /\ \A i \in 1 .. n : sent[i] = rest[i]
    <3>1. rest \in Seq(Range(had) \cup {s})
      OBVIOUS
    <3>2. QED BY <2>10, <2>11, <3>1
  <2>13. \E i \in DOMAIN sent : sent[i] = Pair("session", "cred")
    BY <2>8, <2>12
  <2>14. \A i, j \in DOMAIN sent :
           sent[i].name = "session" /\ sent[j].name = "session" => i = j
    <3>1. \A i \in DOMAIN sent : sent[i].name = "session" => i = n + 1
      BY <2>7, <2>11, <2>12
    <3>2. QED BY <3>1
  <2>15. \A p \in Range(rest) : p \in Range(sent)
    BY <2>11, <2>12 DEF Range
  <2>16. "Cookie" \in DOMAIN own => had = own["Cookie"]
    BY <1>7, <2>6 DEF CookieOf
  <2>17. QED BY <2>7, <2>13, <2>14, <2>15, <2>16
<1>16. ASSUME NEW h \in DOMAIN own, Canonical[h] \notin Sets(scheme),
              \A g \in DOMAIN own : Canonical[g] = Canonical[h] => g = h
       PROVE  wire.headers[Canonical[h]] = own[h]
  <2>1. h \in Header /\ h \in DOMAIN base.headers /\ base.headers[h] = own[h]
    BY <1>7
  <2>2. h \notin Sets(scheme)
    BY <1>16, CanonicalNames
  <2>3. h \in DOMAIN req.headers /\ req.headers[h] = own[h]
    BY <1>12, <2>1, <2>2
  <2>4. ASSUME NEW g \in DOMAIN req.headers, Canonical[g] = Canonical[h] PROVE g = h
    <3>1. CASE g \in DOMAIN own
      BY <1>16, <2>4, <3>1
    <3>2. CASE g \in DOMAIN base.headers \ DOMAIN own
      <4>1. g = "Content-Type" /\ ~ Declares(own, "Content-Type")
        BY <1>7, <3>2
      <4>2. Canonical[h] = "Content-Type"
        BY <2>4, <4>1, CanonicalNames
      <4>3. QED BY <4>1, <4>2 DEF Declares
    <3>3. CASE g \in Sets(scheme)
      BY <1>16, <2>4, <3>3, CanonicalNames
    <3>4. QED BY <1>12, <3>1, <3>2, <3>3
  <2>5. QED BY <1>10, <2>1, <2>3, <2>4, SentAsItIs
<1>17. QED BY <1>1, <1>3, <1>6, <1>9, <1>14, <1>15, <1>16 DEF Honest

LEMMA RequestsHonest == ASSUME CallsInv, RequestInv(Nat) PROVE RequestSafe
<1>1. ASSUME NEW u \in User, Sent(u)
      PROVE  /\ Honest(call[u])
             /\ call[u].wire \in Wires(Apply(call[u].spec.scheme, BuildRequest(call[u].spec),
                                             caller[u].token.dies, call[u].sentAt))
  <2>1. PICK c : c = call[u]
    OBVIOUS
  <2>2. /\ c.req = FromTheStep(c, caller[u].token.dies, c.sentAt)
        /\ c.wire \in Wires(c.req) /\ c.spec \in CallSpec
    BY <1>1, <2>1 DEF RequestInv, CallsInv, Sent
  <2>3. Honest(c)
    BY <2>2, WhatIsSent
  <2>4. QED BY <2>1, <2>2, <2>3 DEF FromTheStep
<1>2. AttemptsDoNotPileUp
  BY <1>1 DEF AttemptsDoNotPileUp, Honest
<1>3. CookiesRideAlong
  BY <1>1 DEF CookiesRideAlong, Honest
<1>4. DeclaredHeadersWin
  BY <1>1 DEF DeclaredHeadersWin, Honest
<1>5. QED BY <1>2, <1>3, <1>4 DEF RequestSafe

(* One user's part of RequestInv(Nat). *)
Kept(c, holder) ==
  /\ c.at \in {"between", "attempt", "token", "sent"}
  /\ c.at \in {"between", "attempt"} => holder.at = "out"
  /\ c.at = "token" => c.spec.scheme = "oauth2"
  /\ c.at \in {"attempt", "token"} =>
       \/ c.req = BuildRequest(c.spec)
       \/ \E token, at \in Nat : c.req = FromTheStep(c, token, at)
  /\ c.at = "sent" =>
       /\ holder.at = IF c.spec.scheme = "oauth2" THEN "served" ELSE "out"
       /\ c.sentAt \in Nat
       /\ c.req = FromTheStep(c, holder.token.dies, c.sentAt)
       /\ c.wire \in Wires(c.req)

LEMMA KeptIs == RequestInv(Nat) <=> \A u \in User : Kept(call[u], caller[u])
BY DEF RequestInv, Kept

IsCall(c) ==
  c = [at |-> c.at, spec |-> c.spec, req |-> c.req, attempt |-> c.attempt,
       wire |-> c.wire, sentAt |-> c.sentAt]

CallShapes == call = [u \in User |-> call[u]] /\ \A u \in User : IsCall(call[u])

(* What a request sent again is made of. *)
LEMMA SentAgain ==
  ASSUME NEW c, NEW token, NEW at, c.spec \in CallSpec,
         \/ c.req = BuildRequest(c.spec)
         \/ \E t, a \in Nat : c.req = FromTheStep(c, t, a)
  PROVE  Apply(c.spec.scheme, c.req, token, at) = FromTheStep(c, token, at)
<1>1. c.spec.scheme \in Schemes /\ IsRequest(BuildRequest(c.spec))
  BY SchemeKnown, BuiltAsBuilt
<1>2. CASE c.req = BuildRequest(c.spec)
  BY <1>2 DEF FromTheStep
<1>3. CASE \E t, a \in Nat : c.req = FromTheStep(c, t, a)
  <2>1. PICK t, a \in Nat : c.req = FromTheStep(c, t, a)
    BY <1>3
  <2>2. c.req = Apply(c.spec.scheme, BuildRequest(c.spec), t, a)
    BY <2>1 DEF FromTheStep
  <2>3. QED BY <1>1, <2>2, ApplyAgain DEF FromTheStep
<1>4. QED BY <1>2, <1>3

LEMMA RequestsStep ==
  ASSUME CallsInv, CallShapes, RequestInv(Nat), TokenTypeOK, [CallsNext]_vars
  PROVE  CallShapes' /\ RequestInv(Nat)'
<1>1. /\ call = [w \in User |-> call[w]]
      /\ \A w \in User : IsCall(call[w]) /\ call[w].spec \in CallSpec /\ Kept(call[w], caller[w])
  BY KeptIs DEF CallsInv, CallShapes
<1>2. /\ now \in Nat /\ caller \in [User -> Caller]
  BY DEF TokenTypeOK
<1>3. \A w \in User : caller[w].token.dies \in Nat
  BY <1>2 DEF Caller, Token
<1>4. SUFFICES /\ call' = [w \in User |-> call'[w]]
               /\ \A w \in User : IsCall(call'[w]) /\ Kept(call'[w], caller'[w])
  BY DEF CallShapes, RequestInv, Kept, IsCall
<1>5. CASE UNCHANGED vars \/ (Tick /\ UNCHANGED call)
  <2>1. call' = call /\ caller' = caller
    BY <1>5 DEF vars, tokenVars, Tick
  <2>2. QED BY <1>1, <2>1
<1>6. ASSUME NEW u \in User, TokenWork(u)
      PROVE  /\ call' = [w \in User |-> call'[w]]
             /\ \A w \in User : IsCall(call'[w]) /\ Kept(call'[w], caller'[w])
  <2>1. call' = call
    BY <1>6 DEF TokenWork
  <2>2. \A w \in User \ {u} : caller'[w] = caller[w]
    BY <1>2, <1>6 DEF TokenWork, TokenStep, ServeCached, RefuseEndpoint, SendGrant, IssueToken,
                      RejectPlacement, FailGrant
  <2>3. caller[u].at \in {"locking", "basic", "body"}
    BY <1>6 DEF TokenWork, TokenStep, ServeCached, RefuseEndpoint, SendGrant, IssueToken,
                RejectPlacement, FailGrant, Acquires, Granting
  <2>4. PICK c : c = call[u]
    OBVIOUS
  <2>5. Kept(c, caller[u])
    BY <1>1, <2>4
  <2>6. c.at = "token"
    <3>1. c.at # "sent"
      BY <2>3, <2>5 DEF Kept
    <3>2. QED BY <2>3, <2>5, <3>1 DEF Kept
  <2>7. Kept(c, caller'[u])
    BY <2>5, <2>6 DEF Kept
  <2>8. QED BY <1>1, <2>1, <2>2, <2>4, <2>7
<1>7. ASSUME NEW u \in User, Begin(u) \/ Again(u) \/ CallStep(u)
      PROVE  /\ call' = [w \in User |-> call'[w]]
             /\ \A w \in User : IsCall(call'[w]) /\ Kept(call'[w], caller'[w])
  <2>1. /\ call' = [w \in User |-> call'[w]]
        /\ \A w \in User \ {u} : call'[w] = call[w]
    BY <1>1, <1>7 DEF Begin, Again, CallStep, AskToken, Send, GiveUp, EndStep
  <2>2. \A w \in User \ {u} : caller'[w] = caller[w]
    BY <1>2, <1>7 DEF Begin, Again, CallStep, AskToken, Send, GiveUp, EndStep, ForgetToken,
                      Ask, Leave, tokenVars
  <2>3. PICK c : c = call[u]
    OBVIOUS
  <2>4. IsCall(c) /\ c.spec \in CallSpec /\ Kept(c, caller[u])
    BY <1>1, <2>3
  <2>5. PICK at, spec, req, attempt, wire, sentAt :
          c = [at |-> at, spec |-> spec, req |-> req, attempt |-> attempt, wire |-> wire,
               sentAt |-> sentAt]
    BY <2>4 DEF IsCall
  <2>6. PICK after : after = call'[u]
    OBVIOUS
  <2>7. IsCall(after) /\ Kept(after, caller'[u])
    <3>1. CASE Begin(u)
      <4>1. PICK s \in CallSpec :
              after = [at |-> "attempt", spec |-> s, req |-> BuildRequest(s),
                       attempt |-> 1, wire |-> NoWire, sentAt |-> 0]
        BY <1>1, <2>6, <3>1 DEF Begin
      <4>2. caller' = caller /\ c.at = "between"
        BY <2>3, <3>1 DEF Begin, tokenVars
      <4>3. QED BY <2>4, <4>1, <4>2 DEF Kept, IsCall
    <3>2. CASE Again(u)
      <4>1. after = [at |-> "attempt", spec |-> spec, req |-> req, attempt |-> attempt + 1,
                     wire |-> NoWire, sentAt |-> 0]
        <5>1. call' = [call EXCEPT ![u] = [call[u] EXCEPT !.at = "attempt", !.attempt = attempt + 1,
                                                          !.wire = NoWire, !.sentAt = 0]]
          <6>1. call[u].attempt = attempt
            BY <2>3, <2>5
          <6>2. QED BY <3>2, <6>1 DEF Again
        <5>2. call'[u] = [c EXCEPT !.at = "attempt", !.attempt = attempt + 1,
                                   !.wire = NoWire, !.sentAt = 0]
          BY <1>1, <2>3, <5>1
        <5>3. QED BY <2>5, <2>6, <5>2
      <4>2. c.at = "sent"
        BY <2>3, <3>2 DEF Again
      <4>3. caller'[u].at = "out"
        <5>1. CASE c.spec.scheme = "oauth2"
          <6>1. caller' = [caller EXCEPT ![u].at = "out", ![u].token = NoToken]
            BY <2>3, <3>2, <5>1 DEF Again, ForgetToken, Leave
          <6>2. caller[u] \in Caller
            BY <1>2
          <6>3. QED BY <1>2, <6>1, <6>2 DEF Caller
        <5>2. CASE c.spec.scheme # "oauth2"
          <6>1. caller' = caller
            BY <2>3, <3>2, <5>2 DEF Again, ForgetToken, tokenVars
          <6>2. QED BY <2>4, <4>2, <5>2, <6>1 DEF Kept
        <5>3. QED BY <5>1, <5>2
      <4>4. \E t, a \in Nat : req = Apply(spec.scheme, BuildRequest(spec), t, a)
        <5>1. /\ req = Apply(spec.scheme, BuildRequest(spec), caller[u].token.dies, sentAt)
              /\ sentAt \in Nat
          BY <2>4, <2>5, <4>2 DEF Kept, FromTheStep
        <5>2. QED BY <1>3, <5>1
      <4>5. \E t, a \in Nat : after.req = FromTheStep(after, t, a)
        BY <4>1, <4>4 DEF FromTheStep
      <4>6. IsCall(after) /\ after.at = "attempt"
        BY <4>1 DEF IsCall
      <4>7. QED BY <4>3, <4>5, <4>6 DEF Kept
    <3>3. CASE AskToken(u)
      <4>1. after = [at |-> "token", spec |-> spec, req |-> req, attempt |-> attempt,
                     wire |-> wire, sentAt |-> sentAt]
        BY <1>1, <2>3, <2>5, <2>6, <3>3 DEF AskToken
      <4>2. c.at = "attempt" /\ c.spec.scheme = "oauth2"
        BY <2>3, <3>3 DEF AskToken
      <4>3. \/ req = BuildRequest(spec)
            \/ \E t, a \in Nat : req = Apply(spec.scheme, BuildRequest(spec), t, a)
        BY <2>4, <2>5, <4>2 DEF Kept, FromTheStep
      <4>4. \/ after.req = BuildRequest(after.spec)
            \/ \E t, a \in Nat : after.req = FromTheStep(after, t, a)
        BY <4>1, <4>3 DEF FromTheStep
      <4>5. IsCall(after) /\ after.at = "token" /\ after.spec.scheme = "oauth2"
        BY <2>5, <4>1, <4>2 DEF IsCall
      <4>6. QED BY <4>4, <4>5 DEF Kept
    <3>4. CASE Send(u)
      <4>1. PICK sent : sent = Apply(spec.scheme, req, caller[u].token.dies, now)
        OBVIOUS
      <4>2. sent = Apply(call[u].spec.scheme, call[u].req, caller[u].token.dies, now)
        BY <2>3, <2>5, <4>1
      <4>3. PICK out \in Wires(sent) :
               call' = [call EXCEPT ![u].at = "sent", ![u].req = sent, ![u].wire = out,
                                    ![u].sentAt = now]
        BY <3>4, <4>2 DEF Send
      <4>4. /\ out \in Wires(sent)
            /\ caller' = caller
            /\ \/ at = "attempt" /\ spec.scheme # "oauth2"
               \/ at = "token" /\ caller[u].at = "served"
        BY <2>3, <2>5, <3>4 DEF Send, tokenVars
      <4>5. after = [at |-> "sent", spec |-> spec, req |-> sent, attempt |-> attempt,
                     wire |-> out, sentAt |-> now]
        <5>1. call' = [call EXCEPT ![u] = [call[u] EXCEPT !.at = "sent", !.req = sent,
                                                          !.wire = out, !.sentAt = now]]
          BY <4>3
        <5>2. call'[u] = [c EXCEPT !.at = "sent", !.req = sent, !.wire = out, !.sentAt = now]
          BY <1>1, <2>3, <5>1
        <5>3. QED BY <2>5, <2>6, <5>2
      <4>6. \/ c.req = BuildRequest(c.spec)
            \/ \E t, a \in Nat : c.req = FromTheStep(c, t, a)
        BY <2>4, <2>5, <4>4 DEF Kept
      <4>7. Apply(c.spec.scheme, c.req, caller[u].token.dies, now)
              = FromTheStep(c, caller[u].token.dies, now)
        BY <2>4, <4>6, SentAgain
      <4>8. sent = Apply(spec.scheme, BuildRequest(spec), caller[u].token.dies, now)
        BY <2>5, <4>7, <4>1 DEF FromTheStep
      <4>9. after.req = FromTheStep(after, caller'[u].token.dies, after.sentAt)
        BY <4>4, <4>5, <4>8 DEF FromTheStep
      <4>10. caller'[u].at = IF spec.scheme = "oauth2" THEN "served" ELSE "out"
        BY <2>4, <2>5, <4>4 DEF Kept
      <4>11. QED BY <1>2, <4>4, <4>5, <4>9, <4>10 DEF Kept, IsCall
    <3>5. CASE GiveUp(u) \/ EndStep(u)
      <4>1. after = Between
        BY <1>1, <2>6, <3>5 DEF GiveUp, EndStep
      <4>2. c.at = "token" \/ c.at = "sent"
        BY <2>3, <3>5 DEF GiveUp, EndStep
      <4>3. caller'[u].at = "out"
        <5>1. CASE c.spec.scheme = "oauth2"
          <6>1. caller' = [caller EXCEPT ![u].at = "out", ![u].token = NoToken]
            BY <2>3, <3>5, <5>1 DEF GiveUp, EndStep, ForgetToken, Leave
          <6>2. caller[u] \in Caller
            BY <1>2
          <6>3. QED BY <1>2, <6>1, <6>2 DEF Caller
        <5>2. CASE c.spec.scheme # "oauth2"
          <6>1. caller' = caller
            BY <2>3, <3>5, <5>2 DEF GiveUp, EndStep, ForgetToken, tokenVars
          <6>2. QED BY <2>4, <4>2, <5>2, <6>1 DEF Kept
        <5>3. QED BY <5>1, <5>2
      <4>4. QED BY <4>1, <4>3 DEF Between, Kept, IsCall
    <3>6. QED BY <1>7, <3>1, <3>2, <3>3, <3>4, <3>5 DEF CallStep
  <2>8. QED BY <1>1, <2>1, <2>2, <2>6, <2>7
<1>8. QED BY <1>5, <1>6, <1>7 DEF CallsNext

(* Whatever attempts, tokens and other users there are, what an attempt    *)
(* sends is what the step says and the credentials of that attempt: no     *)
(* header, cookie or query pair twice, no signature of an earlier time, a  *)
(* declared header as declared.                                            *)
THEOREM RequestsSafe == CallsSpec => []RequestSafe
<1>1. CallsInit => CallsInv /\ CallShapes /\ RequestInv(Nat)
  <2>1. SUFFICES ASSUME CallsInit PROVE CallsInv /\ CallShapes /\ RequestInv(Nat)
    OBVIOUS
  <2>2. call = [u \in User |-> Between] /\ Between.spec \in CallSpec
    BY <2>1, CallsAssumption DEF CallsInit, Between
  <2>3. \A u \in User : caller[u].at = "out"
    <3>1. PICK k \in Key :
            caller = [u \in User |-> [at |-> "out", key |-> k, sent |-> 0, token |-> NoToken]]
      BY <2>1 DEF CallsInit, TokenInit
    <3>2. QED BY <3>1
  <2>4. IsCall(Between) /\ Between.at = "between"
    BY DEF IsCall, Between
  <2>5. \A u \in User : Kept(call[u], caller[u])
    BY <2>2, <2>3, <2>4 DEF Kept
  <2>6. QED BY <2>2, <2>4, <2>5, KeptIs DEF CallsInv, CallShapes
<1>2. CallsInv /\ CallShapes /\ RequestInv(Nat) /\ TokenSafe /\ [CallsNext]_vars
        => CallsInv' /\ CallShapes' /\ RequestInv(Nat)'
  BY CallsStep, RequestsStep DEF TokenSafe
<1>3. CallsInv /\ RequestInv(Nat) => RequestSafe
  BY RequestsHonest
<1>4. QED BY <1>1, <1>2, <1>3, SafeUnderCalls, PTL DEF CallsSpec

-------------------------------------------------------------------------------
(* The exchange and its legs (HttpCall). *)

Leg == [closed : BOOLEAN, outcome : {"ok", "failed"}, phases : Seq(Phase)]

Calls8 == Call \cup {"GetConn", "WroteRequest", "FirstByte"}

(* What a callback does, leg by leg: nothing to the tree once the recorder *)
(* is done, and else it works on the last leg, opened for it if none is.   *)
(* marks0: the marks it finds.                                             *)
Marks0 == IF recorder.leg THEN recorder.marks ELSE {}

LEMMA MarksAndPhases ==
  ASSUME NEW c \in Calls8
  PROVE  /\ c \in DOMAIN MarkOf => MarkOf[c] \in Mark
         /\ c \in DOMAIN PhaseOf => /\ PhaseOf[c] \in {"dns", "connect", "tls", "ttfb"}
                                    /\ StartOf(PhaseOf[c]) \in Mark
         /\ c = "FirstByte" => c \in DOMAIN PhaseOf /\ PhaseOf[c] = "ttfb"
         /\ c = "WroteRequest" => c \in DOMAIN MarkOf /\ MarkOf[c] = "wrote"
BY DEF Calls8, Call, MarkOf, PhaseOf, StartOf, Mark

LEMMA CallbackDone ==
  ASSUME HttpTypeOK, NEW c \in Calls8, Callback(c), recorder.done
  PROVE  /\ legs' = legs
         /\ recorder' \in [leg : BOOLEAN, marks : SUBSET Mark, first : BOOLEAN, done : BOOLEAN]
         /\ recorder'.leg <=> recorder.leg
         /\ recorder'.done
<1>1. PICK rec \in [leg : BOOLEAN, marks : SUBSET Mark, first : BOOLEAN, done : BOOLEAN] :
        rec = recorder
  BY DEF HttpTypeOK
<1>2. EnsureLeg(legs, recorder) = [tree |-> legs, rec |-> rec]
  BY <1>1 DEF EnsureLeg
<1>3. /\ legs' = legs
      /\ recorder' = [rec EXCEPT !.marks = IF c \in DOMAIN MarkOf THEN @ \cup {MarkOf[c]} ELSE @,
                                 !.first = @ \/ c = "FirstByte"]
  BY <1>1, <1>2 DEF Callback
<1>4. (IF c \in DOMAIN MarkOf THEN rec.marks \cup {MarkOf[c]} ELSE rec.marks) \in SUBSET Mark
  BY <1>1, MarksAndPhases
<1>5. PICK f \in BOOLEAN : f = (rec.first \/ c = "FirstByte")
  OBVIOUS
<1>6. PICK m \in SUBSET Mark : m = IF c \in DOMAIN MarkOf THEN rec.marks \cup {MarkOf[c]} ELSE rec.marks
  BY <1>4
<1>7. recorder' = [rec EXCEPT !.marks = m, !.first = f]
  BY <1>3, <1>5, <1>6
<1>8. QED BY <1>1, <1>3, <1>7

(* The tree a callback starts from, and the leg it works on. *)
LEMMA EnsureLegIs ==
  ASSUME HttpTypeOK, LegsInOrder, ~ recorder.done,
         NEW n, n = Len(legs) + 1 - OpenLegs
  PROVE  \E tree \in Seq(Leg), old \in Leg :
           /\ EnsureLeg(legs, recorder).tree = tree
           /\ n \in Nat \ {0} /\ Len(tree) = n /\ n >= Len(legs)
           /\ tree[n] = old /\ ~ old.closed
           /\ \A i \in 1 .. n - 1 : i \in 1 .. Len(legs) /\ tree[i] = legs[i]
           /\ recorder.leg => n = Len(legs) /\ old = legs[n]
           /\ ~ recorder.leg => n = Len(legs) + 1 /\ old = OpenLeg
<1>1. legs \in Seq(Leg) /\ Len(legs) \in Nat /\ DOMAIN legs = 1 .. Len(legs)
  BY DEF HttpTypeOK, Leg
<1>2. CASE recorder.leg
  <2>1. Len(legs) # 0 /\ n = Len(legs)
    BY <1>1, <1>2, EmptySeq DEF LegsInOrder, OpenLegs
  <2>2. legs[n] \in Leg /\ ~ legs[n].closed
    BY <1>1, <1>2, <2>1, ElementOfSeq DEF LegsInOrder
  <2>3. EnsureLeg(legs, recorder).tree = legs
    BY <1>2 DEF EnsureLeg
  <2>4. QED BY <1>1, <1>2, <2>1, <2>2, <2>3
<1>3. CASE ~ recorder.leg
  <2>1. OpenLeg \in Leg /\ ~ OpenLeg.closed
    BY DEF OpenLeg, Leg
  <2>2. n = Len(legs) + 1
    BY <1>1, <1>3 DEF OpenLegs
  <2>3. EnsureLeg(legs, recorder).tree = Append(legs, OpenLeg)
    BY <1>3 DEF EnsureLeg
  <2>4. PICK tree : tree = Append(legs, OpenLeg)
    OBVIOUS
  <2>5. /\ tree \in Seq(Leg) /\ Len(tree) = n /\ tree[n] = OpenLeg
        /\ \A i \in 1 .. n - 1 : i \in 1 .. Len(legs) /\ tree[i] = legs[i]
    BY <1>1, <2>1, <2>2, <2>4, AppendProperties
  <2>6. PICK old \in Leg : old = OpenLeg
    BY <2>1
  <2>7. /\ EnsureLeg(legs, recorder).tree = tree
        /\ n \in Nat \ {0} /\ n >= Len(legs)
        /\ tree[n] = old /\ ~ old.closed
        /\ recorder.leg => n = Len(legs) /\ old = legs[n]
        /\ ~ recorder.leg => n = Len(legs) + 1 /\ old = OpenLeg
    BY <1>1, <1>3, <2>1, <2>2, <2>3, <2>4, <2>5, <2>6
  <2>8. QED BY <2>5, <2>7
<1>4. QED BY <1>2, <1>3

(* A tree whose last leg has one more phase. *)
OneMore(to, tree, p) ==
  /\ to \in Seq(Leg) /\ Len(to) = Len(tree)
  /\ \A i \in 1 .. Len(tree) - 1 : to[i] = tree[i]
  /\ to[Len(tree)].closed = tree[Len(tree)].closed
  /\ to[Len(tree)].outcome = tree[Len(tree)].outcome
  /\ Range(to[Len(tree)].phases) = Range(tree[Len(tree)].phases) \cup {p}

LEMMA OnePhaseMore ==
  ASSUME NEW tree, NEW p, NEW to, tree \in Seq(Leg), p \in Phase,
         tree # <<>>, to = WithPhase(tree, p.name, p.started)
  PROVE  OneMore(to, tree, p)
<1>0. PICK n : n = Len(tree)
  OBVIOUS
<1>1. n \in Nat \ {0} /\ DOMAIN tree = 1 .. n
  BY <1>0, EmptySeq
<1>2. PICK leg \in Leg : leg = tree[n]
  BY <1>1, ElementOfSeq
<1>3. leg.phases \in Seq(Phase)
  BY DEF Leg
<1>4. PICK more : more = Append(leg.phases, p)
  OBVIOUS
<1>5. more \in Seq(Phase) /\ Range(more) = Range(leg.phases) \cup {p}
  <2>1. more \in Seq(Phase) /\ Len(more) = Len(leg.phases) + 1 /\ Len(leg.phases) \in Nat
    BY <1>3, <1>4, AppendProperties
  <2>2. \A i \in 1 .. Len(leg.phases) : more[i] = leg.phases[i]
    BY <1>3, <1>4, AppendProperties
  <2>3. more[Len(more)] = p
    BY <1>3, <1>4, <2>1, AppendProperties
  <2>4. DOMAIN more = 1 .. Len(more) /\ DOMAIN leg.phases = 1 .. Len(leg.phases)
    BY <1>3, <2>1
  <2>5. \A i \in 1 .. Len(more) : i \in 1 .. Len(leg.phases) \/ i = Len(more)
    BY <2>1
  <2>6. Len(more) \in 1 .. Len(more) /\ \A i \in 1 .. Len(leg.phases) : i \in 1 .. Len(more)
    BY <2>1
  <2>7. Range(more) \subseteq Range(leg.phases) \cup {p}
    BY <2>2, <2>3, <2>4, <2>5 DEF Range
  <2>8. Range(leg.phases) \cup {p} \subseteq Range(more)
    BY <2>2, <2>3, <2>4, <2>6 DEF Range
  <2>9. QED BY <2>1, <2>7, <2>8
<1>6. PICK new \in Leg : new = [leg EXCEPT !.phases = more]
  BY <1>5 DEF Leg
<1>7. new.closed = leg.closed /\ new.outcome = leg.outcome /\ new.phases = more
  BY <1>6 DEF Leg
<1>8. [name |-> p.name, started |-> p.started] = p
  BY DEF Phase
<1>9. to = [tree EXCEPT ![n] = new]
  BY <1>0, <1>1, <1>2, <1>4, <1>6, <1>8 DEF WithPhase
<1>10. to \in Seq(Leg) /\ Len(to) = n /\ to[n] = new /\ \A i \in 1 .. n - 1 : to[i] = tree[i]
  BY <1>0, <1>1, <1>9, ExceptSeq
<1>11. QED BY <1>0, <1>2, <1>5, <1>7, <1>10 DEF OneMore

Effect(c, n) ==
  /\ legs' \in Seq(Leg) /\ n \in Nat \ {0} /\ Len(legs') = n /\ DOMAIN legs' = 1 .. n
  /\ n >= Len(legs)
  /\ \A i \in 1 .. n - 1 : i \in 1 .. Len(legs) /\ legs'[i] = legs[i]
  /\ \E old \in Leg :
       /\ ~ old.closed
       /\ recorder.leg => n = Len(legs) /\ old = legs[n]
       /\ ~ recorder.leg => n = Len(legs) + 1 /\ old = OpenLeg
       /\ legs'[n].closed = old.closed /\ legs'[n].outcome = old.outcome
       /\ IF c \in DOMAIN PhaseOf
          THEN \E p \in Phase :
                 /\ p.name = PhaseOf[c]
                 /\ p.started <=> StartOf(PhaseOf[c]) \in Marks0
                 /\ Range(legs'[n].phases) = Range(old.phases) \cup {p}
          ELSE legs'[n].phases = old.phases
  /\ recorder' \in [leg : BOOLEAN, marks : SUBSET Mark, first : BOOLEAN, done : BOOLEAN]
  /\ recorder'.leg /\ ~ recorder'.done
  /\ recorder'.marks = IF c \in DOMAIN MarkOf THEN Marks0 \cup {MarkOf[c]} ELSE Marks0

LEMMA CallbackLive ==
  ASSUME HttpTypeOK, LegsInOrder, ~ recorder.done, NEW c \in Calls8, Callback(c),
         NEW n, n = Len(legs) + 1 - OpenLegs
  PROVE  Effect(c, n)
<1>1. PICK tree \in Seq(Leg), old \in Leg :
        /\ EnsureLeg(legs, recorder).tree = tree
        /\ n \in Nat \ {0} /\ Len(tree) = n /\ n >= Len(legs)
        /\ tree[n] = old /\ ~ old.closed
        /\ \A i \in 1 .. n - 1 : i \in 1 .. Len(legs) /\ tree[i] = legs[i]
        /\ recorder.leg => n = Len(legs) /\ old = legs[n]
        /\ ~ recorder.leg => n = Len(legs) + 1 /\ old = OpenLeg
  BY EnsureLegIs
<1>2. PICK from \in [leg : BOOLEAN, marks : SUBSET Mark, first : BOOLEAN, done : BOOLEAN] :
        from = recorder
  BY DEF HttpTypeOK
<1>3. PICK rec \in [leg : BOOLEAN, marks : SUBSET Mark, first : BOOLEAN, done : BOOLEAN] :
        rec = EnsureLeg(legs, recorder).rec /\ rec.leg /\ ~ rec.done /\ rec.marks = Marks0
  <2>1. CASE recorder.leg
    BY <1>2, <2>1 DEF EnsureLeg, Marks0
  <2>2. CASE ~ recorder.leg
    <3>1. PICK r : r = [from EXCEPT !.leg = TRUE, !.marks = {}, !.first = FALSE]
      OBVIOUS
    <3>2. r \in [leg : BOOLEAN, marks : SUBSET Mark, first : BOOLEAN, done : BOOLEAN]
          /\ r.leg /\ ~ r.done /\ r.marks = {}
      BY <1>2, <3>1
    <3>3. EnsureLeg(legs, recorder).rec = r
      BY <1>2, <2>2, <3>1 DEF EnsureLeg
    <3>4. QED BY <2>2, <3>2, <3>3 DEF Marks0
  <2>3. QED BY <2>1, <2>2
<1>4. /\ legs' = IF c \in DOMAIN PhaseOf
                 THEN WithPhase(tree, PhaseOf[c], StartOf(PhaseOf[c]) \in Marks0)
                 ELSE tree
      /\ recorder' = [rec EXCEPT !.marks = IF c \in DOMAIN MarkOf THEN @ \cup {MarkOf[c]} ELSE @,
                                 !.first = @ \/ c = "FirstByte"]
  BY <1>1, <1>3 DEF Callback
<1>5. Marks0 \in SUBSET Mark
  BY <1>3
<1>6. PICK m \in SUBSET Mark : m = IF c \in DOMAIN MarkOf THEN Marks0 \cup {MarkOf[c]} ELSE Marks0
  <2>1. c \in DOMAIN MarkOf => Marks0 \cup {MarkOf[c]} \in SUBSET Mark
    BY <1>5, MarksAndPhases
  <2>2. (IF c \in DOMAIN MarkOf THEN Marks0 \cup {MarkOf[c]} ELSE Marks0) \in SUBSET Mark
    BY <1>5, <2>1
  <2>3. QED BY <2>2, Zenon
<1>7. PICK f \in BOOLEAN : f = (rec.first \/ c = "FirstByte")
  OBVIOUS
<1>8. recorder' = [rec EXCEPT !.marks = m, !.first = f]
  BY <1>3, <1>4, <1>6, <1>7
<1>9. /\ recorder' \in [leg : BOOLEAN, marks : SUBSET Mark, first : BOOLEAN, done : BOOLEAN]
      /\ recorder'.leg /\ ~ recorder'.done /\ recorder'.marks = m
  BY <1>3, <1>8
<1>10. CASE c \in DOMAIN PhaseOf
  <2>1. PICK s \in BOOLEAN : s = (StartOf(PhaseOf[c]) \in Marks0)
    <3>1. (StartOf(PhaseOf[c]) \in Marks0) \in BOOLEAN
      OBVIOUS
    <3>2. QED BY <3>1, Zenon
  <2>2. PICK p : p = [name |-> PhaseOf[c], started |-> s]
    OBVIOUS
  <2>3. p \in Phase /\ p.name = PhaseOf[c] /\ p.started = s
    BY <1>10, <2>2, MarksAndPhases DEF Phase
  <2>4. legs' = WithPhase(tree, p.name, p.started)
    BY <1>4, <1>10, <2>1, <2>3
  <2>5. tree # <<>>
    BY <1>1, EmptySeq
  <2>6. /\ legs' \in Seq(Leg) /\ Len(legs') = n
        /\ \A i \in 1 .. n - 1 : legs'[i] = tree[i]
        /\ legs'[n].closed = tree[n].closed /\ legs'[n].outcome = tree[n].outcome
        /\ Range(legs'[n].phases) = Range(tree[n].phases) \cup {p}
    <3>1. tree \in Seq(Leg) /\ p \in Phase /\ n = Len(tree)
      BY <1>1, <2>3
    <3>2. PICK to : to = legs'
      OBVIOUS
    <3>3. OneMore(to, tree, p)
      BY <2>4, <2>5, <3>1, <3>2, OnePhaseMore
    <3>4. QED BY <3>1, <3>2, <3>3 DEF OneMore
  <2>7. /\ DOMAIN legs' = 1 .. n
        /\ \A i \in 1 .. n - 1 : i \in 1 .. Len(legs) /\ legs'[i] = legs[i]
    BY <1>1, <2>6
  <2>8. /\ p.name = PhaseOf[c]
        /\ p.started <=> StartOf(PhaseOf[c]) \in Marks0
        /\ Range(legs'[n].phases) = Range(old.phases) \cup {p}
    BY <1>1, <2>1, <2>3, <2>6
  <2>9. legs'[n].closed = old.closed /\ legs'[n].outcome = old.outcome
    BY <1>1, <2>6
  <2>10. QED BY <1>1, <1>6, <1>9, <1>10, <2>3, <2>6, <2>7, <2>8, <2>9 DEF Effect
<1>11. CASE c \notin DOMAIN PhaseOf
  BY <1>1, <1>4, <1>6, <1>9, <1>11 DEF Effect
<1>12. QED BY <1>10, <1>11

(* What a callback keeps, and what it adds. *)
LEMMA CallbackKeeps ==
  ASSUME HttpTypeOK, LegsInOrder, ~ recorder.done, NEW c \in Calls8, Callback(c)
  PROVE  /\ legs' \in Seq(Leg) /\ DOMAIN legs' = 1 .. Len(legs')
         /\ Len(legs') = Len(legs) + 1 - OpenLegs
         /\ Len(legs') \in Nat \ {0} /\ Len(legs') >= Len(legs) /\ Len(legs) \in Nat
         /\ recorder' \in [leg : BOOLEAN, marks : SUBSET Mark, first : BOOLEAN, done : BOOLEAN]
         /\ recorder'.leg /\ ~ recorder'.done
         /\ \A i \in 1 .. Len(legs') : legs'[i].closed <=> i < Len(legs')
         /\ \A i \in 1 .. Len(legs') : legs'[i].outcome = "failed" =>
              i \in 1 .. Len(legs) /\ legs[i].outcome = "failed"
         /\ \A i \in 1 .. Len(legs') : legs'[i].closed => i \in 1 .. Len(legs) /\ legs'[i] = legs[i]
         /\ recorder.leg => Len(legs') = Len(legs) /\ recorder.marks \subseteq recorder'.marks
         /\ recorder.leg /\ Answered(legs[Len(legs)]) => Answered(legs'[Len(legs')])
         /\ c = "FirstByte" => Answered(legs'[Len(legs')])
         /\ c \in DOMAIN MarkOf => MarkOf[c] \in recorder'.marks
         /\ (c \in DOMAIN PhaseOf => recorder.leg /\ StartOf(PhaseOf[c]) \in recorder.marks)
            /\ (\A i \in DOMAIN legs : \A p \in Range(legs[i].phases) : p.started)
            => \A i \in 1 .. Len(legs') : \A p \in Range(legs'[i].phases) : p.started
<1>1. PICK n : n = Len(legs) + 1 - OpenLegs
  OBVIOUS
<1>2. Effect(c, n)
  BY <1>1, CallbackLive
<1>3. PICK old \in Leg :
        /\ ~ old.closed
        /\ recorder.leg => n = Len(legs) /\ old = legs[n]
        /\ ~ recorder.leg => n = Len(legs) + 1 /\ old = OpenLeg
        /\ legs'[n].closed = old.closed /\ legs'[n].outcome = old.outcome
        /\ IF c \in DOMAIN PhaseOf
           THEN \E p \in Phase :
                  /\ p.name = PhaseOf[c]
                  /\ p.started <=> StartOf(PhaseOf[c]) \in Marks0
                  /\ Range(legs'[n].phases) = Range(old.phases) \cup {p}
           ELSE legs'[n].phases = old.phases
  BY <1>2 DEF Effect
<1>0. /\ legs' \in Seq(Leg) /\ n \in Nat \ {0} /\ Len(legs') = n /\ DOMAIN legs' = 1 .. n
      /\ n >= Len(legs)
      /\ \A i \in 1 .. n - 1 : i \in 1 .. Len(legs) /\ legs'[i] = legs[i]
      /\ recorder' \in [leg : BOOLEAN, marks : SUBSET Mark, first : BOOLEAN, done : BOOLEAN]
      /\ recorder'.leg /\ ~ recorder'.done
      /\ recorder'.marks = IF c \in DOMAIN MarkOf THEN Marks0 \cup {MarkOf[c]} ELSE Marks0
  BY <1>2 DEF Effect
<1>4. legs \in Seq(Leg) /\ Len(legs) \in Nat /\ DOMAIN legs = 1 .. Len(legs)
  BY DEF HttpTypeOK, Leg
<1>5. \A i \in 1 .. n : i = n \/ i \in 1 .. n - 1
  BY <1>0
<1>6. \A i \in 1 .. n - 1 : i < n /\ legs[i].closed
  <2>1. TAKE i \in 1 .. n - 1
  <2>2. i < n /\ i \in DOMAIN legs
    <3>1. n \in Nat
      BY <1>0
    <3>2. i < n
      BY <3>1
    <3>3. QED BY <1>0, <1>4, <3>2
  <2>3. i < Len(legs) \/ ~ recorder.leg
    BY <1>3, <2>2
  <2>4. QED BY <2>2, <2>3 DEF LegsInOrder
<1>7. \A i \in 1 .. n : legs'[i].closed <=> i < n
  BY <1>0, <1>3, <1>5, <1>6
<1>8. \A i \in 1 .. n : legs'[i].outcome = "failed" => i \in 1 .. Len(legs) /\ legs[i].outcome = "failed"
  <2>1. TAKE i \in 1 .. n
  <2>2. CASE i = n /\ recorder.leg
    <3>1. n \in 1 .. Len(legs)
      BY <1>0, <1>3, <1>4, <2>2
    <3>2. QED BY <1>3, <2>2, <3>1
  <2>3. CASE i = n /\ ~ recorder.leg
    <3>1. legs'[n].outcome = "ok"
      BY <1>3, <2>3 DEF OpenLeg
    <3>2. QED BY <2>3, <3>1
  <2>4. CASE i \in 1 .. n - 1
    BY <1>0, <2>4
  <2>5. QED BY <1>5, <2>2, <2>3, <2>4
<1>9. \A i \in 1 .. n : legs'[i].closed => i \in 1 .. Len(legs) /\ legs'[i] = legs[i]
  BY <1>0, <1>3, <1>5
<1>10. recorder.leg => n = Len(legs) /\ recorder.marks \subseteq recorder'.marks
  BY <1>0, <1>3 DEF Marks0
<1>11. Range(old.phases) \subseteq Range(legs'[n].phases)
  BY <1>3
<1>12. recorder.leg /\ Answered(legs[Len(legs)]) => Answered(legs'[n])
  BY <1>3, <1>11 DEF Answered
<1>13. c = "FirstByte" => Answered(legs'[n])
  BY <1>3, MarksAndPhases DEF Answered
<1>14. c \in DOMAIN MarkOf => MarkOf[c] \in recorder'.marks
  BY <1>0
<1>15. ASSUME c \in DOMAIN PhaseOf => recorder.leg /\ StartOf(PhaseOf[c]) \in recorder.marks,
              \A i \in DOMAIN legs : \A p \in Range(legs[i].phases) : p.started,
              NEW i \in 1 .. n, NEW p \in Range(legs'[i].phases)
       PROVE  p.started
  <2>1. CASE i \in 1 .. n - 1
    BY <1>0, <1>4, <1>15, <2>1
  <2>2. CASE i = n /\ p \in Range(old.phases)
    <3>1. CASE recorder.leg
      <4>1. n \in 1 .. Len(legs)
        BY <1>0, <1>3, <3>1
      <4>2. QED BY <1>3, <1>4, <1>15, <2>2, <3>1, <4>1
    <3>2. CASE ~ recorder.leg
      <4>1. DOMAIN old.phases = {}
        BY <1>3, <3>2 DEF OpenLeg
      <4>2. QED BY <2>2, <4>1 DEF Range
    <3>3. QED BY <3>1, <3>2
  <2>3. CASE i = n /\ p \notin Range(old.phases)
    BY <1>3, <1>15, <2>3 DEF Marks0
  <2>4. QED BY <1>5, <2>1, <2>2, <2>3
<1>16. QED BY <1>1, <1>0, <1>4, <1>7, <1>8, <1>9, <1>10, <1>12, <1>13, <1>14, <1>15

(* What Uncrossed says of the legs, and what it says of the dials.         *)
UncrossedLegs ==
  ~ crossed =>
    /\ http \in {"failing", "finishing", "ok", "failed"} => ~ recorder.leg
    /\ http \in {"broken", "failing", "failed"} => Len(legs) \in hops .. hops + 1
    /\ \A i \in DOMAIN legs :
         /\ legs[i].outcome = "failed" => i = Len(legs)
         /\ \A p \in Range(legs[i].phases) : p.started

UncrossedDials ==
  ~ crossed => /\ Begun(dial)
               /\ \A d \in stray : recorder.leg /\ d.leg = Len(legs) => Begun(d.calls)

LEMMA UncrossedIs == Uncrossed <=> UncrossedLegs /\ UncrossedDials
BY DEF Uncrossed, UncrossedLegs, UncrossedDials

(* A callback, in whatever it moves the exchange from and to. *)
LEMMA CallbackInv ==
  ASSUME HttpInv, ~ recorder.done, NEW c \in Calls8, Callback(c), hops' = hops,
         http' \notin {"ok", "failed"},
         http' = http \/ ((http = "getconn" \/ InHop) /\ InHop'),
         http' \in {"body", "redirect", "closing"} => http' = http \/ c = "FirstByte",
         http' = "answer" => http' = http \/ c = "WroteRequest",
         crossed => crossed',
         ~ crossed' => /\ recorder.leg \/ http = "getconn"
                       /\ c \in DOMAIN PhaseOf =>
                            recorder.leg /\ StartOf(PhaseOf[c]) \in recorder.marks
  PROVE  LegsInOrder' /\ LegsAnswered' /\ UncrossedLegs'
<1>1. /\ legs' \in Seq(Leg) /\ DOMAIN legs' = 1 .. Len(legs')
      /\ Len(legs') = Len(legs) + 1 - OpenLegs
      /\ Len(legs') \in Nat \ {0} /\ Len(legs') >= Len(legs) /\ Len(legs) \in Nat
      /\ recorder'.leg /\ ~ recorder'.done
      /\ \A i \in 1 .. Len(legs') : legs'[i].closed <=> i < Len(legs')
      /\ \A i \in 1 .. Len(legs') : legs'[i].outcome = "failed" =>
           i \in 1 .. Len(legs) /\ legs[i].outcome = "failed"
      /\ \A i \in 1 .. Len(legs') : legs'[i].closed => i \in 1 .. Len(legs) /\ legs'[i] = legs[i]
      /\ recorder.leg => Len(legs') = Len(legs) /\ recorder.marks \subseteq recorder'.marks
      /\ recorder.leg /\ Answered(legs[Len(legs)]) => Answered(legs'[Len(legs')])
      /\ c = "FirstByte" => Answered(legs'[Len(legs')])
      /\ c \in DOMAIN MarkOf => MarkOf[c] \in recorder'.marks
      /\ (c \in DOMAIN PhaseOf => recorder.leg /\ StartOf(PhaseOf[c]) \in recorder.marks)
         /\ (\A i \in DOMAIN legs : \A p \in Range(legs[i].phases) : p.started)
         => \A i \in 1 .. Len(legs') : \A p \in Range(legs'[i].phases) : p.started
  BY CallbackKeeps DEF HttpInv
<1>2. LegsInOrder /\ LegsAnswered /\ UncrossedLegs /\ hops \in Nat
  BY UncrossedIs DEF HttpInv, HttpTypeOK
<1>3. DOMAIN legs = 1 .. Len(legs)
  BY DEF HttpInv, HttpTypeOK
<1>4. LegsInOrder'
  <2>1. legs' # <<>>
    BY <1>1, EmptySeq
  <2>2. OpenLegs' = 1
    BY <1>1 DEF OpenLegs
  <2>3. ASSUME http' \in {"idle", "getconn"} \/ InHop'
        PROVE  Len(legs') = hops' + OpenLegs'
    <3>1. http \in {"idle", "getconn"} \/ InHop
      BY <2>3 DEF InHop
    <3>2. Len(legs) = hops + OpenLegs
      BY <1>2, <3>1 DEF LegsInOrder
    <3>3. QED BY <1>1, <1>2, <2>2, <3>2 DEF OpenLegs
  <2>4. ASSUME http' \in {"finishing", "ok"}
        PROVE  Len(legs') = hops' + 1 + OpenLegs'
    <3>1. http = "finishing"
      BY <2>4 DEF InHop
    <3>2. Len(legs) = hops + 1 + OpenLegs
      BY <1>2, <3>1 DEF LegsInOrder
    <3>3. QED BY <1>1, <1>2, <2>2, <3>2 DEF OpenLegs
  <2>5. \A i \in DOMAIN legs' : legs'[i].closed <=> i < Len(legs') \/ ~ recorder'.leg
    BY <1>1
  <2>6. recorder'.done <=> HttpReturned'
    BY <1>1 DEF HttpReturned
  <2>7. QED BY <1>1, <2>1, <2>3, <2>4, <2>5, <2>6 DEF LegsInOrder
<1>5. LegsAnswered'
  <2>1. ASSUME NEW i \in DOMAIN legs', legs'[i].outcome = "failed"
        PROVE  http' \in {"failing", "failed"}
    <3>1. i \in DOMAIN legs /\ legs[i].outcome = "failed"
      BY <1>1, <1>3, <2>1
    <3>2. http \in {"failing", "failed"}
      BY <1>2, <3>1 DEF LegsAnswered
    <3>3. QED BY <3>2 DEF InHop
  <2>2. ASSUME NEW i \in DOMAIN legs', legs'[i].closed, legs'[i].outcome = "ok"
        PROVE  Answered(legs'[i])
    BY <1>1, <1>2, <1>3, <2>2 DEF LegsAnswered
  <2>3. ASSUME http' \in {"body", "redirect", "closing"}
        PROVE  Answered(legs'[Len(legs')])
    <3>1. CASE http' = http
      <4>1. recorder.leg /\ Answered(legs[Len(legs)])
        BY <1>2, <2>3, <3>1 DEF LegsInOrder, LegsAnswered, InHop
      <4>2. QED BY <1>1, <4>1
    <3>2. QED BY <1>1, <2>3, <3>1
  <2>4. ASSUME http' = "answer"
        PROVE  "wrote" \in recorder'.marks
    <3>1. CASE http' = http
      <4>1. recorder.leg /\ "wrote" \in recorder.marks
        BY <1>2, <2>4, <3>1 DEF LegsInOrder, LegsAnswered, InHop
      <4>2. QED BY <1>1, <4>1
    <3>2. QED BY <1>1, <2>4, <3>1, MarksAndPhases
  <2>5. QED BY <2>1, <2>2, <2>3, <2>4 DEF LegsAnswered
<1>6. UncrossedLegs'
  <2>1. SUFFICES ASSUME ~ crossed'
                 PROVE  /\ http' \in {"failing", "finishing", "ok", "failed"} => ~ recorder'.leg
                        /\ http' \in {"broken", "failing", "failed"} =>
                             Len(legs') \in hops' .. hops' + 1
                        /\ \A i \in DOMAIN legs' :
                             /\ legs'[i].outcome = "failed" => i = Len(legs')
                             /\ \A p \in Range(legs'[i].phases) : p.started
    BY DEF UncrossedLegs
  <2>2. ~ crossed
    BY <2>1
  <2>3. ASSUME http' \in {"failing", "finishing", "broken"}
        PROVE  http' = "broken" /\ Len(legs') \in hops' .. hops' + 1
    <3>1. http' = http /\ recorder.leg
      BY <2>1, <2>3 DEF InHop
    <3>2. QED BY <1>1, <1>2, <2>2, <2>3, <3>1 DEF UncrossedLegs
  <2>4. ASSUME NEW i \in DOMAIN legs', legs'[i].outcome = "failed"
        PROVE  i = Len(legs')
    <3>1. i \in DOMAIN legs /\ legs[i].outcome = "failed"
      BY <1>1, <1>3, <2>4
    <3>2. i = Len(legs) /\ http = "failing"
      BY <1>2, <2>2, <3>1 DEF UncrossedLegs, LegsAnswered, LegsInOrder, HttpReturned
    <3>3. FALSE
      BY <1>2, <2>1, <2>2, <3>2 DEF UncrossedLegs
    <3>4. QED BY <3>3
  <2>5. \A i \in DOMAIN legs' : \A p \in Range(legs'[i].phases) : p.started
    BY <1>1, <1>2, <2>1, <2>2 DEF UncrossedLegs
  <2>6. QED BY <2>3, <2>4, <2>5
<1>7. QED BY <1>4, <1>5, <1>6

(* What a callback leaves to the dials: a mark that was set in the open    *)
(* leg stays, and no dial is of a leg that was just opened.                *)
LEMMA CallbackDials ==
  ASSUME HttpInv, ~ recorder.done, NEW c \in Calls8, Callback(c)
  PROVE  /\ \A calls : recorder.leg /\ Begun(calls) => Begun(calls)'
         /\ ~ crossed => \A d \in stray : recorder'.leg /\ d.leg = Len(legs') => Begun(d.calls)'
         /\ \A d \in stray : d.leg <= Len(legs')
         /\ legs' \in Seq(Leg)
         /\ recorder' \in [leg : BOOLEAN, marks : SUBSET Mark, first : BOOLEAN, done : BOOLEAN]
         /\ c \in DOMAIN MarkOf => MarkOf[c] \in recorder'.marks
<1>1. /\ legs' \in Seq(Leg)
      /\ recorder' \in [leg : BOOLEAN, marks : SUBSET Mark, first : BOOLEAN, done : BOOLEAN]
      /\ Len(legs') = Len(legs) + 1 - OpenLegs
      /\ Len(legs') >= Len(legs) /\ Len(legs) \in Nat
      /\ recorder.leg => Len(legs') = Len(legs) /\ recorder.marks \subseteq recorder'.marks
      /\ c \in DOMAIN MarkOf => MarkOf[c] \in recorder'.marks
  BY CallbackKeeps DEF HttpInv
<1>2. \A calls : recorder.leg /\ Begun(calls) => Begun(calls)'
  BY <1>1 DEF Begun
<1>3. \A d \in stray : d.leg \in Nat /\ d.leg <= Len(legs)
  BY DEF HttpInv, HttpTypeOK, DialsInOrder
<1>4. Len(legs') \in Nat
  BY <1>1 DEF OpenLegs
<1>5. ASSUME ~ crossed, NEW d \in stray, d.leg = Len(legs')
      PROVE  Begun(d.calls)'
  <2>1. recorder.leg /\ d.leg = Len(legs)
    BY <1>1, <1>3, <1>5 DEF OpenLegs
  <2>2. Begun(d.calls)
    BY <1>5, <2>1, UncrossedIs DEF HttpInv, UncrossedDials
  <2>3. QED BY <1>2, <2>1, <2>2
<1>6. \A d \in stray : d.leg <= Len(legs')
  BY <1>1, <1>3, <1>4
<1>7. QED BY <1>1, <1>2, <1>5, <1>6

(* One call of a dial made. *)
LEMMA DialStep ==
  ASSUME NEW calls, calls \in Seq(Call), calls # <<>>, Paired(calls)
  PROVE  /\ Head(calls) \in Call /\ Head(calls) \in Calls8 /\ Len(calls) \in Nat \ {0}
         /\ Tail(calls) \in Seq(Call) /\ Paired(Tail(calls))
         /\ Len(calls) # 1 => Tail(calls) # <<>>
         /\ Tail(calls) # <<>> /\ Head(Tail(calls)) \in DOMAIN PhaseOf =>
              /\ Head(calls) \in DOMAIN MarkOf
              /\ MarkOf[Head(calls)] = StartOf(PhaseOf[Head(Tail(calls))])
<1>1. /\ Len(calls) \in Nat \ {0} /\ Head(calls) = calls[1] /\ calls[1] \in Call
  BY EmptySeq, HeadTailProperties, ElementOfSeq
<1>2. PICK rest : rest = Tail(calls)
  OBVIOUS
<1>3. /\ rest \in Seq(Call) /\ Len(rest) = Len(calls) - 1
      /\ \A i \in 1 .. Len(rest) : rest[i] = calls[i + 1]
  BY <1>2, HeadTailProperties
<1>4. Len(rest) \in Nat /\ (rest # <<>> <=> Len(rest) # 0)
  BY <1>3, EmptySeq
<1>5. rest # <<>> => Head(rest) = rest[1] /\ rest[1] = calls[2] /\ 1 \in 1 .. Len(calls) - 1
  <2>1. SUFFICES ASSUME rest # <<>>
                 PROVE  Head(rest) = rest[1] /\ rest[1] = calls[2] /\ 1 \in 1 .. Len(calls) - 1
    OBVIOUS
  <2>2. Len(rest) \in Nat \ {0}
    BY <1>4, <2>1
  <2>3. 1 \in 1 .. Len(rest)
    BY <2>2
  <2>4. rest[1] = calls[1 + 1] /\ Head(rest) = rest[1]
    BY <1>3, <2>1, <2>3, HeadTailProperties
  <2>5. QED BY <1>1, <1>3, <2>3, <2>4
<1>6. Paired(rest)
  <2>1. SUFFICES ASSUME NEW i \in 1 .. Len(rest) - 1, rest[i + 1] \in DOMAIN PhaseOf
                 PROVE  rest[i] \in DOMAIN MarkOf /\ MarkOf[rest[i]] = StartOf(PhaseOf[rest[i + 1]])
    BY DEF Paired
  <2>2. /\ i \in 1 .. Len(rest) /\ i + 1 \in 1 .. Len(rest) /\ i + 1 \in 1 .. Len(calls) - 1
    BY <1>1, <1>3, <1>4, <2>1
  <2>3. rest[i] = calls[i + 1] /\ rest[i + 1] = calls[(i + 1) + 1]
    BY <1>3, <2>2
  <2>4. QED BY <2>1, <2>2, <2>3 DEF Paired
<1>7. rest # <<>> /\ Head(rest) \in DOMAIN PhaseOf =>
        /\ calls[1] \in DOMAIN MarkOf
        /\ MarkOf[calls[1]] = StartOf(PhaseOf[Head(rest)])
  <2>1. SUFFICES ASSUME rest # <<>>, Head(rest) \in DOMAIN PhaseOf
                 PROVE  /\ calls[1] \in DOMAIN MarkOf
                        /\ MarkOf[calls[1]] = StartOf(PhaseOf[Head(rest)])
    OBVIOUS
  <2>2. 1 \in 1 .. Len(calls) - 1 /\ Head(rest) = calls[1 + 1]
    BY <1>5, <2>1
  <2>3. QED BY <2>1, <2>2 DEF Paired
<1>8. Len(calls) # 1 => rest # <<>>
  BY <1>1, <1>3, <1>4
<1>9. QED BY <1>1, <1>2, <1>3, <1>6, <1>7, <1>8 DEF Calls8

LEMMA Together ==
  ASSUME HttpTypeOK', LegsInOrder', LegsAnswered', DialsInOrder', UncrossedLegs', UncrossedDials'
  PROVE  HttpInv'
<1>1. Uncrossed'
  BY DEF Uncrossed, UncrossedLegs, UncrossedDials
<1>2. QED BY <1>1 DEF HttpInv

LEMMA NoCalls == ASSUME NEW calls, calls = <<>> PROVE calls \in Seq(Call) /\ Paired(calls) /\ Begun(calls)
<1>1. calls \in Seq(Call) /\ Len(calls) = 0
  BY EmptySeq
<1>2. Paired(calls)
  BY <1>1 DEF Paired
<1>3. QED BY <1>1, <1>2 DEF Begun

LEMMA AllCalls == DialCalls \in Seq(Call) /\ Paired(DialCalls) /\ Begun(DialCalls)
<1>1. DialCalls \in Seq(Call) /\ Len(DialCalls) = 6
  BY DEF DialCalls, Call
<1>2. Paired(DialCalls)
  <2>1. \A i \in 1 .. 5 : i = 1 \/ i = 2 \/ i = 3 \/ i = 4 \/ i = 5
    OBVIOUS
  <2>2. SUFFICES ASSUME NEW i \in 1 .. 5, DialCalls[i + 1] \in DOMAIN PhaseOf
                 PROVE  /\ DialCalls[i] \in DOMAIN MarkOf
                        /\ MarkOf[DialCalls[i]] = StartOf(PhaseOf[DialCalls[i + 1]])
    BY <1>1 DEF Paired
  <2>3. CASE i = 1
    BY <2>3 DEF DialCalls, PhaseOf, MarkOf, StartOf
  <2>4. CASE i = 2
    BY <2>2, <2>4 DEF DialCalls, PhaseOf
  <2>5. CASE i = 3
    BY <2>5 DEF DialCalls, PhaseOf, MarkOf, StartOf
  <2>6. CASE i = 4
    BY <2>2, <2>6 DEF DialCalls, PhaseOf
  <2>7. CASE i = 5
    BY <2>7 DEF DialCalls, PhaseOf, MarkOf, StartOf
  <2>8. QED BY <2>1, <2>3, <2>4, <2>5, <2>6, <2>7
<1>3. Begun(DialCalls)
  BY DEF Begun, DialCalls, PhaseOf
<1>4. QED BY <1>1, <1>2, <1>3

LEMMA HttpStart == ASSUME HttpIdle PROVE HttpInv
<1>1. legs \in Seq(Leg) /\ DOMAIN legs = {} /\ Len(legs) = 0
  BY EmptySeq DEF HttpIdle
<1>2. HttpTypeOK
  <2>1. dial \in Seq(Call)
    BY NoCalls DEF HttpIdle
  <2>2. recorder \in [leg : BOOLEAN, marks : SUBSET Mark, first : BOOLEAN, done : BOOLEAN]
    BY DEF HttpIdle, Fresh0
  <2>3. QED BY <1>1, <2>1, <2>2 DEF HttpTypeOK, HttpIdle, Leg
<1>3. LegsInOrder
  BY <1>1 DEF LegsInOrder, HttpIdle, Fresh0, InHop, OpenLegs, HttpReturned
<1>4. LegsAnswered
  BY <1>1 DEF LegsAnswered, HttpIdle
<1>5. DialsInOrder
  BY NoCalls DEF DialsInOrder, HttpIdle
<1>6. Uncrossed
  BY <1>1, NoCalls DEF Uncrossed, HttpIdle
<1>7. QED BY <1>2, <1>3, <1>4, <1>5, <1>6 DEF HttpInv

LEMMA HttpBeginInv == ASSUME HttpInv, HttpBegin PROVE HttpInv'
<1>1. legs' \in Seq(Leg) /\ DOMAIN legs' = {} /\ Len(legs') = 0
  BY EmptySeq DEF HttpBegin
<1>2. /\ dial' \in Seq(Call) /\ Paired(dial')
      /\ recorder' \in [leg : BOOLEAN, marks : SUBSET Mark, first : BOOLEAN, done : BOOLEAN]
      /\ ~ recorder'.leg /\ ~ recorder'.done
  BY NoCalls DEF HttpBegin, Fresh0
<1>3. HttpTypeOK'
  BY <1>1, <1>2 DEF HttpTypeOK, HttpBegin, Leg
<1>4. LegsInOrder'
  BY <1>1, <1>2 DEF LegsInOrder, HttpBegin, InHop, OpenLegs, HttpReturned
<1>5. LegsAnswered'
  BY <1>1 DEF LegsAnswered, HttpBegin
<1>6. DialsInOrder'
  BY <1>2 DEF DialsInOrder, HttpBegin
<1>7. UncrossedLegs' /\ UncrossedDials'
  <2>1. Begun(dial)'
    BY DEF HttpBegin, Begun
  <2>2. QED BY <1>1, <2>1 DEF UncrossedLegs, UncrossedDials, HttpBegin
<1>8. QED BY <1>3, <1>4, <1>5, <1>6, <1>7, Together

(* GetConn opens the leg of the hop, if a dial left behind did not. *)
LEMMA GetConnInv == ASSUME HttpInv, GetConn PROVE HttpInv'
<1>1. /\ http = "getconn" /\ Callback("GetConn") /\ http' \in {"write", "dialing"}
      /\ http' = "write" => dial' = <<>>
      /\ dial' \in {<<>>, DialCalls}
      /\ hops' = hops /\ stray' = stray /\ crossed' = crossed
  BY DEF GetConn
<1>2. PICK c \in Calls8 : c = "GetConn"
  BY DEF Calls8
<1>3. Callback(c) /\ c \notin DOMAIN PhaseOf
  BY <1>1, <1>2 DEF PhaseOf
<1>4. ~ recorder.done
  BY <1>1 DEF HttpInv, LegsInOrder, HttpReturned
<1>5. LegsInOrder' /\ LegsAnswered' /\ UncrossedLegs'
  <2>1. InHop'
    BY <1>1 DEF InHop
  <2>2. QED BY <1>1, <1>3, <1>4, <2>1, CallbackInv
<1>6. /\ ~ crossed => \A d \in stray : recorder'.leg /\ d.leg = Len(legs') => Begun(d.calls)'
      /\ \A d \in stray : d.leg <= Len(legs')
      /\ legs' \in Seq(Leg)
      /\ recorder' \in [leg : BOOLEAN, marks : SUBSET Mark, first : BOOLEAN, done : BOOLEAN]
  BY <1>3, <1>4, CallbackDials
<1>7. dial' \in Seq(Call) /\ Paired(dial)' /\ Begun(dial)'
  <2>1. CASE dial' = <<>>
    <3>1. PICK x : x = dial'
      OBVIOUS
    <3>2. x \in Seq(Call) /\ Paired(x)
      BY <2>1, <3>1, NoCalls
    <3>3. QED BY <2>1, <3>1, <3>2 DEF Begun, Paired
  <2>2. CASE dial' = DialCalls
    <3>1. Head(DialCalls) \notin DOMAIN PhaseOf
      BY DEF DialCalls, PhaseOf
    <3>2. QED BY <2>2, <3>1, AllCalls DEF Begun, Paired
  <2>3. QED BY <1>1, <2>1, <2>2
<1>8. HttpTypeOK'
  BY <1>1, <1>6, <1>7 DEF HttpInv, HttpTypeOK, Leg
<1>9. DialsInOrder'
  BY <1>1, <1>6, <1>7 DEF HttpInv, DialsInOrder
<1>10. UncrossedDials'
  BY <1>1, <1>6, <1>7 DEF UncrossedDials
<1>11. QED BY <1>5, <1>8, <1>9, <1>10, Together

(* The hop's own dial reports to the leg of the hop. *)
LEMMA DialCallbackInv == ASSUME HttpInv, DialCallback PROVE HttpInv'
<1>1. /\ http = "dialing" /\ dial # <<>> /\ http' = http /\ dial' = Tail(dial)
      /\ hops' = hops /\ stray' = stray /\ crossed' = crossed
  BY DEF DialCallback
<1>2. PICK c : c = Head(dial)
  OBVIOUS
<1>3. /\ c \in Calls8 /\ Callback(c)
      /\ dial' \in Seq(Call) /\ Paired(Tail(dial))
      /\ Tail(dial) # <<>> /\ Head(Tail(dial)) \in DOMAIN PhaseOf =>
           /\ c \in DOMAIN MarkOf
           /\ MarkOf[c] = StartOf(PhaseOf[Head(Tail(dial))])
  <2>1. PICK x : x = dial
    OBVIOUS
  <2>2. x \in Seq(Call) /\ x # <<>> /\ Paired(x)
    BY <1>1, <2>1 DEF HttpInv, HttpTypeOK, DialsInOrder
  <2>3. /\ Head(x) \in Calls8 /\ Tail(x) \in Seq(Call) /\ Paired(Tail(x))
        /\ Tail(x) # <<>> /\ Head(Tail(x)) \in DOMAIN PhaseOf =>
             /\ Head(x) \in DOMAIN MarkOf
             /\ MarkOf[Head(x)] = StartOf(PhaseOf[Head(Tail(x))])
    BY <2>2, DialStep
  <2>4. Callback(c)
    BY <1>2 DEF DialCallback
  <2>5. QED BY <1>1, <1>2, <2>1, <2>3, <2>4
<1>4. ~ recorder.done /\ recorder.leg
  BY <1>1 DEF HttpInv, LegsInOrder, HttpReturned, InHop
<1>5. ~ crossed => (c \in DOMAIN PhaseOf => StartOf(PhaseOf[c]) \in recorder.marks)
  BY <1>1, <1>2, UncrossedIs DEF HttpInv, UncrossedDials, Begun
<1>6. LegsInOrder' /\ LegsAnswered' /\ UncrossedLegs'
  <2>1. http' \notin {"body", "redirect", "closing", "answer", "ok", "failed"}
    BY <1>1
  <2>2. QED BY <1>1, <1>3, <1>4, <1>5, <2>1, CallbackInv
<1>7. /\ ~ crossed => \A d \in stray : recorder'.leg /\ d.leg = Len(legs') => Begun(d.calls)'
      /\ \A d \in stray : d.leg <= Len(legs')
      /\ legs' \in Seq(Leg)
      /\ recorder' \in [leg : BOOLEAN, marks : SUBSET Mark, first : BOOLEAN, done : BOOLEAN]
      /\ c \in DOMAIN MarkOf => MarkOf[c] \in recorder'.marks
  BY <1>3, <1>4, CallbackDials
<1>8. Begun(dial)'
  BY <1>1, <1>3, <1>7 DEF Begun
<1>9. Paired(dial)'
  BY <1>1, <1>3 DEF Paired
<1>10. HttpTypeOK'
  BY <1>1, <1>3, <1>7 DEF HttpInv, HttpTypeOK, Leg
<1>11. DialsInOrder'
  BY <1>1, <1>7, <1>9 DEF HttpInv, DialsInOrder
<1>12. UncrossedDials'
  BY <1>1, <1>7, <1>8 DEF UncrossedDials
<1>13. QED BY <1>6, <1>10, <1>11, <1>12, Together

(* The request is written, its answer begins: callbacks of the hop. *)
LEMMA HopCallbackInv ==
  ASSUME HttpInv, NEW c \in {"WroteRequest", "FirstByte"}, Callback(c),
         c = "WroteRequest" => http = "write" /\ http' = "answer",
         c = "FirstByte" => http = "answer" /\ http' \in {"body", "redirect"},
         UNCHANGED <<hops, dial, stray, crossed>>
  PROVE  HttpInv'
<1>1. /\ InHop /\ InHop' /\ http \in {"write", "answer"} /\ http' \in {"answer", "body", "redirect"}
      /\ c \in Calls8
  BY DEF InHop, Calls8
<1>2. ~ recorder.done /\ recorder.leg
  BY <1>1 DEF HttpInv, LegsInOrder, HttpReturned
<1>3. c \in DOMAIN PhaseOf => StartOf(PhaseOf[c]) \in recorder.marks
  <2>1. CASE c = "WroteRequest"
    BY <2>1 DEF PhaseOf
  <2>2. CASE c = "FirstByte"
    BY <2>2 DEF PhaseOf, StartOf, HttpInv, LegsAnswered
  <2>3. QED BY <2>1, <2>2
<1>4. LegsInOrder' /\ LegsAnswered' /\ UncrossedLegs'
  <2>1. http' \notin {"ok", "failed"} /\ (http' = "answer" => c = "WroteRequest")
        /\ (http' \in {"body", "redirect", "closing"} => c = "FirstByte")
    BY <1>1
  <2>2. QED BY <1>1, <1>2, <1>3, <2>1, CallbackInv
<1>5. /\ ~ crossed => \A d \in stray : recorder'.leg /\ d.leg = Len(legs') => Begun(d.calls)'
      /\ \A d \in stray : d.leg <= Len(legs')
      /\ legs' \in Seq(Leg)
      /\ recorder' \in [leg : BOOLEAN, marks : SUBSET Mark, first : BOOLEAN, done : BOOLEAN]
  BY <1>1, <1>2, CallbackDials
<1>6. dial = <<>> /\ dial' = <<>>
  BY <1>1 DEF HttpInv, DialsInOrder
<1>7. HttpTypeOK'
  BY <1>1, <1>5 DEF HttpInv, HttpTypeOK, Leg
<1>8. DialsInOrder'
  BY <1>5, <1>6 DEF HttpInv, DialsInOrder, Paired
<1>9. UncrossedDials'
  BY <1>5, <1>6 DEF UncrossedDials, Begun
<1>10. QED BY <1>4, <1>7, <1>8, <1>9, Together

LEMMA WriteInv == ASSUME HttpInv, Write PROVE HttpInv'
<1>1. PICK c \in {"WroteRequest", "FirstByte"} : c = "WroteRequest"
  OBVIOUS
<1>2. Callback(c) /\ http = "write" /\ http' = "answer" /\ UNCHANGED <<hops, dial, stray, crossed>>
  BY <1>1 DEF Write
<1>3. QED BY <1>1, <1>2, HopCallbackInv

LEMMA AnswerInv == ASSUME HttpInv, Answer PROVE HttpInv'
<1>1. PICK c \in {"WroteRequest", "FirstByte"} : c = "FirstByte"
  OBVIOUS
<1>2. Callback(c) /\ http = "answer" /\ http' \in {"body", "redirect"}
      /\ UNCHANGED <<hops, dial, stray, crossed>>
  BY <1>1 DEF Answer
<1>3. QED BY <1>1, <1>2, HopCallbackInv

(* A dial left behind reports: to its own leg, or it has crossed.  Once Do *)
(* has returned it reports to nobody.                                      *)
LEMMA StrayCallbackInv == ASSUME HttpInv, StrayCallback PROVE HttpInv'
<1>1. PICK d \in stray :
        /\ Callback(Head(d.calls))
        /\ stray' = (stray \ {d}) \cup
                     (IF Len(d.calls) = 1 THEN {} ELSE {[d EXCEPT !.calls = Tail(@)]})
        /\ crossed' = (crossed \/ (~ recorder.done /\ (Len(legs') # d.leg \/ ~ recorder.leg)))
        /\ UNCHANGED <<http, hops, dial>>
  BY DEF StrayCallback
<1>2. d \in [leg : Nat, calls : Seq(Call) \ {<<>>}] /\ Paired(d.calls)
  BY DEF HttpInv, HttpTypeOK, DialsInOrder
<1>3. PICK calls : calls = d.calls
  OBVIOUS
<1>4. /\ Head(calls) \in Calls8 /\ Tail(calls) \in Seq(Call) /\ Paired(Tail(calls))
      /\ Len(calls) # 1 => Tail(calls) # <<>>
      /\ Tail(calls) # <<>> /\ Head(Tail(calls)) \in DOMAIN PhaseOf =>
           /\ Head(calls) \in DOMAIN MarkOf
           /\ MarkOf[Head(calls)] = StartOf(PhaseOf[Head(Tail(calls))])
  BY <1>2, <1>3, DialStep
<1>5. PICK c \in Calls8 : c = Head(calls)
  BY <1>4
<1>6. Callback(c)
  BY <1>1, <1>3, <1>5
<1>7. PICK e : e = [d EXCEPT !.calls = Tail(calls)]
  OBVIOUS
<1>8. e.leg = d.leg /\ e.calls = Tail(calls)
      /\ (Len(calls) # 1 => e \in [leg : Nat, calls : Seq(Call) \ {<<>>}])
  BY <1>2, <1>4, <1>7
<1>9. \A f \in stray' : f \in stray \/ (f = e /\ Len(calls) # 1)
  BY <1>1, <1>3, <1>7
<1>10. stray' \subseteq [leg : Nat, calls : Seq(Call) \ {<<>>}]
  BY <1>8, <1>9 DEF HttpInv, HttpTypeOK
<1>11. d.leg <= Len(legs)
  BY DEF HttpInv, DialsInOrder
<1>12. dial # <<>> => recorder.leg /\ ~ recorder.done
  BY DEF HttpInv, DialsInOrder, LegsInOrder, InHop, HttpReturned
<1>13. crossed' \in BOOLEAN
  BY <1>1
<1>14. CASE recorder.done
  <2>1. /\ legs' = legs
        /\ recorder' \in [leg : BOOLEAN, marks : SUBSET Mark, first : BOOLEAN, done : BOOLEAN]
        /\ recorder'.leg <=> recorder.leg
        /\ recorder'.done
    BY <1>6, <1>14, CallbackDone DEF HttpInv
  <2>2. HttpReturned /\ http' = http /\ hops' = hops /\ dial' = dial /\ (crossed' <=> crossed)
    BY <1>1, <1>14 DEF HttpInv, LegsInOrder
  <2>3. HttpTypeOK'
    BY <1>1, <1>10, <1>13, <2>1 DEF HttpInv, HttpTypeOK
  <2>4. LegsInOrder'
    BY <1>14, <2>1, <2>2 DEF HttpInv, LegsInOrder, InHop, OpenLegs, HttpReturned
  <2>5. LegsAnswered'
    BY <2>1, <2>2 DEF HttpInv, LegsAnswered, HttpReturned
  <2>6. dial = <<>>
    BY <1>12, <1>14
  <2>7. DialsInOrder'
    <3>1. dial' = <<>> /\ Paired(dial)'
      BY <2>2, <2>6 DEF HttpInv, DialsInOrder, Paired
    <3>2. ASSUME NEW f \in stray' PROVE Paired(f.calls) /\ f.leg =< Len(legs')
      <4>1. CASE f \in stray
        BY <2>1, <4>1 DEF HttpInv, DialsInOrder
      <4>2. CASE f = e
        BY <1>4, <1>8, <1>11, <2>1, <4>2
      <4>3. QED BY <1>9, <4>1, <4>2
    <3>3. QED BY <3>1, <3>2 DEF DialsInOrder, Paired
  <2>8. ~ crossed => ~ recorder.leg
    BY <2>2, UncrossedIs DEF HttpInv, UncrossedLegs, HttpReturned
  <2>9. UncrossedLegs'
    BY <2>1, <2>2, UncrossedIs DEF HttpInv, UncrossedLegs
  <2>10. UncrossedDials'
    BY <2>1, <2>2, <2>6, <2>8 DEF UncrossedDials, Begun
  <2>11. QED BY <2>3, <2>4, <2>5, <2>7, <2>9, <2>10, Together
<1>15. CASE ~ recorder.done
  <2>1. /\ \A x : recorder.leg /\ Begun(x) => Begun(x)'
        /\ ~ crossed => \A f \in stray : recorder'.leg /\ f.leg = Len(legs') => Begun(f.calls)'
        /\ \A f \in stray : f.leg <= Len(legs')
        /\ legs' \in Seq(Leg)
        /\ recorder' \in [leg : BOOLEAN, marks : SUBSET Mark, first : BOOLEAN, done : BOOLEAN]
        /\ c \in DOMAIN MarkOf => MarkOf[c] \in recorder'.marks
    BY <1>6, <1>15, CallbackDials
  <2>2. crossed => crossed'
    BY <1>1
  <2>3. ~ crossed' => recorder.leg /\ d.leg = Len(legs') /\ Len(legs') = Len(legs)
    <3>1. recorder.leg => Len(legs') = Len(legs)
      BY <1>6, <1>15, CallbackKeeps DEF HttpInv
    <3>2. QED BY <1>1, <1>15, <3>1
  <2>4. ~ crossed' => (c \in DOMAIN PhaseOf => StartOf(PhaseOf[c]) \in recorder.marks)
    <3>1. ~ crossed' => Begun(d.calls)
      BY <2>2, <2>3, UncrossedIs DEF HttpInv, UncrossedDials
    <3>2. QED BY <1>2, <1>3, <1>5, <3>1 DEF Begun
  <2>5. LegsInOrder' /\ LegsAnswered' /\ UncrossedLegs'
    <3>1. http' = http /\ http' \notin {"ok", "failed"} /\ hops' = hops
      BY <1>1, <1>15 DEF HttpInv, LegsInOrder, HttpReturned
    <3>2. QED BY <1>6, <1>15, <2>2, <2>3, <2>4, <3>1, CallbackInv
  <2>6. HttpTypeOK'
    BY <1>1, <1>10, <1>13, <2>1 DEF HttpInv, HttpTypeOK, Leg
  <2>7. Paired(dial)'
    BY <1>1 DEF HttpInv, DialsInOrder, Paired
  <2>8. DialsInOrder'
    BY <1>1, <1>4, <1>8, <1>9, <1>11, <2>1, <2>7 DEF HttpInv, DialsInOrder
  <2>9. ~ crossed' => Begun(dial)'
    <3>1. ASSUME ~ crossed' PROVE Begun(dial)'
      <4>1. Begun(dial) /\ recorder.leg
        BY <2>2, <2>3, <3>1, UncrossedIs DEF HttpInv, UncrossedDials
      <4>2. PICK x : x = dial
        OBVIOUS
      <4>3. Begun(x)'
        BY <2>1, <4>1, <4>2
      <4>4. dial' = x
        BY <1>1, <4>2
      <4>5. QED BY <4>3, <4>4 DEF Begun
    <3>2. QED BY <3>1
  <2>10. Begun(Tail(calls))'
    BY <1>4, <1>5, <2>1 DEF Begun
  <2>11. UncrossedDials'
    BY <1>8, <1>9, <2>1, <2>2, <2>9, <2>10 DEF UncrossedDials
  <2>12. QED BY <2>5, <2>6, <2>8, <2>11, Together
<1>16. QED BY <1>14, <1>15

(* The last leg is closed, if one is open; and then every leg is. *)
Closing(outcome) ==
  /\ legs' \in Seq(Leg) /\ Len(legs') = Len(legs) /\ Len(legs) \in Nat
  /\ DOMAIN legs = 1 .. Len(legs) /\ DOMAIN legs' = 1 .. Len(legs)
  /\ recorder' \in [leg : BOOLEAN, marks : SUBSET Mark, first : BOOLEAN, done : BOOLEAN]
  /\ ~ recorder'.leg
  /\ recorder'.done <=> recorder.done
  /\ \A i \in 1 .. Len(legs) :
       /\ legs'[i].closed
       /\ legs'[i].phases = legs[i].phases
       /\ legs'[i].outcome = IF recorder.leg /\ i = Len(legs) THEN outcome ELSE legs[i].outcome

LEMMA CloseLegIs ==
  ASSUME HttpTypeOK, LegsInOrder, NEW outcome \in {"ok", "failed"}, CloseLeg(outcome)
  PROVE  Closing(outcome)
<1>1. legs \in Seq(Leg) /\ Len(legs) \in Nat /\ DOMAIN legs = 1 .. Len(legs)
  BY DEF HttpTypeOK, Leg
<1>2. /\ recorder' \in [leg : BOOLEAN, marks : SUBSET Mark, first : BOOLEAN, done : BOOLEAN]
      /\ ~ recorder'.leg
      /\ recorder'.done <=> recorder.done
  <2>1. PICK rec \in [leg : BOOLEAN, marks : SUBSET Mark, first : BOOLEAN, done : BOOLEAN] :
          rec = recorder
    BY DEF HttpTypeOK
  <2>2. recorder' = [rec EXCEPT !.leg = FALSE]
    BY <2>1 DEF CloseLeg
  <2>3. QED BY <2>1, <2>2
<1>3. CASE ~ recorder.leg
  <2>1. legs' = legs
    BY <1>3 DEF CloseLeg
  <2>2. \A i \in 1 .. Len(legs) : legs[i].closed
    BY <1>1, <1>3 DEF LegsInOrder
  <2>3. QED BY <1>1, <1>2, <1>3, <2>1, <2>2 DEF Closing
<1>4. CASE recorder.leg
  <2>1. PICK n \in 1 .. Len(legs) : n = Len(legs)
    <3>1. legs # <<>>
      BY <1>4 DEF LegsInOrder
    <3>2. Len(legs) \in Nat \ {0}
      BY <1>1, <3>1, EmptySeq
    <3>3. Len(legs) \in 1 .. Len(legs)
      BY <3>2
    <3>4. QED BY <3>3
  <2>2. PICK old \in Leg : old = legs[n]
    BY <1>1, <2>1, ElementOfSeq
  <2>3. PICK new : new = [old EXCEPT !.closed = TRUE, !.outcome = outcome]
    OBVIOUS
  <2>4. new \in Leg /\ new.closed /\ new.outcome = outcome /\ new.phases = old.phases
    BY <2>2, <2>3 DEF Leg
  <2>5. legs' = [legs EXCEPT ![n].closed = TRUE, ![n].outcome = outcome]
    BY <1>4, <2>1 DEF CloseLeg
  <2>6. legs' = [legs EXCEPT ![n] = new]
    <3>1. [legs EXCEPT ![n].closed = TRUE] = [legs EXCEPT ![n] = [old EXCEPT !.closed = TRUE]]
      BY <1>1, <2>2
    <3>2. PICK half : half = [old EXCEPT !.closed = TRUE]
      OBVIOUS
    <3>3. PICK tree : tree = [legs EXCEPT ![n] = half]
      OBVIOUS
    <3>4. legs' = [tree EXCEPT ![n].outcome = outcome]
      BY <2>5, <3>1, <3>2, <3>3
    <3>5. tree[n] = half
      BY <1>1, <2>1, <3>3
    <3>6. new = [half EXCEPT !.outcome = outcome]
      BY <2>3, <3>2
    <3>7. legs' = [tree EXCEPT ![n] = new]
      BY <3>4, <3>5, <3>6
    <3>8. QED BY <1>1, <2>1, <3>3, <3>7
  <2>7. /\ legs' \in Seq(Leg) /\ Len(legs') = Len(legs)
        /\ \A i \in 1 .. Len(legs) : legs'[i] = IF i = n THEN new ELSE legs[i]
    BY <1>1, <2>1, <2>4, <2>6, ExceptSeq
  <2>8. \A i \in 1 .. Len(legs) : i # n => legs[i].closed
    <3>1. n \in Nat /\ n = Len(legs)
      BY <1>1, <2>1
    <3>2. \A i \in 1 .. n : i # n => i < n
      BY <3>1
    <3>3. QED BY <1>1, <3>1, <3>2 DEF LegsInOrder
  <2>9. DOMAIN legs' = 1 .. Len(legs)
    BY <2>7
  <2>10. \A i \in 1 .. Len(legs) :
           /\ legs'[i].closed
           /\ legs'[i].phases = legs[i].phases
           /\ legs'[i].outcome = IF recorder.leg /\ i = Len(legs) THEN outcome ELSE legs[i].outcome
    BY <1>4, <2>1, <2>2, <2>4, <2>7, <2>8
  <2>11. QED BY <1>1, <1>2, <2>7, <2>9, <2>10 DEF Closing
<1>5. QED BY <1>3, <1>4

(* CheckRedirect: the leg of the hop is closed and well, and was answered. *)
LEMMA RedirectInv == ASSUME HttpInv, Redirect PROVE HttpInv'
<1>1. /\ http = "redirect" /\ http' \in {"broken", "getconn"}
      /\ http' = "broken" => hops' = hops
      /\ http' = "getconn" => hops' = hops + 1
      /\ dial' = dial /\ stray' = stray /\ crossed' = crossed
  BY DEF Redirect
<1>2. hops \in Nat /\ recorder.leg /\ ~ recorder.done /\ Len(legs) = hops + 1
      /\ Answered(legs[Len(legs)]) /\ dial = <<>>
  BY <1>1 DEF HttpInv, HttpTypeOK, LegsInOrder, LegsAnswered, DialsInOrder, InHop, OpenLegs, HttpReturned
<1>3. PICK outcome \in {"ok", "failed"} : outcome = "ok"
  OBVIOUS
<1>4. Closing(outcome)
  BY <1>3, CloseLegIs DEF HttpInv, Redirect
<1>5. \A i \in 1 .. Len(legs) : legs[i].outcome # "failed"
  BY <1>1, <1>4 DEF HttpInv, LegsAnswered, Closing
<1>6. \A i \in 1 .. Len(legs) : legs'[i].outcome # "failed"
  BY <1>3, <1>4, <1>5 DEF Closing
<1>7. LegsInOrder'
  <2>1. OpenLegs' = 0
    BY <1>4 DEF OpenLegs, Closing
  <2>2. QED BY <1>1, <1>2, <1>4, <2>1 DEF LegsInOrder, Closing, InHop, HttpReturned
<1>8. LegsAnswered'
  <2>1. ASSUME NEW i \in 1 .. Len(legs), legs'[i].outcome = "ok"
        PROVE  Answered(legs'[i])
    <3>1. Answered(legs[i])
      <4>1. CASE i = Len(legs)
        BY <1>2, <4>1
      <4>2. CASE i # Len(legs)
        <5>1. i < Len(legs) /\ i \in DOMAIN legs
          BY <1>2, <1>4, <4>2 DEF Closing
        <5>2. legs[i].closed /\ legs[i].outcome = "ok"
          BY <1>4, <2>1, <4>2, <5>1 DEF HttpInv, LegsInOrder, Closing
        <5>3. QED BY <5>1, <5>2 DEF HttpInv, LegsAnswered
      <4>3. QED BY <4>1, <4>2
    <3>2. QED BY <1>4, <3>1 DEF Answered, Closing
  <2>2. QED BY <1>1, <1>4, <1>6, <2>1 DEF LegsAnswered, Closing
<1>9. DialsInOrder'
  BY <1>1, <1>2, <1>4 DEF HttpInv, DialsInOrder, Closing, Paired
<1>10. UncrossedLegs'
  <2>1. Len(legs') \in hops .. hops + 1
    BY <1>2, <1>4 DEF Closing
  <2>2. ~ crossed => \A i \in 1 .. Len(legs) : \A p \in Range(legs'[i].phases) : p.started
    BY <1>4, UncrossedIs DEF HttpInv, UncrossedLegs, Closing
  <2>3. QED BY <1>1, <1>4, <1>6, <2>1, <2>2 DEF UncrossedLegs, Closing
<1>11. UncrossedDials'
  BY <1>1, <1>2, <1>4 DEF UncrossedDials, Begun, Closing
<1>12. HttpTypeOK'
  BY <1>1, <1>2, <1>4 DEF HttpInv, HttpTypeOK, Leg, Closing
<1>13. QED BY <1>7, <1>8, <1>9, <1>10, <1>11, <1>12, Together

(* The last leg is closed: failed, if the call broke in it. *)
LEMMA CloseLastInv == ASSUME HttpInv, CloseLast PROVE HttpInv'
<1>1. PICK outcome \in {"ok", "failed"} : outcome = IF http = "broken" THEN "failed" ELSE "ok"
  OBVIOUS
<1>2. /\ http \in {"closing", "broken"}
      /\ http = "broken" => http' = "failing" /\ outcome = "failed"
      /\ http = "closing" => http' = "finishing" /\ outcome = "ok"
      /\ hops' = hops /\ dial' = dial /\ stray' = stray /\ crossed' = crossed
      /\ CloseLeg(outcome)
  BY <1>1 DEF CloseLast
<1>3. Closing(outcome)
  BY <1>2, CloseLegIs DEF HttpInv
<1>4. hops \in Nat /\ ~ recorder.done /\ dial = <<>>
      /\ (http = "closing" => recorder.leg /\ Len(legs) = hops + 1 /\ Answered(legs[Len(legs)]))
  BY <1>2 DEF HttpInv, HttpTypeOK, LegsInOrder, LegsAnswered, DialsInOrder, InHop, OpenLegs, HttpReturned
<1>5. \A i \in 1 .. Len(legs) : legs[i].outcome # "failed"
  BY <1>2, <1>3 DEF HttpInv, LegsAnswered, Closing
<1>6. \A i \in 1 .. Len(legs) : legs'[i].outcome = "failed" => outcome = "failed" /\ i = Len(legs)
  BY <1>3, <1>5 DEF Closing
<1>7. LegsInOrder'
  <2>1. OpenLegs' = 0
    BY <1>3 DEF OpenLegs, Closing
  <2>2. /\ ~ recorder'.leg /\ ~ recorder'.done /\ Len(legs') = Len(legs)
        /\ DOMAIN legs' = 1 .. Len(legs) /\ \A i \in 1 .. Len(legs) : legs'[i].closed
    BY <1>3, <1>4 DEF Closing
  <2>3. http' \in {"finishing", "failing"} /\ (http' = "finishing" => Len(legs) = hops + 1)
    BY <1>2, <1>4
  <2>4. /\ ~ (http' \in {"idle", "getconn"} \/ InHop') /\ ~ HttpReturned'
        /\ http' # "ok"
    BY <2>3 DEF InHop, HttpReturned
  <2>5. http' \in {"finishing", "ok"} => Len(legs') = hops' + 1 + OpenLegs'
    <3>1. hops + 1 + 0 = hops + 1 /\ hops' = hops
      BY <1>2, <1>4
    <3>2. QED BY <2>1, <2>2, <2>3, <3>1
  <2>6. \A i \in DOMAIN legs' : legs'[i].closed <=> i < Len(legs') \/ ~ recorder'.leg
    BY <2>2
  <2>7. QED BY <2>2, <2>4, <2>5, <2>6 DEF LegsInOrder
<1>8. LegsAnswered'
  <2>1. ASSUME NEW i \in 1 .. Len(legs), legs'[i].outcome = "ok"
        PROVE  Answered(legs'[i])
    <3>1. Answered(legs[i])
      <4>1. CASE i = Len(legs) /\ recorder.leg
        <5>1. outcome = "ok"
          BY <1>3, <2>1, <4>1 DEF Closing
        <5>2. QED BY <1>2, <1>4, <4>1, <5>1
      <4>2. CASE i # Len(legs) \/ ~ recorder.leg
        <5>1. (i < Len(legs) \/ ~ recorder.leg) /\ i \in DOMAIN legs
          <6>1. i \in Nat /\ i <= Len(legs) /\ Len(legs) \in Nat /\ DOMAIN legs = 1 .. Len(legs)
            <7>1. Len(legs) \in Nat /\ DOMAIN legs = 1 .. Len(legs)
              BY DEF HttpInv, HttpTypeOK
            <7>2. QED BY <7>1
          <6>2. i # Len(legs) => i < Len(legs)
            <7>1. PICK m \in Nat, n \in Nat : m = i /\ n = Len(legs)
              BY <6>1
            <7>2. m <= n => (m # n => m < n)
              OBVIOUS
            <7>3. QED BY <6>1, <7>1, <7>2
          <6>3. QED BY <4>2, <6>1, <6>2
        <5>2. legs[i].closed /\ legs[i].outcome = "ok"
          BY <1>3, <2>1, <4>2, <5>1 DEF HttpInv, LegsInOrder, Closing
        <5>3. QED BY <5>1, <5>2 DEF HttpInv, LegsAnswered
      <4>3. QED BY <4>1, <4>2
    <3>2. QED BY <1>3, <3>1 DEF Answered, Closing
  <2>2. QED BY <1>2, <1>3, <1>6, <2>1 DEF LegsAnswered, Closing
<1>9. DialsInOrder'
  BY <1>2, <1>3, <1>4 DEF HttpInv, DialsInOrder, Closing, Paired
<1>10. UncrossedLegs'
  <2>1. ~ crossed /\ http = "broken" => Len(legs) \in hops .. hops + 1
    BY UncrossedIs DEF HttpInv, UncrossedLegs
  <2>2. ~ crossed => \A i \in 1 .. Len(legs) : \A p \in Range(legs'[i].phases) : p.started
    BY <1>3, UncrossedIs DEF HttpInv, UncrossedLegs, Closing
  <2>3. QED BY <1>2, <1>3, <1>6, <2>1, <2>2 DEF UncrossedLegs, Closing
<1>11. UncrossedDials'
  BY <1>2, <1>3, <1>4 DEF UncrossedDials, Begun, Closing
<1>12. HttpTypeOK'
  BY <1>2, <1>3, <1>4 DEF HttpInv, HttpTypeOK, Leg, Closing
<1>13. QED BY <1>7, <1>8, <1>9, <1>10, <1>11, <1>12, Together

LEMMA EndTransferInv == ASSUME HttpInv, EndTransfer PROVE HttpInv'
<1>1. /\ http = "body" /\ http' = "closing"
      /\ hops' = hops /\ dial' = dial /\ stray' = stray /\ crossed' = crossed
  BY DEF EndTransfer
<1>2. recorder.leg /\ ~ recorder.done /\ dial = <<>> /\ legs # <<>>
      /\ Len(legs) = hops + OpenLegs /\ Answered(legs[Len(legs)])
  BY <1>1 DEF HttpInv, LegsInOrder, LegsAnswered, DialsInOrder, InHop, HttpReturned
<1>3. legs \in Seq(Leg) /\ Len(legs) \in Nat \ {0} /\ DOMAIN legs = 1 .. Len(legs)
  BY <1>2, EmptySeq DEF HttpInv, HttpTypeOK, Leg
<1>4. /\ recorder' \in [leg : BOOLEAN, marks : SUBSET Mark, first : BOOLEAN, done : BOOLEAN]
      /\ recorder'.leg /\ ~ recorder'.done /\ recorder'.marks = recorder.marks
  <2>1. PICK rec \in [leg : BOOLEAN, marks : SUBSET Mark, first : BOOLEAN, done : BOOLEAN] :
          rec = recorder
    BY DEF HttpInv, HttpTypeOK
  <2>2. PICK f \in BOOLEAN : f = (rec.first /\ ~ rec.leg)
    OBVIOUS
  <2>3. recorder' = [rec EXCEPT !.first = f]
    BY <2>1, <2>2 DEF EndTransfer
  <2>4. QED BY <1>2, <2>1, <2>3
<1>5. /\ legs' \in Seq(Leg) /\ Len(legs') = Len(legs) /\ DOMAIN legs' = 1 .. Len(legs)
      /\ \A i \in 1 .. Len(legs) :
           /\ legs'[i].closed <=> legs[i].closed
           /\ legs'[i].outcome = legs[i].outcome
           /\ \A p \in Range(legs[i].phases) : p \in Range(legs'[i].phases)
           /\ \A p \in Range(legs'[i].phases) : p \in Range(legs[i].phases) \/ p.started
  <2>1. CASE legs' = legs
    BY <1>3, <2>1
  <2>2. CASE legs' # legs
    <3>1. PICK p : p = [name |-> "transfer", started |-> TRUE]
      OBVIOUS
    <3>2. p \in Phase /\ p.name = "transfer" /\ p.started = TRUE
      BY <3>1 DEF Phase
    <3>3. legs' = WithPhase(legs, p.name, p.started)
      BY <2>2, <3>2 DEF EndTransfer
    <3>4. PICK to, from : to = legs' /\ from = legs
      OBVIOUS
    <3>5. OneMore(to, from, p)
      <4>1. from \in Seq(Leg) /\ from # <<>> /\ to = WithPhase(from, p.name, p.started)
        BY <1>2, <1>3, <3>3, <3>4
      <4>2. QED BY <3>2, <4>1, OnePhaseMore
    <3>6. /\ legs' \in Seq(Leg) /\ Len(legs') = Len(legs)
          /\ \A i \in 1 .. Len(legs) - 1 : legs'[i] = legs[i]
          /\ legs'[Len(legs)].closed = legs[Len(legs)].closed
          /\ legs'[Len(legs)].outcome = legs[Len(legs)].outcome
          /\ Range(legs'[Len(legs)].phases) = Range(legs[Len(legs)].phases) \cup {p}
      BY <3>4, <3>5 DEF OneMore
    <3>7. \A i \in 1 .. Len(legs) : i \in 1 .. Len(legs) - 1 \/ i = Len(legs)
      <4>1. PICK n \in Nat : n = Len(legs)
        BY <1>3
      <4>2. \A i \in 1 .. n : i \in 1 .. n - 1 \/ i = n
        OBVIOUS
      <4>3. QED BY <4>1, <4>2
    <3>8. DOMAIN legs' = 1 .. Len(legs)
      BY <3>6
    <3>9. \A i \in 1 .. Len(legs) :
            /\ legs'[i].closed <=> legs[i].closed
            /\ legs'[i].outcome = legs[i].outcome
            /\ \A q \in Range(legs[i].phases) : q \in Range(legs'[i].phases)
            /\ \A q \in Range(legs'[i].phases) : q \in Range(legs[i].phases) \/ q.started
      BY <3>2, <3>6, <3>7
    <3>10. QED BY <3>6, <3>8, <3>9
  <2>3. QED BY <2>1, <2>2
<1>6. HttpTypeOK'
  BY <1>1, <1>4, <1>5 DEF HttpInv, HttpTypeOK, Leg
<1>7. LegsInOrder'
  <2>1. OpenLegs' = OpenLegs
    BY <1>2, <1>4 DEF OpenLegs
  <2>2. legs' # <<>>
    BY <1>3, <1>5, EmptySeq
  <2>3. \A i \in DOMAIN legs' : legs'[i].closed <=> i < Len(legs') \/ ~ recorder'.leg
    BY <1>2, <1>3, <1>4, <1>5 DEF HttpInv, LegsInOrder
  <2>4. QED BY <1>1, <1>2, <1>4, <1>5, <2>1, <2>2, <2>3 DEF LegsInOrder, HttpReturned, InHop
<1>8. LegsAnswered'
  <2>1. \A i \in 1 .. Len(legs) : Answered(legs[i]) => Answered(legs'[i])
    BY <1>5 DEF Answered
  <2>2. Len(legs) \in 1 .. Len(legs)
    BY <1>3
  <2>3. \A i \in 1 .. Len(legs) :
          /\ legs[i].outcome # "failed"
          /\ legs[i].closed /\ legs[i].outcome = "ok" => Answered(legs[i])
    BY <1>1, <1>3 DEF HttpInv, LegsAnswered
  <2>4. QED BY <1>1, <1>2, <1>5, <2>1, <2>2, <2>3 DEF LegsAnswered
<1>9. DialsInOrder'
  BY <1>1, <1>2, <1>5 DEF HttpInv, DialsInOrder, Paired
<1>10. UncrossedLegs'
  BY <1>1, <1>3, <1>5, UncrossedIs DEF HttpInv, UncrossedLegs
<1>11. UncrossedDials'
  <2>1. \A calls : Begun(calls) => Begun(calls)'
    BY <1>4 DEF Begun
  <2>2. Begun(dial)'
    BY <1>1, <1>2 DEF Begun
  <2>3. QED BY <1>1, <1>2, <1>5, <2>1, <2>2, UncrossedIs DEF HttpInv, UncrossedDials
<1>12. QED BY <1>6, <1>7, <1>8, <1>9, <1>10, <1>11, Together

(* A dial is left behind, or there is none, and nothing is reported. *)
LEMMA LeaveDialInv ==
  ASSUME HttpInv, hops' = hops, legs' = legs, recorder' = recorder, crossed' = crossed,
         dial' = <<>>,
         stray' \in {stray} \cup
           (IF dial = <<>> THEN {} ELSE {stray \cup {[leg |-> Len(legs), calls |-> dial]}}),
         \/ http = "dialing" /\ http' = "write"
         \/ http \in {"getconn", "dialing", "write", "answer", "body"} /\ http' = "broken"
  PROVE  HttpInv'
<1>1. /\ hops \in Nat /\ dial \in Seq(Call) /\ Len(legs) \in Nat
      /\ stray \subseteq [leg : Nat, calls : Seq(Call) \ {<<>>}]
  BY DEF HttpInv, HttpTypeOK
<1>2. (InHop \/ http = "getconn") /\ ~ recorder.done /\ Len(legs) = hops + OpenLegs
  BY DEF HttpInv, LegsInOrder, InHop, HttpReturned
<1>3. PICK e : e = [leg |-> Len(legs), calls |-> dial]
  OBVIOUS
<1>4. \A d \in stray' : d \in stray \/ (d = e /\ dial # <<>>)
  BY <1>3
<1>5. e.leg = Len(legs) /\ e.calls = dial
      /\ (dial # <<>> => e \in [leg : Nat, calls : Seq(Call) \ {<<>>}])
  BY <1>1, <1>3
<1>6. dial' \in Seq(Call) /\ Paired(dial)' /\ Begun(dial)'
  <2>1. PICK x : x = dial'
    OBVIOUS
  <2>2. x \in Seq(Call) /\ Paired(x) /\ x = <<>>
    BY <2>1, NoCalls
  <2>3. QED BY <2>1, <2>2 DEF Paired, Begun
<1>7. HttpTypeOK'
  <2>1. stray' \subseteq [leg : Nat, calls : Seq(Call) \ {<<>>}]
    BY <1>1, <1>4, <1>5
  <2>2. QED BY <1>6, <2>1 DEF HttpInv, HttpTypeOK
<1>8. LegsInOrder'
  <2>1. OpenLegs' = OpenLegs
    BY DEF OpenLegs
  <2>2. QED BY <1>2, <2>1 DEF HttpInv, LegsInOrder, InHop, HttpReturned
<1>9. LegsAnswered'
  BY DEF HttpInv, LegsAnswered
<1>10. DialsInOrder'
  <2>1. Paired(dial)
    BY DEF HttpInv, DialsInOrder
  <2>2. QED BY <1>1, <1>4, <1>5, <1>6, <2>1 DEF HttpInv, DialsInOrder
<1>11. UncrossedLegs'
  <2>1. Len(legs) \in hops .. hops + 1
    BY <1>1, <1>2 DEF OpenLegs
  <2>2. QED BY <2>1, UncrossedIs DEF HttpInv, UncrossedLegs
<1>12. UncrossedDials'
  <2>1. \A calls : Begun(calls) => Begun(calls)'
    BY DEF Begun
  <2>2. QED BY <1>4, <1>5, <1>6, <2>1, UncrossedIs DEF HttpInv, UncrossedDials
<1>13. QED BY <1>7, <1>8, <1>9, <1>10, <1>11, <1>12, Together

LEMMA FinishInv == ASSUME HttpInv, Finish PROVE HttpInv'
<1>1. /\ http \in {"failing", "finishing"}
      /\ http = "failing" => http' = "failed"
      /\ http = "finishing" => http' = "ok"
      /\ UNCHANGED <<hops, dial, stray, legs, crossed>>
  BY DEF Finish
<1>2. /\ recorder' \in [leg : BOOLEAN, marks : SUBSET Mark, first : BOOLEAN, done : BOOLEAN]
      /\ (recorder'.leg <=> recorder.leg) /\ recorder'.done /\ recorder'.marks = recorder.marks
  <2>1. PICK rec \in [leg : BOOLEAN, marks : SUBSET Mark, first : BOOLEAN, done : BOOLEAN] :
          rec = recorder
    BY DEF HttpInv, HttpTypeOK
  <2>2. recorder' = [rec EXCEPT !.done = TRUE]
    BY <2>1 DEF Finish
  <2>3. QED BY <2>1, <2>2
<1>3. HttpTypeOK'
  BY <1>1, <1>2 DEF HttpInv, HttpTypeOK
<1>4. LegsInOrder'
  <2>1. OpenLegs' = OpenLegs
    BY <1>2 DEF OpenLegs
  <2>2. QED BY <1>1, <1>2, <2>1 DEF HttpInv, LegsInOrder, InHop, HttpReturned
<1>5. LegsAnswered'
  BY <1>1 DEF HttpInv, LegsAnswered
<1>6. DialsInOrder'
  BY <1>1 DEF HttpInv, DialsInOrder, Paired
<1>7. UncrossedLegs'
  BY <1>1, <1>2, UncrossedIs DEF HttpInv, UncrossedLegs
<1>8. UncrossedDials'
  <2>1. \A calls : Begun(calls) => Begun(calls)'
    BY <1>2 DEF Begun
  <2>2. Begun(dial) => Begun(dial)'
    BY <1>1, <1>2 DEF Begun
  <2>3. QED BY <1>1, <1>2, <2>1, <2>2, UncrossedIs DEF HttpInv, UncrossedDials
<1>9. QED BY <1>3, <1>4, <1>5, <1>6, <1>7, <1>8, Together

LEMMA HttpStep == ASSUME HttpInv, [HttpNext]_httpVars PROVE HttpInv'
<1>1. CASE UNCHANGED httpVars
  BY <1>1 DEF httpVars, HttpInv, HttpTypeOK, LegsInOrder, LegsAnswered, DialsInOrder, Uncrossed,
              InHop, OpenLegs, HttpReturned, Begun, Paired
<1>2. CASE Dialed
  <2>1. dial' = <<>> /\ stray' = stray /\ UNCHANGED <<hops, legs, recorder, crossed>>
        /\ http = "dialing" /\ http' = "write"
    BY <1>2 DEF Dialed
  <2>2. QED BY <2>1, LeaveDialInv
<1>3. CASE TakeIdle
  <2>1. /\ dial # <<>> /\ stray' = stray \cup {[leg |-> Len(legs), calls |-> dial]}
        /\ dial' = <<>> /\ UNCHANGED <<hops, legs, recorder, crossed>>
        /\ http = "dialing" /\ http' = "write"
    BY <1>3 DEF TakeIdle
  <2>2. QED BY <2>1, LeaveDialInv
<1>4. CASE Break
  <2>1. /\ stray' = IF dial = <<>> THEN stray
                    ELSE stray \cup {[leg |-> Len(legs), calls |-> dial]}
        /\ dial' = <<>> /\ UNCHANGED <<hops, legs, recorder, crossed>>
        /\ http \in {"getconn", "dialing", "write", "answer", "body"} /\ http' = "broken"
    BY <1>4 DEF Break
  <2>2. QED BY <2>1, LeaveDialInv
<1>5. QED BY <1>1, <1>2, <1>3, <1>4, HttpBeginInv, GetConnInv, DialCallbackInv, WriteInv,
             AnswerInv, RedirectInv, EndTransferInv, CloseLastInv, FinishInv, StrayCallbackInv
          DEF HttpNext, DoStep

-------------------------------------------------------------------------------
(* Of every exchange: legs and hops are in step, whatever the dials do.    *)
THEOREM HttpInductive == HttpSpec => []HttpInv
<1>1. HttpIdle => HttpInv
  BY HttpStart
<1>2. HttpInv /\ [HttpNext]_httpVars => HttpInv'
  BY HttpStep
<1>3. QED BY <1>1, <1>2, PTL DEF HttpSpec

(* The legs of a call that returned tell its hops (legRecorder, http.go),  *)
(* for any number of redirects and of dials left behind.                   *)
THEOREM LegsTell == HttpSpec => []LegsTellTheHops
<1>1. HttpInv => LegsTellTheHops
  <2>1. SUFFICES ASSUME HttpInv, HttpReturned
                 PROVE  LegsTellTheHops
    BY DEF LegsTellTheHops
  <2>2. DOMAIN legs = 1 .. Len(legs) /\ Len(legs) \in Nat /\ hops \in Nat
    BY <2>1 DEF HttpInv, HttpTypeOK
  <2>3. ASSUME http = "ok"
        PROVE  Closed = 1 .. hops + 1 /\ \A i \in Closed : legs[i].outcome = "ok"
    <3>1. Len(legs) = hops + 1 + OpenLegs
      BY <2>1, <2>3 DEF HttpInv, LegsInOrder
    <3>2. Closed = {i \in 1 .. Len(legs) : i < Len(legs) \/ ~ recorder.leg}
      BY <2>1, <2>2 DEF HttpInv, LegsInOrder, Closed
    <3>3. Closed = 1 .. hops + 1
      BY <2>2, <3>1, <3>2 DEF OpenLegs
    <3>4. \A i \in DOMAIN legs : legs[i].outcome \in {"ok", "failed"} /\ legs[i].outcome # "failed"
      <4>1. legs \in Seq(Leg)
        BY <2>1 DEF HttpInv, HttpTypeOK, Leg
      <4>2. \A i \in DOMAIN legs : legs[i] \in Leg
        BY <2>2, <4>1, ElementOfSeq
      <4>3. QED BY <2>1, <2>3, <4>2 DEF HttpInv, LegsAnswered, Leg
    <3>5. QED BY <3>3, <3>4 DEF Closed
  <2>4. ASSUME ~ crossed
        PROVE  /\ Closed = DOMAIN legs /\ Len(legs) \in hops .. hops + 1
               /\ \A i \in DOMAIN legs :
                    /\ legs[i].outcome = "failed" => i = Len(legs) /\ http = "failed"
                    /\ \A p \in Range(legs[i].phases) : p.started
                    /\ legs[i].outcome = "ok" =>
                         \E p \in Range(legs[i].phases) : p.name = "ttfb"
    <3>1. ~ recorder.leg
      BY <2>1, <2>4, UncrossedIs DEF HttpInv, UncrossedLegs, HttpReturned
    <3>2. \A i \in DOMAIN legs : legs[i].closed
      BY <2>1, <3>1 DEF HttpInv, LegsInOrder
    <3>3. Len(legs) \in hops .. hops + 1
      <4>1. CASE http = "ok"
        BY <2>1, <2>2, <3>1, <4>1 DEF HttpInv, LegsInOrder, OpenLegs
      <4>2. CASE http = "failed"
        BY <2>1, <2>4, <4>2, UncrossedIs DEF HttpInv, UncrossedLegs
      <4>3. QED BY <2>1, <4>1, <4>2 DEF HttpReturned
    <3>4. \A i \in DOMAIN legs :
            /\ legs[i].outcome = "failed" => i = Len(legs)
            /\ \A p \in Range(legs[i].phases) : p.started
      BY <2>1, <2>4, UncrossedIs DEF HttpInv, UncrossedLegs
    <3>5. \A i \in DOMAIN legs :
            /\ legs[i].outcome = "failed" => http = "failed"
            /\ legs[i].outcome = "ok" => \E p \in Range(legs[i].phases) : p.name = "ttfb"
      BY <2>1, <3>2 DEF HttpInv, LegsAnswered, HttpReturned, Answered
    <3>6. QED BY <3>2, <3>3, <3>4, <3>5 DEF Closed
  <2>5. QED BY <2>3, <2>4 DEF LegsTellTheHops
<1>2. QED BY <1>1, HttpInductive, PTL

(* Once Do has returned its span tree stands (finish), whatever a dial     *)
(* left behind still reports.                                              *)
THEOREM TreeStands == HttpSpec => Frozen
<1>1. HttpInv /\ [HttpNext]_httpVars => (HttpReturned /\ HttpReturned' => legs' = legs)
  <2>1. SUFFICES ASSUME HttpInv, [HttpNext]_httpVars, HttpReturned, HttpReturned'
                 PROVE  legs' = legs
    OBVIOUS
  <2>2. ~ DoStep /\ ~ HttpBegin
    BY <2>1 DEF HttpReturned, DoStep, HttpBegin, GetConn, DialCallback, Dialed, TakeIdle, Write,
                Answer, Redirect, Break, EndTransfer, CloseLast, Finish
  <2>3. CASE UNCHANGED httpVars
    BY <2>3 DEF httpVars
  <2>4. CASE StrayCallback
    <3>1. PICK d \in stray : Callback(Head(d.calls))
      BY <2>4 DEF StrayCallback
    <3>2. PICK calls : calls = d.calls
      OBVIOUS
    <3>3. calls \in Seq(Call) /\ calls # <<>> /\ Paired(calls)
      BY <2>1, <3>2 DEF HttpInv, HttpTypeOK, DialsInOrder
    <3>4. PICK c \in Calls8 : c = Head(calls)
      BY <3>3, DialStep
    <3>5. recorder.done /\ HttpTypeOK
      BY <2>1 DEF HttpInv, LegsInOrder
    <3>6. QED BY <3>1, <3>2, <3>4, <3>5, CallbackDone
  <2>5. QED BY <2>1, <2>2, <2>3, <2>4 DEF HttpNext
<1>2. QED BY <1>1, HttpInductive, PTL DEF HttpSpec, Frozen

===============================================================================

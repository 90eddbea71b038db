----------------------------- MODULE Permissions -----------------------------
(***************************************************************************)
(* The permissions of one application (originator) in                      *)
(* src/src/WalletPermissionsManager.ts: the ensure methods, the queue of   *)
(* prompts, the user's answers and the permission tokens on chain.         *)
(*                                                                         *)
(* An action is the code between two awaits.  A permission request is a    *)
(* record [type, level, name, detail, amount]; it is its own key, as       *)
(* buildRequestKey distinguishes every field.  detail is the counterparty  *)
(* of a protocol or the fields of a certificate, as a set.                 *)
(***************************************************************************)
EXTENDS Integers, Sequences, FiniteSets, FiniteSetsExt

CONSTANTS
  Callers,      \* concurrent calls of the application
  Requests,     \* the permission requests its calls make
  AdminOnly,    \* those for a name reserved to the admin originator
  Manifest,     \* the grouped permissions of its manifest.json, in order
  Group,        \* the key `group:originator`
  NoToken,
  Earlier,      \* sets of permission tokens earlier sessions have left on chain
  Lifetimes,    \* bound: lifetimes the user gives a token; 0 never expires
  Limits,       \* bound: monthly amounts the user authorizes
  CacheTTL, RecentCover,  \* CACHE_TTL_MS and RECENT_GRANT_COVER_MS, in ticks
  MonthLength,
  MaxTime,      \* bound: ticks
  MaxGrants,    \* bound: permission tokens written
  MaxFaults     \* bound: chain writes that fail

Types == {"protocol", "basket", "certificate", "spending"}
Keys == Requests \cup {Group}

ASSUME RequestsAssumption ==
  /\ \A r \in Requests : r.type \in Types /\ r.amount \in Nat
  /\ Manifest \in Seq(Requests) /\ AdminOnly \subseteq Requests
  /\ Group \notin Requests

TokenType == [id : Int, of : Requests, amount : Nat, expiry : Nat]

(* A spending token carries no expiry. *)
ASSUME EarlierAssumption ==
  \A S \in Earlier : \A t \in S : t \in TokenType /\ (t.of.type = "spending" => t.expiry = 0)

ASSUME NoTokenAssumption == NoToken \notin TokenType

ASSUME TimesAssumption ==
  /\ CacheTTL \in Nat /\ RecentCover \in 0..CacheTTL /\ MonthLength \in Nat \ {0}
  /\ Lifetimes \subseteq Nat /\ Limits \subseteq Nat \ {0}
  /\ MaxTime \in Nat \ {0} /\ MaxGrants \in Nat /\ MaxFaults \in Nat

VARIABLES
  now,             \* the clock; 0 is no time, as in the code's expiry
  tokens,          \* unspent permission tokens: [id, of, expiry, amount]
  permissionCache, \* per request, [expiry, cachedAt]; cachedAt 0 is no entry
  recentGrants,    \* per request, the end of its cover window; 0 is none
  activeRequests,  \* per key, the callers its entry keeps pending
  previousToken,   \* per request, the token its entry proposes to renew
  groupAsked,      \* the permissions of the group's entry
  granting,        \* answers being written on chain
  groupTodo,       \* places in Manifest a grouped answer still writes, with ...
  groupGoing,      \* ... whether such an answer runs
  granted,         \* grants so far
  faults,          \* chain writes that failed so far
  actions,         \* the application's transactions, as listActions sees them
  pc, todo,        \* per caller: where it stands, the requests left to ensure
  seek, missing,   \* seekPermission; what a group check found missing
  held,            \* the token a lookup returned
  permittedAt      \* history: when an unexpired token last covered a request

uiVars == <<activeRequests, previousToken, groupAsked>>
chainVars == <<tokens, granting, groupTodo, groupGoing, granted, faults>>
cacheVars == <<permissionCache, recentGrants>>
callerVars == <<pc, todo, seek, missing, held>>

NoEntry == [expiry |-> 0, cachedAt |-> 0]

----------------------------------------------------------------------------
(* Tokens *)

isTokenExpired(expiry) == expiry > 0 /\ expiry < now

(* The scope of a protocol token leaves the counterparty out below level 2. *)
SameProtocol(t, r) ==
  /\ t.of.name = r.name /\ t.of.level = r.level
  /\ r.level = 2 => t.of.detail = r.detail

findProtocolToken(r) ==
  {t \in tokens : t.of.type = "protocol" /\ r.type = "protocol" /\ SameProtocol(t, r)}

findBasketToken(r) ==
  {t \in tokens : t.of.type = "basket" /\ r.type = "basket" /\ t.of.name = r.name}

(* The fields asked for are a subset of those the token names. *)
findCertificateToken(r) ==
  {t \in tokens : /\ t.of.type = "certificate" /\ r.type = "certificate"
                  /\ t.of.name = r.name /\ r.detail \subseteq t.of.detail}

findSpendingToken(r) ==
  {t \in tokens : t.of.type = "spending" /\ r.type = "spending"}

(* The first match is returned: the order of listOutputs is not fixed here. *)
Matching(r) ==
  UNION {findProtocolToken(r), findBasketToken(r), findCertificateToken(r),
         findSpendingToken(r)}

Permitted(r) == \E t \in Matching(r) : ~isTokenExpired(t.expiry)

PermissionsInit ==
  /\ now = 1 /\ granted = 0 /\ faults = 0
  /\ tokens \in Earlier /\ granting = {} /\ groupTodo = {} /\ groupGoing = FALSE
  /\ permissionCache = [r \in Requests |-> NoEntry]
  /\ recentGrants = [r \in Requests |-> 0]
  /\ permittedAt = [r \in Requests |-> IF Permitted(r) THEN now ELSE 0]
  /\ activeRequests = [k \in Keys |-> {}]
  /\ previousToken = [r \in Requests |-> NoToken]
  /\ groupAsked = {}
  /\ actions = <<>>
  /\ pc = [c \in Callers |-> "idle"]
  /\ todo = [c \in Callers |-> <<>>]
  /\ seek = [c \in Callers |-> TRUE]
  /\ missing = [c \in Callers |-> {}]
  /\ held = [c \in Callers |-> NoToken]

Month(t) == t \div MonthLength

Listed == {"unsigned", "signed"}   \* the stati of listActions that occur here

(* satoshis of an action is its change minus its inputs: negative when it  *)
(* spends.                                                                 *)
Satoshis(a) == -a.amount

querySpentSince ==
  MapThenSumSet(LAMBDA i : Satoshis(actions[i]),
                {i \in DOMAIN actions : /\ actions[i].status \in Listed
                                        /\ actions[i].month = Month(now)})

----------------------------------------------------------------------------
(* Cache *)

CacheValid_Forever(r) ==          \* mutant: the age of the entry not looked at
  permissionCache[r].cachedAt > 0 /\ ~isTokenExpired(permissionCache[r].expiry)

CacheValid(r) ==
  LET e == permissionCache[r] IN
  /\ e.cachedAt > 0
  /\ now - e.cachedAt <= CacheTTL
  /\ ~isTokenExpired(e.expiry)

(* Looking at an entry that is no longer valid deletes it. *)
isPermissionCached(r) ==
  permissionCache' = IF CacheValid(r) THEN permissionCache
                     ELSE [permissionCache EXCEPT ![r] = NoEntry]

cachePermission(r, expiry) ==
  permissionCache' = [permissionCache EXCEPT ![r] = [expiry |-> expiry, cachedAt |-> now]]

markRecentGrant(r) ==
  recentGrants' = IF r.type = "spending" THEN recentGrants
                  ELSE [recentGrants EXCEPT ![r] = now + RecentCover]

RecentValid(r) == recentGrants[r] > 0 /\ now <= recentGrants[r]

isRecentlyGranted(r) ==
  recentGrants' = IF CacheValid(r) \/ RecentValid(r) THEN recentGrants
                  ELSE [recentGrants EXCEPT ![r] = 0]

----------------------------------------------------------------------------
(* The ensure methods, for the first request in todo *)

Asking(c) == Head(todo[c])

(* The callers in P go on to their next request. *)
Allow(P) ==
  /\ todo' = [c \in Callers |-> IF c \in P THEN Tail(todo[c]) ELSE todo[c]]
  /\ pc' = [c \in Callers |-> IF c \notin P THEN pc[c]
                              ELSE IF Len(todo[c]) = 1 THEN "ensured" ELSE "ensure"]
  /\ held' = [c \in Callers |-> IF c \in P THEN NoToken ELSE held[c]]
  /\ UNCHANGED <<seek, missing>>

(* The ensure method throws.  With seekPermission=false it is one of the    *)
(* has methods, which catch the exception and return false.                *)
Refuse(c) ==
  /\ held' = [held EXCEPT ![c] = NoToken]
  /\ IF seek[c]
     THEN pc' = [pc EXCEPT ![c] = "refused"] /\ UNCHANGED <<todo, missing>>
     ELSE /\ missing' = [missing EXCEPT ![c] = @ \cup {Asking(c)}]
          /\ todo' = [todo EXCEPT ![c] = Tail(@)]
          /\ pc' = [pc EXCEPT ![c] = IF Len(todo[c]) = 1 THEN "ensured" ELSE "ensure"]
  /\ UNCHANGED seek

RefuseAdminOnly(c) ==
  /\ pc[c] = "ensure" /\ Asking(c) \in AdminOnly
  /\ Refuse(c)
  /\ UNCHANGED <<uiVars, chainVars, cacheVars, actions, now>>

(* The two synchronous checks; when neither holds the lookup starts. *)
CheckCache(c) ==
  LET r == Asking(c) IN
  /\ pc[c] = "ensure" /\ r \notin AdminOnly
  /\ isPermissionCached(r) /\ isRecentlyGranted(r)
  /\ IF CacheValid(r) \/ RecentValid(r)
     THEN Allow({c})
     ELSE pc' = [pc EXCEPT ![c] = "reading"] /\ UNCHANGED <<todo, seek, missing, held>>
  /\ UNCHANGED <<uiVars, chainVars, actions, now>>

(* listOutputs answers. *)
FindToken(c) ==
  /\ pc[c] = "reading"
  /\ \/ \E t \in Matching(Asking(c)) : held' = [held EXCEPT ![c] = t]
     \/ Matching(Asking(c)) = {} /\ UNCHANGED held
  /\ pc' = [pc EXCEPT ![c] = "deciding"]
  /\ UNCHANGED <<todo, seek, missing, uiVars, chainVars, cacheVars, actions, now>>

WithinLimit(c) == querySpentSince + Asking(c).amount <= held[c].amount

Suffices(c) ==
  /\ held[c] # NoToken
  /\ IF Asking(c).type = "spending" THEN WithinLimit(c)
     ELSE ~isTokenExpired(held[c].expiry)

TokenSuffices(c) ==
  /\ pc[c] = "deciding" /\ Suffices(c)
  /\ cachePermission(Asking(c), held[c].expiry)
  /\ Allow({c})
  /\ UNCHANGED <<uiVars, chainVars, recentGrants, actions, now>>

NoConsentAllowed(c) ==
  /\ pc[c] = "deciding" /\ ~Suffices(c) /\ ~seek[c]
  /\ Refuse(c)
  /\ UNCHANGED <<uiVars, chainVars, cacheVars, actions, now>>

(* A caller joins the entry of its key, or opens one and the prompt shows. *)
Piggybacks(k) == activeRequests[k] # {}

Joined_Opened(c, k) == [activeRequests EXCEPT ![k] = {c}]  \* mutant: always a new entry

Joined(c, k) == [activeRequests EXCEPT ![k] = @ \cup {c}]

requestPermissionFlow(c) ==
  LET r == Asking(c) IN
  /\ pc[c] = "deciding" /\ ~Suffices(c) /\ seek[c]
  /\ activeRequests' = Joined(c, r)
  /\ previousToken' = IF Piggybacks(r) THEN previousToken
                      ELSE [previousToken EXCEPT ![r] = held[c]]
  /\ pc' = [pc EXCEPT ![c] = "waiting"]
  /\ held' = [held EXCEPT ![c] = NoToken]
  /\ UNCHANGED <<todo, seek, missing, groupAsked, chainVars, cacheVars, actions, now>>

----------------------------------------------------------------------------
(* The user's answers *)

Expiry(life) == IF life = 0 THEN 0 ELSE now + life - 1

(* The token an answer writes; it renews previous unless that is NoToken.  *)
(* stage is where its writing stands.                                      *)
Write(r, life, amount, previous, grouped, stage) ==
  [id |-> granted + 1, of |-> r, amount |-> amount, expiry |-> Expiry(life),
   previous |-> previous, spends |-> {}, grouped |-> grouped, stage |-> stage]

Closed(k) == activeRequests' = [activeRequests EXCEPT ![k] = {}]

(* Every pending caller is resolved and the entry deleted before the token *)
(* is written.                                                             *)
grantEphemeral(r) ==
  /\ activeRequests[r] # {}
  /\ Allow(activeRequests[r])
  /\ Closed(r)
  /\ previousToken' = [previousToken EXCEPT ![r] = NoToken]
  /\ UNCHANGED <<groupAsked, chainVars, cacheVars, actions, now>>

grantPermission(r) ==
  /\ activeRequests[r] # {} /\ granted + Cardinality(groupTodo) < MaxGrants
  /\ Allow(activeRequests[r])
  /\ Closed(r)
  /\ previousToken' = [previousToken EXCEPT ![r] = NoToken]
  /\ \E life \in Lifetimes, amount \in IF r.type = "spending" THEN Limits ELSE {0} :
       granting' = granting \cup
         {Write(r, life, amount, previousToken[r], FALSE,
                IF previousToken[r] = NoToken THEN "create" ELSE "find")}
  /\ granted' = granted + 1
  /\ UNCHANGED <<tokens, groupAsked, groupTodo, groupGoing, faults, cacheVars, actions, now>>

(* The pending callers are rejected: their ensure method throws. *)
Rejected(P) ==
  /\ pc' = [c \in Callers |-> IF c \in P THEN "refused" ELSE pc[c]]
  /\ UNCHANGED <<todo, seek, missing, held>>

denyPermission(r) ==
  /\ activeRequests[r] # {}
  /\ Rejected(activeRequests[r])
  /\ Closed(r)
  /\ previousToken' = [previousToken EXCEPT ![r] = NoToken]
  /\ UNCHANGED <<groupAsked, chainVars, cacheVars, actions, now>>

----------------------------------------------------------------------------
(* Tokens written on chain *)

Advance(g, h) == granting' = (granting \ {g}) \cup {h}

Token(g) == [id |-> g.id, of |-> g.of, amount |-> g.amount,
             expiry |-> IF g.of.type = "spending" THEN 0 ELSE g.expiry]

(* After the write grantPermission caches the request; a grouped answer    *)
(* marks the grant only.                                                   *)
Recorded(g) ==
  /\ granting' = granting \ {g}
  /\ markRecentGrant(g.of)
  /\ IF g.grouped THEN UNCHANGED permissionCache ELSE cachePermission(g.of, g.expiry)

createPermissionOnChain(g) ==
  /\ g \in granting /\ g.stage = "create"
  /\ tokens' = tokens \cup {Token(g)}
  /\ Recorded(g)
  /\ UNCHANGED <<groupTodo, groupGoing, granted, faults>>

(* The tokens of the previous token's scope, when that is a protocol. *)
SameScope(t) ==
  IF t.of.type = "protocol"
  THEN {u \in tokens : u.of.type = "protocol" /\ SameProtocol(u, t.of)} ELSE {}

(* Several tokens are coalesced, else the previous one is spent. *)
findAllProtocolTokens(g) ==
  LET old == SameScope(g.previous) IN
  /\ g \in granting /\ g.stage = "find"
  /\ Advance(g, [g EXCEPT !.stage = "renew",
                         !.spends = IF Cardinality(old) > 1 THEN old ELSE {g.previous}])
  /\ UNCHANGED <<tokens, groupTodo, groupGoing, granted, faults, cacheVars>>

renewPermissionOnChain(g) ==
  /\ g \in granting /\ g.stage = "renew" /\ g.spends \subseteq tokens
  /\ tokens' = (tokens \ g.spends) \cup {Token(g)}
  /\ Recorded(g)
  /\ UNCHANGED <<groupTodo, groupGoing, granted, faults>>

(* The write throws: a token it spends is spent already, or the underlying *)
(* wallet fails.  Nothing is cached, and a grouped answer is given up.     *)
AlreadySpent(g) == g.stage = "renew" /\ ~(g.spends \subseteq tokens)

WriteThrows(g) ==
  /\ g \in granting
  /\ IF AlreadySpent(g) THEN UNCHANGED faults
     ELSE faults < MaxFaults /\ faults' = faults + 1
  /\ granting' = granting \ {g}
  /\ IF g.grouped THEN groupTodo' = {} /\ groupGoing' = FALSE
     ELSE UNCHANGED <<groupTodo, groupGoing>>
  /\ UNCHANGED <<tokens, granted, cacheVars>>

revokePermission(t) ==
  /\ t \in tokens
  /\ tokens' = tokens \ {t}
  /\ UNCHANGED <<granting, groupTodo, groupGoing, granted, faults, cacheVars>>

----------------------------------------------------------------------------
(* Grouped permissions *)

GroupWrite == {g \in granting : g.grouped}

(* The user grants a subset of what the entry asks; it is written in the   *)
(* order of the manifest.  The entry stays until all of it is written.     *)
grantGroupedPermission(S) ==
  /\ activeRequests[Group] # {} /\ ~groupGoing
  /\ S \subseteq groupAsked /\ granted + Cardinality(S) <= MaxGrants
  /\ groupTodo' = {i \in DOMAIN Manifest : Manifest[i] \in S}
  /\ groupGoing' = TRUE
  /\ UNCHANGED <<tokens, granting, granted, faults, cacheVars>>

WriteGrouped ==
  /\ groupGoing /\ GroupWrite = {}
  /\ \E i \in groupTodo, life \in Lifetimes :
       LET r == Manifest[i] IN
       /\ \A j \in groupTodo : i <= j
       /\ groupTodo' = groupTodo \ {i}
       /\ granting' = granting \cup
            {Write(r, life, r.amount, NoToken, TRUE,
                   IF r.type = "protocol" THEN "lookup" ELSE "create")}
  /\ granted' = granted + 1
  /\ UNCHANGED <<tokens, groupGoing, faults, cacheVars>>

LookupGrouped(g) ==
  /\ g \in granting /\ g.stage = "lookup"
  /\ \/ /\ findProtocolToken(g.of) = {}
        /\ Advance(g, [g EXCEPT !.stage = "create"])
     \/ \E t \in findProtocolToken(g.of) :
          Advance(g, [g EXCEPT !.stage = "find", !.previous = t])
  /\ UNCHANGED <<tokens, groupTodo, groupGoing, granted, faults, cacheVars>>

GroupWritten == groupGoing /\ groupTodo = {} /\ GroupWrite = {}

Released_First(P) ==              \* mutant: only one pending caller resolved
  /\ pc' = [c \in Callers |-> IF P # {} /\ c = CHOOSE x \in P : TRUE THEN "perform" ELSE pc[c]]
  /\ UNCHANGED <<todo, seek, missing, held>>

(* The callers of waitForAuthentication are released. *)
Released(P) ==
  /\ pc' = [c \in Callers |-> IF c \in P THEN "perform" ELSE pc[c]]
  /\ UNCHANGED <<todo, seek, missing, held>>

GroupAnswered ==
  /\ GroupWritten
  /\ Released(activeRequests[Group])
  /\ Closed(Group) /\ groupAsked' = {}
  /\ groupGoing' = FALSE
  /\ UNCHANGED <<previousToken, tokens, granting, groupTodo, granted, faults, cacheVars,
                 actions, now>>

denyGroupedPermission ==
  /\ activeRequests[Group] # {} /\ ~groupGoing
  /\ Rejected(activeRequests[Group])
  /\ Closed(Group) /\ groupAsked' = {}
  /\ UNCHANGED <<previousToken, chainVars, cacheVars, actions, now>>
=============================================================================

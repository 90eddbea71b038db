------------------------- MODULE PermissionsManager -------------------------
(***************************************************************************)
(* The wallet interface of WalletPermissionsManager                        *)
(* (src/src/WalletPermissionsManager.ts): which permissions each method    *)
(* ensures, in order, before it calls the underlying wallet, and the       *)
(* spending authorization of createAction, which comes after the           *)
(* underlying wallet has built the action.                                 *)
(***************************************************************************)
EXTENDS Permissions

CONSTANTS
  Calls,       \* the calls the application makes: [method, ask, labels, spends, sign]
  NoCall,
  Delegated,   \* requests for names of a P-module scheme
  Config,      \* the seek... options that are on
  MaxActions   \* bound: actions created

VARIABLES
  call,    \* the call each caller runs
  acting   \* the action it created; 0 is none

mainVars == <<now, tokens, permissionCache, recentGrants, activeRequests, previousToken,
              groupAsked, granting, groupTodo, groupGoing, granted, faults, actions,
              pc, todo, seek, missing, held>>
vars == <<mainVars, permittedAt, call, acting>>

----------------------------------------------------------------------------
(* What a method asks for.  ask is the sequence of requests for the names  *)
(* in its arguments, labels those for its labels.                          *)

(* An option that is off lets everything but reserved names through. *)
Sought(option, s) ==
  SelectSeq(s, LAMBDA r : /\ option \in Config \/ r \in AdminOnly
                          /\ ~(r.type = "protocol" /\ r.level = 0))

(* The names of a P-module scheme are left to the module. *)
NotDelegated(s) == SelectSeq(s, LAMBDA r : r \notin Delegated)

(* The first name of a P-module scheme delegates the whole call. *)
UpToDelegated(s) ==
  LET d == {i \in DOMAIN s : s[i] \in Delegated} IN
  IF d = {} THEN s ELSE SubSeq(s, 1, Min(d) - 1)

createActionNeeds(k) ==
  Sought("seekBasketInsertionPermissions", NotDelegated(k.ask))
    \o Sought("seekPermissionWhenApplyingActionLabels", k.labels)

listActionsNeeds(k) == Sought("seekPermissionWhenListingActionsByLabel", k.labels)

internalizeActionNeeds(k) == Sought("seekBasketInsertionPermissions", UpToDelegated(k.ask))

listOutputsNeeds(k) == Sought("seekBasketListingPermissions", NotDelegated(k.ask))

relinquishOutputNeeds(k) == Sought("seekBasketRemovalPermissions", NotDelegated(k.ask))

(* The protocol, unless it is delegated, then the retrieval of the        *)
(* identity key, which stands in labels here.                             *)
getPublicKeyNeeds(k) ==
  LET s == UpToDelegated(k.ask) IN
  Sought("seekPermissionsForPublicKeyRevelation", s)
    \o IF s = k.ask THEN Sought("seekPermissionsForIdentityKeyRevelation", k.labels) ELSE <<>>

revealKeyLinkageNeeds(k) == Sought("seekPermissionsForKeyLinkageRevelation", k.ask)

encryptionNeeds(k) == Sought("seekProtocolPermissionsForEncrypting", NotDelegated(k.ask))

hmacNeeds(k) == Sought("seekProtocolPermissionsForHMAC", NotDelegated(k.ask))

signatureNeeds(k) == Sought("seekProtocolPermissionsForSigning", NotDelegated(k.ask))

proveCertificateNeeds(k) == Sought("seekCertificateDisclosurePermissions", k.ask)

(* The methods that look at their option themselves. *)
MethodOption ==
  [acquireCertificate |-> "seekCertificateAcquisitionPermissions",
   listCertificates |-> "seekCertificateListingPermissions",
   relinquishCertificate |-> "seekCertificateRelinquishmentPermissions",
   discoverByIdentityKey |-> "seekPermissionsForIdentityResolution",
   discoverByAttributes |-> "seekPermissionsForIdentityResolution"]

optionNeeds(k) == IF MethodOption[k.method] \in Config THEN k.ask ELSE <<>>

Needs(k) ==
  CASE k.method = "createAction" -> createActionNeeds(k)
    [] k.method = "listActions" -> listActionsNeeds(k)
    [] k.method = "internalizeAction" -> internalizeActionNeeds(k)
    [] k.method = "listOutputs" -> listOutputsNeeds(k)
    [] k.method = "relinquishOutput" -> relinquishOutputNeeds(k)
    [] k.method = "getPublicKey" -> getPublicKeyNeeds(k)
    [] k.method = "revealKeyLinkage" -> revealKeyLinkageNeeds(k)
    [] k.method \in {"encrypt", "decrypt"} -> encryptionNeeds(k)
    [] k.method \in {"createHmac", "verifyHmac"} -> hmacNeeds(k)
    [] k.method \in {"createSignature", "verifySignature"} -> signatureNeeds(k)
    [] k.method = "proveCertificate" -> proveCertificateNeeds(k)
    [] k.method \in DOMAIN MethodOption -> optionNeeds(k)
    [] k.method = "waitForAuthentication" ->
         IF "seekGroupedPermission" \in Config THEN Manifest ELSE <<>>

SpendingRequests(k) == {r \in Requests : r.type = "spending" /\ r.amount = k.spends}

(* What the calls of the application ask for are permission requests. *)
ASSUME CallsAssumption ==
  \A k \in Calls : /\ Needs(k) \in Seq(Requests)
                   /\ k.method = "createAction" /\ k.spends > 0 => SpendingRequests(k) # {}

----------------------------------------------------------------------------

Init ==
  /\ PermissionsInit
  /\ call = [c \in Callers |-> NoCall]
  /\ acting = [c \in Callers |-> 0]

Start(c, needs, asks) ==
  /\ todo' = [todo EXCEPT ![c] = needs]
  /\ seek' = [seek EXCEPT ![c] = asks]
  /\ missing' = [missing EXCEPT ![c] = {}]
  /\ pc' = [pc EXCEPT ![c] = IF needs = <<>> THEN "ensured" ELSE "ensure"]
  /\ UNCHANGED held

Call(c, k) ==
  /\ pc[c] = "idle"
  /\ call' = [call EXCEPT ![c] = k]
  /\ Start(c, Needs(k), k.method # "waitForAuthentication")
  /\ UNCHANGED <<acting, uiVars, chainVars, cacheVars, actions, now>>

Authenticates(c) == call[c].method = "waitForAuthentication"

(* waitForAuthentication asks for what the has methods found missing. *)
GroupFlow(c) ==
  /\ pc[c] = "ensured" /\ Authenticates(c) /\ missing[c] # {}
  /\ activeRequests' = Joined(c, Group)
  /\ groupAsked' = IF Piggybacks(Group) THEN groupAsked ELSE missing[c]
  /\ pc' = [pc EXCEPT ![c] = "waiting"]
  /\ UNCHANGED <<todo, seek, missing, held, call, acting, previousToken, chainVars, cacheVars,
                 actions, now>>

Finish(c) ==
  /\ pc' = [pc EXCEPT ![c] = "idle"]
  /\ call' = [call EXCEPT ![c] = NoCall]
  /\ acting' = [acting EXCEPT ![c] = 0]
  /\ todo' = [todo EXCEPT ![c] = <<>>]
  /\ seek' = [seek EXCEPT ![c] = TRUE]
  /\ missing' = [missing EXCEPT ![c] = {}]
  /\ UNCHANGED <<held, uiVars, chainVars, cacheVars, now>>

Creates(c) == call[c].method = "createAction"

(* The call of the underlying wallet, whether it succeeds or throws. *)
Perform(c) ==
  /\ \/ pc[c] = "perform"
     \/ pc[c] = "ensured" /\ ~Creates(c) /\ ~(Authenticates(c) /\ missing[c] # {})
     \/ pc[c] = "ensured" /\ Creates(c)             \* createAction or signAction throws
  /\ Finish(c) /\ UNCHANGED actions

SpendingRequest(c) == CHOOSE r \in SpendingRequests(call[c]) : TRUE

(* The underlying wallet returns a signable transaction; its net spend     *)
(* needs an authorization.                                                 *)
createAction(c) ==
  /\ pc[c] = "ensured" /\ Creates(c) /\ acting[c] = 0 /\ Len(actions) < MaxActions
  /\ actions' = Append(actions, [amount |-> call[c].spends, month |-> Month(now),
                                 status |-> "unsigned"])
  /\ acting' = [acting EXCEPT ![c] = Len(actions) + 1]
  /\ Start(c, IF call[c].spends > 0 /\ "seekSpendingPermissions" \in Config
              THEN <<SpendingRequest(c)>> ELSE <<>>, TRUE)
  /\ UNCHANGED <<call, uiVars, chainVars, cacheVars, now>>

Settled(i, status) == actions' = [actions EXCEPT ![i].status = status]

(* Signed at once, or handed back when the caller signs itself. *)
signAction(c) ==
  /\ pc[c] = "ensured" /\ acting[c] # 0
  /\ Settled(acting[c], IF call[c].sign THEN "signed" ELSE "returned")
  /\ Finish(c)

(* The ensure method threw: the call throws, after aborting its action. *)
Throw(c) ==
  /\ pc[c] = "refused"
  /\ IF acting[c] = 0 THEN UNCHANGED actions ELSE Settled(acting[c], "failed")
  /\ Finish(c)

(* signAction and abortAction of an action the caller was handed. *)
ReturnedAction(i) ==
  /\ i \in DOMAIN actions /\ actions[i].status = "returned"
  /\ \E status \in {"signed", "failed"} : Settled(i, status)
  /\ UNCHANGED <<call, acting, callerVars, uiVars, chainVars, cacheVars, now>>

(* A tick is minutes: a lookup is answered, or a token written, within it. *)
Tick ==
  /\ now < MaxTime /\ granting = {} /\ \A c \in Callers : pc[c] # "deciding"
  /\ now' = now + 1
  /\ UNCHANGED <<call, acting, callerVars, uiVars, chainVars, cacheVars, actions>>

CallerStep(c) ==
  \/ /\ \/ RefuseAdminOnly(c) \/ CheckCache(c) \/ FindToken(c) \/ TokenSuffices(c)
        \/ NoConsentAllowed(c) \/ requestPermissionFlow(c)
     /\ UNCHANGED <<call, acting>>
  \/ GroupFlow(c) \/ Perform(c) \/ createAction(c) \/ signAction(c) \/ Throw(c)

Answer(r) ==
  /\ grantEphemeral(r) \/ grantPermission(r) \/ denyPermission(r)
  /\ UNCHANGED <<call, acting>>

GroupAnswer ==
  /\ GroupAnswered \/ denyGroupedPermission
  /\ UNCHANGED <<call, acting>>

Unasked == <<call, acting, callerVars, uiVars, actions, now>>

ChainWrite ==
  /\ \/ WriteGrouped
     \/ \E g \in granting : \/ createPermissionOnChain(g) \/ findAllProtocolTokens(g)
                             \/ renewPermissionOnChain(g) \/ WriteThrows(g)
                             \/ LookupGrouped(g)
  /\ UNCHANGED Unasked

GroupGranted ==
  /\ \E S \in SUBSET groupAsked : grantGroupedPermission(S)
  /\ UNCHANGED Unasked

Revoke == (\E t \in tokens : revokePermission(t)) /\ UNCHANGED Unasked

Step ==
  \/ \E c \in Callers : CallerStep(c) \/ \E k \in Calls : Call(c, k)
  \/ \E r \in Requests : Answer(r)
  \/ GroupAnswer
  \/ ChainWrite
  \/ GroupGranted
  \/ Revoke
  \/ \E i \in 1..MaxActions : ReturnedAction(i)
  \/ Tick

(* The history variable, in every step. *)
Watch == permittedAt' = [r \in Requests |-> IF Permitted(r)' THEN now' ELSE permittedAt[r]]

Next == Step /\ Watch

Spec == Init /\ [][Next]_vars

(* The code runs on, the chain writes settle, and the user answers every   *)
(* prompt shown.                                                           *)
FairSpec ==
  /\ Spec
  /\ \A c \in Callers : WF_vars(CallerStep(c) /\ Watch)
  /\ \A r \in Requests : WF_vars(Answer(r) /\ Watch)
  /\ WF_vars(GroupAnswer /\ Watch)
  /\ WF_vars(ChainWrite /\ Watch)

----------------------------------------------------------------------------
(* Properties *)

CallerPc == {"idle", "ensure", "reading", "deciding", "waiting", "ensured", "refused", "perform"}

Stages == {"create", "find", "renew", "lookup"}

WriteType ==
  [id : Nat, of : Requests, amount : Nat, expiry : Nat, previous : TokenType \cup {NoToken},
   spends : SUBSET TokenType, grouped : BOOLEAN, stage : Stages]

(* The values of the variables: tokens and cache entries are well formed,  *)
(* and a caller in the middle of its ensure methods has a request left.    *)
TypeOK ==
  /\ now \in Nat \ {0}
  /\ \A t \in tokens : t \in TokenType
  /\ \A g \in granting : g \in WriteType /\ (g.stage = "find" => g.previous # NoToken)
  /\ permissionCache \in [Requests -> [expiry : Nat, cachedAt : Nat]]
  /\ recentGrants \in [Requests -> Nat]
  /\ permittedAt \in [Requests -> Nat]
  /\ activeRequests \in [Keys -> SUBSET Callers]
  /\ previousToken \in [Requests -> TokenType \cup {NoToken}]
  /\ groupAsked \subseteq Requests
  /\ groupTodo \subseteq DOMAIN Manifest /\ groupGoing \in BOOLEAN
  /\ granted \in Nat /\ faults \in Nat
  /\ pc \in [Callers -> CallerPc]
  /\ todo \in [Callers -> Seq(Requests)]
  /\ \A c \in Callers : pc[c] \in {"ensure", "reading", "deciding"} => todo[c] # <<>>
  /\ call \in [Callers -> Calls \cup {NoCall}]
  /\ seek \in [Callers -> BOOLEAN] /\ missing \in [Callers -> SUBSET Requests]
  /\ held \in [Callers -> TokenType \cup {NoToken}]

(* A caller waits exactly when one entry of activeRequests keeps it        *)
(* pending, so no answer, deletion or new prompt loses a waiting call.     *)
NobodyForgotten ==
  \A c \in Callers :
    LET entries == {k \in Keys : c \in activeRequests[k]} IN
    IF pc[c] = "waiting" THEN Cardinality(entries) = 1 ELSE entries = {}

(* A call goes on without the user only if an unexpired token covered its  *)
(* request no longer ago than the lifetime of a cache entry: a revoked,    *)
(* renewed or expired permission is used for that long at most, whatever   *)
(* lookups, answers and revocations overlap.                               *)
LetThrough(c) ==
  /\ pc[c] \in {"ensure", "deciding"}
  /\ todo'[c] # todo[c] /\ Asking(c) \notin missing'[c]

PermissionIsFresh ==
  [][\A c \in Callers : LetThrough(c) => now <= permittedAt[Asking(c)] + CacheTTL]_vars

(* Every call of the application ends: whoever waits for the user is       *)
(* answered, once, and no answer, grouped or not, leaves a caller behind.  *)
CallEnds == \A c \in Callers : pc[c] # "idle" ~> pc[c] = "idle"
=============================================================================

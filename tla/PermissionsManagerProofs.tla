---------------------- MODULE PermissionsManagerProofs ----------------------
(***************************************************************************)
(* Whatever calls an application makes, and whatever the user answers, no  *)
(* call is lost among the prompts, and none goes on by a permission the    *)
(* user has not given or that has ended longer ago than a cache entry      *)
(* lasts.                                                                  *)
(***************************************************************************)
EXTENDS PermissionsManager, FiniteSetTheorems, SequenceTheorems, TLAPS

Ensuring == {"ensure", "reading", "deciding"}

(* The parts of TypeOK: callers, tokens, times and prompts.  A token is     *)
(* held only while it decides.                                             *)
CallerTypes ==
  /\ pc \in [Callers -> CallerPc]
  /\ todo \in [Callers -> Seq(Requests)]
  /\ \A c \in Callers : pc[c] \in Ensuring => todo[c] # <<>>
  /\ seek \in [Callers -> BOOLEAN] /\ missing \in [Callers -> SUBSET Requests]
  /\ held \in [Callers -> TokenType \cup {NoToken}]
  /\ \A c \in Callers : pc[c] # "deciding" => held[c] = NoToken
  /\ call \in [Callers -> Calls \cup {NoCall}]

ChainTypes ==
  /\ \A t \in tokens : t \in TokenType
  /\ \A g \in granting : g \in WriteType /\ (g.stage = "find" => g.previous # NoToken)
  /\ previousToken \in [Requests -> TokenType \cup {NoToken}]
  /\ groupTodo \subseteq DOMAIN Manifest /\ groupGoing \in BOOLEAN
  /\ granted \in Nat /\ faults \in Nat

TimeTypes ==
  /\ now \in Nat \ {0}
  /\ permissionCache \in [Requests -> [expiry : Nat, cachedAt : Nat]]
  /\ recentGrants \in [Requests -> Nat]
  /\ permittedAt \in [Requests -> Nat]

PromptTypes ==
  /\ activeRequests \in [Keys -> SUBSET Callers]
  /\ groupAsked \subseteq Requests

(* The entries of a caller: one if it waits, else none. *)
OneEntry(c) ==
  IF pc[c] = "waiting"
  THEN \E k \in Keys : /\ c \in activeRequests[k]
                       /\ \A j \in Keys : c \in activeRequests[j] => j = k
  ELSE \A k \in Keys : c \notin activeRequests[k]

(* Who waits for a permission still has its request to ensure. *)
PromptsHeld ==
  /\ \A c \in Callers : OneEntry(c)
  /\ \A r \in Requests : \A c \in activeRequests[r] : todo[c] # <<>>
  /\ \A c \in Callers : pc[c] # "idle" => call[c] \in Calls

CallerInv == CallerTypes /\ PromptTypes /\ PromptsHeld

----------------------------------------------------------------------------
(* Sequences of requests *)

LEMMA TailsOfRequests ==
  ASSUME NEW s \in Seq(Requests), s # <<>>
  PROVE  /\ Head(s) \in Requests /\ Tail(s) \in Seq(Requests)
         /\ Len(s) # 1 => Tail(s) # <<>>
         /\ Tail(s) # s
<1>1. Len(s) \in Nat /\ Len(s) # 0
  BY EmptySeq, LenProperties
<1>2. /\ Head(s) \in Requests /\ Tail(s) \in Seq(Requests)
      /\ Len(Tail(s)) = Len(s) - 1
  BY HeadTailProperties
<1>3. Tail(s) # s
  <2> SUFFICES Len(Tail(s)) # Len(s)
    OBVIOUS
  <2> DEFINE n == Len(s)
             m == Len(Tail(s))
  <2>1. n \in Nat /\ m = n - 1
    BY <1>1, <1>2
  <2> HIDE DEF n, m
  <2>2. m # n
    BY <2>1
  <2> QED
    BY <2>2 DEF n, m
<1>4. Len(s) # 1 => Tail(s) # <<>>
  BY <1>1, <1>2, EmptySeq
<1> QED
  BY <1>2, <1>3, <1>4

(* The request a caller ensures is one of the application's. *)
LEMMA AskingIsRequest ==
  ASSUME CallerTypes, NEW c \in Callers, pc[c] \in Ensuring \/ todo[c] # <<>>
  PROVE  Asking(c) \in Requests /\ Tail(todo[c]) \in Seq(Requests) /\ Tail(todo[c]) # todo[c]
BY TailsOfRequests DEF CallerTypes, Asking

(* Allow takes each of P to its next request or past its last one. *)
LEMMA AllowMoves ==
  ASSUME CallerTypes, NEW P \in SUBSET Callers, \A c \in P : todo[c] # <<>>, Allow(P),
         UNCHANGED call
  PROVE  /\ CallerTypes'
         /\ \A c \in Callers : IF c \in P THEN pc'[c] \in {"ensure", "ensured"}
                               ELSE pc'[c] = pc[c] /\ todo'[c] = todo[c]
<1>1. \A c \in P : Tail(todo[c]) \in Seq(Requests) /\ (Len(todo[c]) # 1 => Tail(todo[c]) # <<>>)
  BY TailsOfRequests DEF CallerTypes
<1>2. \A c \in Callers :
        /\ todo'[c] = IF c \in P THEN Tail(todo[c]) ELSE todo[c]
        /\ pc'[c] = IF c \notin P THEN pc[c] ELSE IF Len(todo[c]) = 1 THEN "ensured" ELSE "ensure"
  BY DEF Allow
<1>3. pc' \in [Callers -> CallerPc] /\ todo' \in [Callers -> Seq(Requests)]
  BY <1>1 DEF Allow, CallerTypes, CallerPc
<1>4. \A c \in Callers : pc'[c] \in Ensuring => todo'[c] # <<>>
  BY <1>1, <1>2 DEF CallerTypes, Ensuring
<1>5. /\ seek' \in [Callers -> BOOLEAN] /\ missing' \in [Callers -> SUBSET Requests]
      /\ held' \in [Callers -> TokenType \cup {NoToken}]
      /\ call' \in [Callers -> Calls \cup {NoCall}]
  BY DEF Allow, CallerTypes
<1>6. \A c \in Callers : pc'[c] # "deciding" => held'[c] = NoToken
  BY <1>2 DEF Allow, CallerTypes
<1> QED
  BY <1>2, <1>3, <1>4, <1>5, <1>6 DEF CallerTypes

(* Refuse ends the call, or a group check notes the request as missing. *)
LEMMA RefuseMoves ==
  ASSUME CallerTypes, NEW c \in Callers, pc[c] \in Ensuring, Refuse(c), UNCHANGED call
  PROVE  /\ CallerTypes'
         /\ pc'[c] \in {"ensure", "ensured", "refused"}
         /\ \A d \in Callers \ {c} : pc'[d] = pc[d] /\ todo'[d] = todo[d]
         /\ todo'[c] = todo[c] \/ Asking(c) \in missing'[c]
<1>1. todo[c] \in Seq(Requests) /\ todo[c] # <<>>
  BY DEF CallerTypes
<1>2. /\ Asking(c) \in Requests /\ Tail(todo[c]) \in Seq(Requests)
      /\ Len(todo[c]) # 1 => Tail(todo[c]) # <<>>
  BY <1>1, TailsOfRequests DEF Asking
<1>3. CASE seek[c]
  BY <1>3 DEF Refuse, CallerTypes, CallerPc, Ensuring
<1>4. CASE ~seek[c]
  <2>1. /\ missing' = [missing EXCEPT ![c] = @ \cup {Asking(c)}]
        /\ todo' = [todo EXCEPT ![c] = Tail(@)]
        /\ pc' = [pc EXCEPT ![c] = IF Len(todo[c]) = 1 THEN "ensured" ELSE "ensure"]
        /\ held' = [held EXCEPT ![c] = NoToken] /\ UNCHANGED seek
    BY <1>4 DEF Refuse
  <2> QED
    BY <2>1, <1>2 DEF CallerTypes, CallerPc, Ensuring
<1> QED
  BY <1>3, <1>4

----------------------------------------------------------------------------
(* Callers and prompts *)

LEMMA InitCallerInv == Init => CallerInv
<1> SUFFICES ASSUME Init PROVE CallerInv
  OBVIOUS
<1>1. CallerTypes
  BY DEF Init, PermissionsInit, CallerTypes, CallerPc, Ensuring
<1>2. PromptTypes /\ PromptsHeld
  BY DEF Init, PermissionsInit, PromptTypes, PromptsHeld, OneEntry, Keys
<1> QED
  BY <1>1, <1>2 DEF CallerInv

(* A step of one caller that neither opens nor joins an entry. *)
LEMMA CallerMoves ==
  ASSUME CallerInv, CallerTypes', NEW c \in Callers, pc[c] # "waiting", pc'[c] # "waiting",
         \A d \in Callers \ {c} : pc'[d] = pc[d] /\ todo'[d] = todo[d] /\ call'[d] = call[d],
         pc'[c] # "idle" => call'[c] \in Calls, UNCHANGED uiVars
  PROVE  CallerInv'
<1>1. PromptTypes'
  BY DEF CallerInv, PromptTypes, uiVars
<1>2. \A d \in Callers : OneEntry(d)'
  BY DEF CallerInv, PromptsHeld, OneEntry, uiVars
<1>3. \A r \in Requests : \A d \in activeRequests'[r] : todo'[d] # <<>>
  <2> SUFFICES ASSUME NEW r \in Requests, NEW d \in activeRequests[r]
               PROVE  todo'[d] # <<>>
    BY DEF uiVars
  <2>1. r \in Keys /\ d \in Callers
    BY DEF Keys, CallerInv, PromptTypes
  <2>2. d # c
    BY <2>1 DEF CallerInv, PromptsHeld, OneEntry
  <2> QED
    BY <2>1, <2>2 DEF CallerInv, PromptsHeld
<1>4. \A d \in Callers : pc'[d] # "idle" => call'[d] \in Calls
  BY DEF CallerInv, PromptsHeld
<1> QED
  BY <1>1, <1>2, <1>3, <1>4 DEF CallerInv, PromptsHeld

(* A caller joins the entry of a key, or opens it. *)
LEMMA CallerJoins ==
  ASSUME CallerInv, NEW c \in Callers, pc[c] # "waiting", NEW k \in Keys,
         activeRequests' = Joined(c, k), pc' = [pc EXCEPT ![c] = "waiting"],
         pc[c] # "idle", k \in Requests => todo[c] # <<>>, groupAsked' \subseteq Requests,
         held' = [held EXCEPT ![c] = NoToken], UNCHANGED <<todo, seek, missing, call>>
  PROVE  CallerInv'
<1>1. PromptTypes' /\ CallerTypes'
  BY DEF CallerInv, PromptTypes, CallerTypes, Joined, CallerPc, Ensuring
<1>2. \A j \in Keys : activeRequests'[j] = IF j = k THEN activeRequests[j] \cup {c}
                                           ELSE activeRequests[j]
  BY DEF CallerInv, PromptTypes, Joined
<1>3. \A d \in Callers : pc'[d] = IF d = c THEN "waiting" ELSE pc[d]
  BY DEF CallerInv, CallerTypes
<1>4. \A d \in Callers : OneEntry(d)'
  <2> SUFFICES ASSUME NEW d \in Callers PROVE OneEntry(d)'
    OBVIOUS
  <2>0. OneEntry(d)
    BY DEF CallerInv, PromptsHeld
  <2>1. CASE d = c
    BY <2>0, <2>1, <1>2, <1>3 DEF OneEntry
  <2>2. CASE d # c /\ pc[d] = "waiting"
    <3>1. PICK i \in Keys : d \in activeRequests[i] /\ \A j \in Keys : d \in activeRequests[j] => j = i
      BY <2>0, <2>2 DEF OneEntry
    <3>2. \A j \in Keys : d \in activeRequests'[j] <=> d \in activeRequests[j]
      BY <2>2, <1>2
    <3> QED
      BY <3>1, <3>2, <2>2, <1>3 DEF OneEntry
  <2>3. CASE d # c /\ pc[d] # "waiting"
    BY <2>0, <2>3, <1>2, <1>3 DEF OneEntry
  <2> QED
    BY <2>1, <2>2, <2>3
<1>5. \A r \in Requests : \A d \in activeRequests'[r] : todo'[d] # <<>>
  BY <1>2 DEF CallerInv, PromptsHeld, Keys
<1>6. \A d \in Callers : pc'[d] # "idle" => call'[d] \in Calls
  BY <1>3 DEF CallerInv, PromptsHeld
<1> QED
  BY <1>1, <1>4, <1>5, <1>6 DEF CallerInv, PromptsHeld

(* An entry is closed and everyone it kept pending goes on. *)
LEMMA EntryCloses ==
  ASSUME CallerInv, NEW k \in Keys, Closed(k), CallerTypes', UNCHANGED call,
         groupAsked' \subseteq Requests,
         \A c \in Callers : IF c \in activeRequests[k] THEN pc'[c] # "waiting"
                            ELSE pc'[c] = pc[c] /\ todo'[c] = todo[c]
  PROVE  CallerInv'
<1>1. PromptTypes'
  BY DEF CallerInv, PromptTypes, Closed
<1>2. \A j \in Keys : activeRequests'[j] = IF j = k THEN {} ELSE activeRequests[j]
  BY DEF CallerInv, PromptTypes, Closed
<1>3. \A c \in activeRequests[k] :
        c \in Callers /\ pc[c] = "waiting" /\ \A j \in Keys : c \in activeRequests[j] => j = k
  BY DEF CallerInv, PromptTypes, PromptsHeld, OneEntry
<1>4. \A c \in Callers : OneEntry(c)'
  <2> SUFFICES ASSUME NEW c \in Callers PROVE OneEntry(c)'
    OBVIOUS
  <2>0. OneEntry(c)
    BY DEF CallerInv, PromptsHeld
  <2>1. CASE c \in activeRequests[k]
    BY <2>1, <1>2, <1>3 DEF OneEntry
  <2>2. CASE c \notin activeRequests[k] /\ pc[c] = "waiting"
    <3>1. PICK j \in Keys : c \in activeRequests[j] /\ \A i \in Keys : c \in activeRequests[i] => i = j
      BY <2>0, <2>2 DEF OneEntry
    <3> QED
      BY <3>1, <2>2, <1>2 DEF OneEntry
  <2>3. CASE c \notin activeRequests[k] /\ pc[c] # "waiting"
    BY <2>0, <2>3, <1>2 DEF OneEntry
  <2> QED
    BY <2>1, <2>2, <2>3
<1>5. \A r \in Requests : \A c \in activeRequests'[r] : todo'[c] # <<>>
  <2> SUFFICES ASSUME NEW r \in Requests, NEW c \in activeRequests'[r]
               PROVE  todo'[c] # <<>>
    OBVIOUS
  <2>1. r \in Keys /\ r # k /\ c \in activeRequests[r] /\ c \in Callers
    BY <1>2 DEF Keys, CallerInv, PromptTypes
  <2>2. c \notin activeRequests[k]
    BY <2>1, <1>3
  <2> QED
    BY <2>1, <2>2 DEF CallerInv, PromptsHeld
<1>6. \A c \in Callers : pc'[c] # "idle" => call'[c] \in Calls
  BY <1>3 DEF CallerInv, PromptsHeld
<1> QED
  BY <1>1, <1>4, <1>5, <1>6 DEF CallerInv, PromptsHeld

LEMMA EnsureKeepsCallers ==
  ASSUME CallerInv, ChainTypes, NEW c \in Callers, UNCHANGED call,
         \/ RefuseAdminOnly(c) \/ CheckCache(c) \/ FindToken(c) \/ TokenSuffices(c)
         \/ NoConsentAllowed(c) \/ requestPermissionFlow(c)
  PROVE  CallerInv'
<1> USE DEF CallerInv
<1>0. \A d \in Callers : pc[d] # "idle" => call[d] \in Calls
  BY DEF PromptsHeld
<1>1. CASE RefuseAdminOnly(c)
  <2>1. pc[c] = "ensure" /\ Refuse(c) /\ UNCHANGED uiVars
    BY <1>1 DEF RefuseAdminOnly
  <2> QED
    BY <1>0, <2>1, RefuseMoves, CallerMoves DEF Ensuring
<1>2. CASE CheckCache(c)
  <2>1. pc[c] = "ensure" /\ UNCHANGED uiVars /\ todo[c] # <<>>
    BY <1>2 DEF CheckCache, CallerTypes, Ensuring
  <2>2. CASE Allow({c})
    <3>1. CallerTypes' /\ pc'[c] \in {"ensure", "ensured"}
          /\ \A d \in Callers \ {c} : pc'[d] = pc[d] /\ todo'[d] = todo[d]
      BY <2>1, <2>2, AllowMoves
    <3> QED
      BY <1>0, <2>1, <3>1, CallerMoves
  <2>3. CASE pc' = [pc EXCEPT ![c] = "reading"] /\ UNCHANGED <<todo, seek, missing, held>>
    <3>1. CallerTypes' /\ pc'[c] = "reading" /\ \A d \in Callers \ {c} : pc'[d] = pc[d]
      BY <2>1, <2>3 DEF CallerTypes, CallerPc, Ensuring
    <3> QED
      BY <1>0, <2>1, <2>3, <3>1, CallerMoves
  <2> QED
    BY <1>2, <2>2, <2>3 DEF CheckCache
<1>3. CASE FindToken(c)
  <2>1. /\ pc[c] = "reading" /\ pc' = [pc EXCEPT ![c] = "deciding"]
        /\ UNCHANGED <<todo, seek, missing>> /\ UNCHANGED uiVars
    BY <1>3 DEF FindToken
  <2>2. \A t \in Matching(Asking(c)) : t \in TokenType
    BY DEF Matching, findProtocolToken, findBasketToken, findCertificateToken,
           findSpendingToken, ChainTypes
  <2>3. /\ held' \in [Callers -> TokenType \cup {NoToken}]
        /\ \A d \in Callers \ {c} : held'[d] = held[d]
    <3>1. CASE UNCHANGED held
      BY <3>1 DEF CallerTypes
    <3>2. ASSUME NEW t \in Matching(Asking(c)), held' = [held EXCEPT ![c] = t]
          PROVE  /\ held' \in [Callers -> TokenType \cup {NoToken}]
                 /\ \A d \in Callers \ {c} : held'[d] = held[d]
      BY <2>2, <3>2 DEF CallerTypes
    <3> QED
      BY <1>3, <3>1, <3>2 DEF FindToken
  <2>4. CallerTypes' /\ pc'[c] = "deciding" /\ \A d \in Callers \ {c} : pc'[d] = pc[d]
    BY <2>1, <2>3 DEF CallerTypes, CallerPc, Ensuring
  <2> QED
    BY <1>0, <2>1, <2>4, CallerMoves
<1>4. CASE TokenSuffices(c)
  <2>1. pc[c] = "deciding" /\ UNCHANGED uiVars /\ todo[c] # <<>> /\ Allow({c})
    BY <1>4 DEF TokenSuffices, CallerTypes, Ensuring
  <2>2. CallerTypes' /\ pc'[c] \in {"ensure", "ensured"}
        /\ \A d \in Callers \ {c} : pc'[d] = pc[d] /\ todo'[d] = todo[d]
    BY <2>1, AllowMoves
  <2> QED
    BY <1>0, <2>1, <2>2, CallerMoves
<1>5. CASE NoConsentAllowed(c)
  <2>1. pc[c] = "deciding" /\ Refuse(c) /\ UNCHANGED uiVars
    BY <1>5 DEF NoConsentAllowed
  <2> QED
    BY <1>0, <2>1, RefuseMoves, CallerMoves DEF Ensuring
<1>6. CASE requestPermissionFlow(c)
  <2>1. /\ pc[c] = "deciding" /\ activeRequests' = Joined(c, Asking(c))
        /\ pc' = [pc EXCEPT ![c] = "waiting"] /\ held' = [held EXCEPT ![c] = NoToken]
        /\ UNCHANGED <<todo, seek, missing, groupAsked>>
    BY <1>6 DEF requestPermissionFlow
  <2>2. Asking(c) \in Keys /\ todo[c] # <<>>
    BY <2>1, AskingIsRequest DEF Keys, CallerTypes, Ensuring
  <2>3. groupAsked' \subseteq Requests
    BY <2>1 DEF PromptTypes
  <2> QED
    BY <2>1, <2>2, <2>3, CallerJoins
<1> QED
  BY <1>1, <1>2, <1>3, <1>4, <1>5, <1>6

LEMMA FinishKeepsCallers ==
  ASSUME CallerInv, NEW c \in Callers, pc[c] \notin {"waiting", "deciding"}, Finish(c)
  PROVE  CallerInv'
<1>1. /\ pc' = [pc EXCEPT ![c] = "idle"] /\ call' = [call EXCEPT ![c] = NoCall]
      /\ todo' = [todo EXCEPT ![c] = <<>>] /\ seek' = [seek EXCEPT ![c] = TRUE]
      /\ missing' = [missing EXCEPT ![c] = {}] /\ UNCHANGED held /\ UNCHANGED uiVars
  BY DEF Finish
<1>2. CallerTypes'
  BY <1>1 DEF CallerInv, CallerTypes, CallerPc, Ensuring
<1>3. /\ pc'[c] = "idle"
      /\ \A d \in Callers \ {c} : pc'[d] = pc[d] /\ todo'[d] = todo[d] /\ call'[d] = call[d]
  BY <1>1 DEF CallerInv, CallerTypes
<1> QED
  BY <1>1, <1>2, <1>3, CallerMoves

LEMMA StartKeepsCallers ==
  ASSUME CallerInv, NEW c \in Callers, pc[c] \notin {"waiting", "deciding"},
         NEW needs \in Seq(Requests), NEW asks \in BOOLEAN, NEW k \in Calls,
         Start(c, needs, asks), call' = [call EXCEPT ![c] = k], UNCHANGED uiVars
  PROVE  CallerInv'
<1>1. /\ todo' = [todo EXCEPT ![c] = needs] /\ seek' = [seek EXCEPT ![c] = asks]
      /\ missing' = [missing EXCEPT ![c] = {}] /\ UNCHANGED held
      /\ pc' = [pc EXCEPT ![c] = IF needs = <<>> THEN "ensured" ELSE "ensure"]
  BY DEF Start
<1>2. CallerTypes'
  BY <1>1 DEF CallerInv, CallerTypes, CallerPc, Ensuring
<1>3. /\ pc'[c] # "waiting" /\ call'[c] = k
      /\ \A d \in Callers \ {c} : pc'[d] = pc[d] /\ todo'[d] = todo[d] /\ call'[d] = call[d]
  BY <1>1 DEF CallerInv, CallerTypes
<1> QED
  BY <1>2, <1>3, CallerMoves

LEMMA CallKeepsCallers ==
  ASSUME CallerInv, NEW c \in Callers,
         \/ GroupFlow(c) \/ Perform(c) \/ createAction(c) \/ signAction(c) \/ Throw(c)
         \/ \E k \in Calls : Call(c, k)
  PROVE  CallerInv'
<1>1. CASE GroupFlow(c)
  <2>1. /\ pc[c] = "ensured" /\ activeRequests' = Joined(c, Group)
        /\ groupAsked' = IF Piggybacks(Group) THEN groupAsked ELSE missing[c]
        /\ pc' = [pc EXCEPT ![c] = "waiting"] /\ UNCHANGED <<todo, seek, missing, held, call>>
    BY <1>1 DEF GroupFlow
  <2>2. Group \in Keys /\ Group \notin Requests
    BY RequestsAssumption DEF Keys
  <2>3. groupAsked' \subseteq Requests /\ held' = [held EXCEPT ![c] = NoToken]
    BY <2>1 DEF CallerInv, CallerTypes, PromptTypes
  <2> QED
    BY <2>1, <2>2, <2>3, CallerJoins
<1>2. CASE Perform(c) \/ signAction(c) \/ Throw(c)
  BY <1>2, FinishKeepsCallers DEF Perform, signAction, Throw
<1>3. CASE createAction(c)
  <2> DEFINE needs == IF call[c].spends > 0 /\ "seekSpendingPermissions" \in Config
                      THEN <<SpendingRequest(c)>> ELSE <<>>
  <2>1. /\ pc[c] = "ensured" /\ Creates(c) /\ Start(c, needs, TRUE)
        /\ UNCHANGED call /\ UNCHANGED uiVars
    BY <1>3 DEF createAction
  <2>2. call[c] \in Calls /\ call' = [call EXCEPT ![c] = call[c]]
    BY <2>1 DEF CallerInv, PromptsHeld, CallerTypes
  <2>3. ASSUME call[c].spends > 0 PROVE SpendingRequest(c) \in Requests
    BY <2>1, <2>2, <2>3, CallsAssumption DEF SpendingRequest, SpendingRequests, Creates
  <2>4. needs \in Seq(Requests)
    BY <2>3
  <2> QED
    BY <2>1, <2>2, <2>4, StartKeepsCallers
<1>4. ASSUME NEW k \in Calls, Call(c, k) PROVE CallerInv'
  <2>1. /\ pc[c] = "idle" /\ Start(c, Needs(k), k.method # "waitForAuthentication")
        /\ call' = [call EXCEPT ![c] = k] /\ UNCHANGED uiVars
    BY <1>4 DEF Call
  <2>2. Needs(k) \in Seq(Requests)
    BY CallsAssumption
  <2> QED
    BY <2>1, <2>2, StartKeepsCallers
<1> QED
  BY <1>1, <1>2, <1>3, <1>4

LEMMA AnswerKeepsCallers ==
  ASSUME CallerInv, UNCHANGED call,
         (\E r \in Requests : grantEphemeral(r) \/ grantPermission(r) \/ denyPermission(r))
         \/ GroupAnswered \/ denyGroupedPermission
  PROVE  CallerInv'
<1> USE DEF CallerInv
<1>1. ASSUME NEW k \in Keys, Rejected(activeRequests[k]) \/ Released(activeRequests[k]),
             Closed(k), groupAsked' \subseteq Requests
      PROVE  CallerInv'
  <2>1. /\ \A c \in Callers : c \notin activeRequests[k] => pc'[c] = pc[c]
        /\ \A c \in activeRequests[k] : pc'[c] \in {"refused", "perform"}
        /\ pc' \in [Callers -> CallerPc] /\ UNCHANGED <<todo, seek, missing, held>>
    BY <1>1 DEF Rejected, Released, CallerTypes, CallerPc, PromptTypes
  <2>2. \A c \in activeRequests[k] : pc[c] = "waiting"
    BY DEF PromptTypes, PromptsHeld, OneEntry
  <2>3. CallerTypes'
    BY <2>1, <2>2 DEF CallerTypes, Ensuring
  <2> QED
    BY <1>1, <2>1, <2>3, EntryCloses
<1>2. ASSUME NEW r \in Requests, grantEphemeral(r) \/ grantPermission(r) PROVE CallerInv'
  <2>1. /\ Allow(activeRequests[r]) /\ Closed(r) /\ UNCHANGED groupAsked /\ r \in Keys
    BY <1>2 DEF grantEphemeral, grantPermission, Keys
  <2>2. activeRequests[r] \in SUBSET Callers /\ \A c \in activeRequests[r] : todo[c] # <<>>
    BY <2>1 DEF PromptTypes, PromptsHeld
  <2>3. /\ CallerTypes'
        /\ \A c \in Callers : IF c \in activeRequests[r] THEN pc'[c] \in {"ensure", "ensured"}
                              ELSE pc'[c] = pc[c] /\ todo'[c] = todo[c]
    BY <2>1, <2>2, AllowMoves
  <2> QED
    BY <2>1, <2>3, EntryCloses DEF PromptTypes
<1>3. ASSUME NEW r \in Requests, denyPermission(r) PROVE CallerInv'
  BY <1>1, <1>3 DEF denyPermission, Keys, PromptTypes
<1>4. CASE GroupAnswered \/ denyGroupedPermission
  BY <1>1, <1>4 DEF GroupAnswered, denyGroupedPermission, Keys
<1> QED
  BY <1>2, <1>3, <1>4

LEMMA RestKeepsCallers ==
  ASSUME CallerInv,
         \/ ChainWrite \/ GroupGranted \/ Revoke \/ Tick
         \/ \E i \in 1..MaxActions : ReturnedAction(i)
         \/ UNCHANGED vars
  PROVE  CallerInv'
<1>1. UNCHANGED <<call, callerVars, uiVars>>
  BY DEF ChainWrite, GroupGranted, Revoke, Tick, ReturnedAction, Unasked, vars, mainVars,
         callerVars, uiVars
<1> QED
  BY <1>1 DEF CallerInv, CallerTypes, PromptTypes, PromptsHeld, OneEntry, callerVars, uiVars

----------------------------------------------------------------------------
(* Tokens *)

(* What is written, and what a write spends, are tokens. *)
LEMMA InitChainTypes == Init => ChainTypes
<1> SUFFICES ASSUME Init PROVE ChainTypes
  OBVIOUS
<1>1. /\ tokens \in Earlier /\ granting = {} /\ groupTodo = {} /\ groupGoing = FALSE
      /\ previousToken = [r \in Requests |-> NoToken] /\ granted = 0 /\ faults = 0
  BY DEF Init, PermissionsInit
<1>2. \A t \in tokens : t \in TokenType
  BY <1>1, EarlierAssumption
<1> QED
  BY <1>1, <1>2 DEF ChainTypes

LEMMA WritesAreTyped ==
  ASSUME ChainTypes, TimeTypes, NEW r \in Requests, NEW life \in Lifetimes, NEW amount \in Nat,
         NEW previous \in TokenType \cup {NoToken}, NEW grouped \in BOOLEAN, NEW stage \in Stages
  PROVE  Write(r, life, amount, previous, grouped, stage) \in WriteType
<1>1. Expiry(life) \in Nat
  BY TimesAssumption DEF Expiry, TimeTypes
<1> QED
  BY <1>1 DEF Write, WriteType, ChainTypes

LEMMA FoundAreTokens ==
  ASSUME ChainTypes, NEW r
  PROVE  Matching(r) \subseteq TokenType /\ findProtocolToken(r) \subseteq TokenType
BY DEF Matching, findProtocolToken, findBasketToken, findCertificateToken, findSpendingToken,
       ChainTypes

LEMMA StepKeepsChain ==
  ASSUME CallerInv, ChainTypes, TimeTypes, [Next]_vars
  PROVE  ChainTypes'
<1>1. CASE UNCHANGED <<chainVars, previousToken>>
  BY <1>1 DEF ChainTypes, chainVars
<1>2. ASSUME NEW c \in Callers,
             CallerStep(c) \/ \E k \in Calls : Call(c, k)
      PROVE  ChainTypes'
  <2>1. UNCHANGED chainVars /\ (UNCHANGED previousToken \/ requestPermissionFlow(c))
    <3>1. CASE \/ RefuseAdminOnly(c) \/ CheckCache(c) \/ FindToken(c) \/ TokenSuffices(c)
               \/ NoConsentAllowed(c) \/ requestPermissionFlow(c)
      BY <3>1 DEF RefuseAdminOnly, CheckCache, FindToken, TokenSuffices, NoConsentAllowed,
                  requestPermissionFlow, uiVars
    <3>2. CASE GroupFlow(c) \/ createAction(c) \/ \E k \in Calls : Call(c, k)
      BY <3>2 DEF GroupFlow, createAction, Call, uiVars
    <3>3. CASE Perform(c) \/ signAction(c) \/ Throw(c)
      BY <3>3 DEF Perform, signAction, Throw, Finish, uiVars
    <3> QED
      BY <1>2, <3>1, <3>2, <3>3 DEF CallerStep
  <2>2. CASE requestPermissionFlow(c)
    BY <2>1, <2>2 DEF requestPermissionFlow, CallerInv, CallerTypes, ChainTypes, chainVars
  <2> QED
    BY <2>1, <2>2, <1>1
<1>3. ASSUME NEW r \in Requests, Answer(r) PROVE ChainTypes'
  <2>1. previousToken' = [previousToken EXCEPT ![r] = NoToken]
    BY <1>3 DEF Answer, grantEphemeral, grantPermission, denyPermission
  <2>2. previousToken' \in [Requests -> TokenType \cup {NoToken}]
    BY <2>1 DEF ChainTypes
  <2>3. CASE UNCHANGED chainVars
    BY <2>2, <2>3 DEF ChainTypes, chainVars
  <2>4. CASE grantPermission(r)
    <3> DEFINE stage == IF previousToken[r] = NoToken THEN "create" ELSE "find"
    <3>1. PICK life \in Lifetimes, amount \in IF r.type = "spending" THEN Limits ELSE {0} :
            granting' = granting \cup {Write(r, life, amount, previousToken[r], FALSE, stage)}
      BY <2>4 DEF grantPermission
    <3> DEFINE w == Write(r, life, amount, previousToken[r], FALSE, stage)
    <3>2. amount \in Nat /\ previousToken[r] \in TokenType \cup {NoToken} /\ stage \in Stages
      BY TimesAssumption DEF ChainTypes, Stages
    <3>3. w \in WriteType /\ (w.stage = "find" => w.previous # NoToken)
      <4>1. w \in WriteType
        BY <3>2, WritesAreTyped
      <4> QED
        BY <4>1 DEF Write
    <3> HIDE DEF w
    <3>4. \A g \in granting' : g \in WriteType /\ (g.stage = "find" => g.previous # NoToken)
      BY <3>1, <3>3 DEF ChainTypes, w
    <3>5. /\ UNCHANGED <<tokens, groupTodo, groupGoing, faults>> /\ granted' = granted + 1
      BY <2>4 DEF grantPermission
    <3> QED
      BY <2>2, <3>4, <3>5 DEF ChainTypes
  <2> QED
    BY <1>3, <2>3, <2>4 DEF Answer, grantEphemeral, denyPermission
<1>4. CASE GroupAnswer
  BY <1>4 DEF GroupAnswer, GroupAnswered, denyGroupedPermission, ChainTypes, chainVars
<1>5. CASE GroupGranted
  BY <1>5 DEF GroupGranted, grantGroupedPermission, Unasked, uiVars, ChainTypes
<1>6. CASE Revoke
  BY <1>6 DEF Revoke, revokePermission, Unasked, uiVars, ChainTypes
<1>7. CASE ChainWrite
  <2>0. UNCHANGED previousToken
    BY <1>7 DEF ChainWrite, Unasked, uiVars
  <2>1. CASE WriteGrouped
    <3>1. PICK i \in groupTodo, life \in Lifetimes :
            /\ groupTodo' = groupTodo \ {i}
            /\ granting' = granting \cup
                 {Write(Manifest[i], life, Manifest[i].amount, NoToken, TRUE,
                        IF Manifest[i].type = "protocol" THEN "lookup" ELSE "create")}
      BY <2>1 DEF WriteGrouped
    <3> DEFINE stage == IF Manifest[i].type = "protocol" THEN "lookup" ELSE "create"
               w == Write(Manifest[i], life, Manifest[i].amount, NoToken, TRUE, stage)
    <3>2. Manifest[i] \in Requests /\ Manifest[i].amount \in Nat /\ stage \in Stages
      <4>1. i \in 1..Len(Manifest)
        BY RequestsAssumption, LenProperties DEF ChainTypes
      <4> QED
        BY <4>1, RequestsAssumption, ElementOfSeq DEF Stages
    <3>3. w \in WriteType /\ w.stage # "find"
      <4>1. w \in WriteType
        BY <3>2, WritesAreTyped
      <4> QED
        BY <4>1 DEF Write
    <3> HIDE DEF w
    <3>4. \A g \in granting' : g \in WriteType /\ (g.stage = "find" => g.previous # NoToken)
      BY <3>1, <3>3 DEF ChainTypes, w
    <3>5. /\ UNCHANGED <<tokens, groupGoing, faults>> /\ granted' = granted + 1
      BY <2>1 DEF WriteGrouped
    <3>6. groupTodo' \subseteq DOMAIN Manifest
      BY <3>1 DEF ChainTypes
    <3> HIDE DEF stage
    <3> QED
      BY <2>0, <3>4, <3>5, <3>6 DEF ChainTypes
  <2>2. ASSUME NEW g \in granting, createPermissionOnChain(g) \/ renewPermissionOnChain(g)
        PROVE  ChainTypes'
    <3>1. Token(g) \in TokenType
      BY DEF Token, TokenType, WriteType, ChainTypes
    <3> QED
      BY <2>0, <2>2, <3>1 DEF createPermissionOnChain, renewPermissionOnChain, Recorded, ChainTypes
  <2>3. ASSUME NEW g \in granting, findAllProtocolTokens(g) PROVE ChainTypes'
    <3> DEFINE old == SameScope(g.previous)
               h == [g EXCEPT !.stage = "renew",
                              !.spends = IF Cardinality(old) > 1 THEN old ELSE {g.previous}]
    <3>1. g \in WriteType /\ g.previous \in TokenType /\ old \subseteq TokenType
      BY <2>3 DEF findAllProtocolTokens, ChainTypes, WriteType, SameScope
    <3>2. h \in WriteType /\ h.stage = "renew"
      BY <3>1 DEF WriteType, Stages
    <3> QED
      BY <2>0, <2>3, <3>2 DEF findAllProtocolTokens, Advance, ChainTypes
  <2>4. ASSUME NEW g \in granting, WriteThrows(g) PROVE ChainTypes'
    <3>1. /\ granting' = granting \ {g} /\ UNCHANGED <<tokens, granted>>
          /\ faults' = faults \/ faults' = faults + 1
          /\ groupTodo' = groupTodo \/ groupTodo' = {}
          /\ UNCHANGED groupGoing \/ groupGoing' = FALSE
      BY <2>4 DEF WriteThrows
    <3>2. groupGoing' \in BOOLEAN
      BY <3>1 DEF ChainTypes
    <3> QED
      BY <2>0, <3>1, <3>2 DEF ChainTypes
  <2>5. ASSUME NEW g \in granting, LookupGrouped(g) PROVE ChainTypes'
    <3>0. UNCHANGED <<previousToken, tokens, groupTodo, groupGoing, granted, faults>>
      BY <2>0, <2>5 DEF LookupGrouped
    <3>1. CASE Advance(g, [g EXCEPT !.stage = "create"])
      <4> DEFINE h == [g EXCEPT !.stage = "create"]
      <4>1. h \in WriteType /\ h.stage # "find"
        BY DEF ChainTypes, WriteType, Stages
      <4>2. granting' = (granting \ {g}) \cup {h}
        BY <3>1 DEF Advance
      <4> HIDE DEF h
      <4> QED
        BY <3>0, <4>1, <4>2 DEF ChainTypes
    <3>2. ASSUME NEW t \in findProtocolToken(g.of),
                 Advance(g, [g EXCEPT !.stage = "find", !.previous = t])
          PROVE  ChainTypes'
      <4> DEFINE h == [g EXCEPT !.stage = "find", !.previous = t]
      <4>1. t \in TokenType /\ t # NoToken
        BY FoundAreTokens, NoTokenAssumption
      <4>2. h \in WriteType /\ h.previous # NoToken
        BY <4>1 DEF ChainTypes, WriteType, Stages
      <4>3. granting' = (granting \ {g}) \cup {h}
        BY <3>2 DEF Advance
      <4> HIDE DEF h
      <4> QED
        BY <3>0, <4>2, <4>3 DEF ChainTypes
    <3> QED
      BY <2>5, <3>1, <3>2 DEF LookupGrouped
  <2> QED
    BY <1>7, <2>1, <2>2, <2>3, <2>4, <2>5 DEF ChainWrite
<1>8. CASE Tick \/ (\E i \in 1..MaxActions : ReturnedAction(i)) \/ UNCHANGED vars
  BY <1>1, <1>8 DEF Tick, ReturnedAction, vars, mainVars, chainVars, uiVars
<1> QED
  BY <1>2, <1>3, <1>4, <1>5, <1>6, <1>7, <1>8 DEF Next, Step

----------------------------------------------------------------------------
(* Times *)

(* Nothing is cached, or marked as granted, but what an unexpired token    *)
(* covered then; no token being written has expired; and a caller that     *)
(* decides by an unexpired token found it in this tick.                    *)
TimesAgree ==
  /\ \A r \in Requests : /\ permissionCache[r].cachedAt <= permittedAt[r]
                         /\ recentGrants[r] <= permittedAt[r] + RecentCover
                         /\ permittedAt[r] <= now
  /\ \A g \in granting : ~isTokenExpired(g.expiry)
  /\ \A t \in tokens : t.of.type = "spending" => t.expiry = 0
  /\ \A c \in Callers :
       pc[c] = "deciding" /\ held[c] # NoToken
         => /\ ~isTokenExpired(held[c].expiry) => permittedAt[Asking(c)] = now
            /\ Asking(c).type = "spending" => held[c].expiry = 0

TimeInv == TimeTypes /\ TimesAgree

LEMMA InitTimeInv == Init => TimeInv
<1> SUFFICES ASSUME Init PROVE TimeInv
  OBVIOUS
<1>1. /\ now = 1 /\ permissionCache = [r \in Requests |-> NoEntry]
      /\ recentGrants = [r \in Requests |-> 0] /\ granting = {} /\ tokens \in Earlier
      /\ permittedAt = [r \in Requests |-> IF Permitted(r) THEN now ELSE 0]
      /\ pc = [c \in Callers |-> "idle"]
  BY DEF Init, PermissionsInit
<1>2. TimeTypes
  BY <1>1 DEF TimeTypes, NoEntry
<1>3. \A t \in tokens : t.of.type = "spending" => t.expiry = 0
  BY <1>1, EarlierAssumption
<1>4. \A r \in Requests : /\ permissionCache[r].cachedAt <= permittedAt[r]
                          /\ recentGrants[r] <= permittedAt[r] + RecentCover
                          /\ permittedAt[r] <= now
  BY <1>1, TimesAssumption DEF NoEntry
<1> QED
  BY <1>1, <1>2, <1>3, <1>4 DEF TimeInv, TimesAgree

(* The history only moves on. *)
LEMMA HistoryMovesOn ==
  ASSUME TimeInv, Watch, now' \in Nat, now <= now'
  PROVE  /\ permittedAt' \in [Requests -> Nat]
         /\ \A r \in Requests : /\ permittedAt[r] <= permittedAt'[r] /\ permittedAt'[r] <= now'
                                /\ Permitted(r)' => permittedAt'[r] = now'
                                /\ now' = now /\ permittedAt[r] = now => permittedAt'[r] = now
BY DEF Watch, TimeInv, TimeTypes, TimesAgree

(* The caches of a request may be cleared, or filled while it is permitted. *)
CachedFairly(r) ==
  /\ \/ permissionCache'[r].cachedAt <= permissionCache[r].cachedAt
     \/ permissionCache'[r].cachedAt = now /\ permittedAt'[r] = now
  /\ \/ recentGrants'[r] <= recentGrants[r]
     \/ recentGrants'[r] = now + RecentCover /\ permittedAt'[r] = now

CacheTypes ==
  /\ permissionCache \in [Requests -> [expiry : Nat, cachedAt : Nat]]
  /\ recentGrants \in [Requests -> Nat]

(* A caller that decides has decided before, or has just found its token. *)
DecidesFairly(c) ==
  \/ pc'[c] # "deciding"
  \/ pc'[c] = pc[c] /\ todo'[c] = todo[c] /\ held'[c] = held[c]
  \/ held'[c] = NoToken
  \/ /\ held'[c] \in Matching(Asking(c)) /\ todo'[c] = todo[c]
     /\ ~isTokenExpired(held'[c].expiry) => permittedAt'[Asking(c)] = now

(* Who is let go on, or refused, decides nothing. *)
LEMMA AnsweredDecideFairly ==
  ASSUME NEW P, Allow(P) \/ Rejected(P) \/ Released(P)
  PROVE  \A c \in Callers : DecidesFairly(c)
<1> SUFFICES ASSUME NEW c \in Callers PROVE DecidesFairly(c)
  OBVIOUS
<1>1. CASE c \in P
  BY <1>1 DEF Allow, Rejected, Released, DecidesFairly
<1>2. CASE c \notin P
  <2>1. pc'[c] = pc[c] /\ todo'[c] = todo[c] /\ held'[c] = held[c]
    BY <1>2 DEF Allow, Rejected, Released
  <2> QED
    BY <2>1 DEF DecidesFairly
<1> QED
  BY <1>1, <1>2

LEMMA TimesMove ==
  ASSUME CallerInv, TimeInv, Watch, now' = now, CacheTypes',
         \A r \in Requests : CachedFairly(r),
         \A g \in granting' : ~isTokenExpired(g.expiry),
         \A t \in tokens' : t.of.type = "spending" => t.expiry = 0,
         \A c \in Callers : DecidesFairly(c)
  PROVE  TimeInv'
<1>1. now \in Nat /\ now' \in Nat /\ RecentCover \in Nat
  BY TimesAssumption DEF TimeInv, TimeTypes
<1>2. /\ permittedAt' \in [Requests -> Nat]
      /\ \A r \in Requests : /\ permittedAt[r] <= permittedAt'[r] /\ permittedAt'[r] <= now'
                             /\ permittedAt[r] = now => permittedAt'[r] = now
  BY <1>1, HistoryMovesOn
<1>3. TimeTypes'
  BY <1>2 DEF TimeInv, TimeTypes, CacheTypes
<1>4. \A r \in Requests : /\ permissionCache'[r].cachedAt <= permittedAt'[r]
                          /\ recentGrants'[r] <= permittedAt'[r] + RecentCover
                          /\ permittedAt'[r] <= now'
  <2> SUFFICES ASSUME NEW r \in Requests
               PROVE  /\ permissionCache'[r].cachedAt <= permittedAt'[r]
                      /\ recentGrants'[r] <= permittedAt'[r] + RecentCover
    BY <1>2
  <2>1. /\ permissionCache[r].cachedAt \in Nat /\ recentGrants[r] \in Nat
        /\ permissionCache'[r].cachedAt \in Nat /\ recentGrants'[r] \in Nat
        /\ permittedAt[r] \in Nat /\ permittedAt'[r] \in Nat /\ permittedAt[r] <= permittedAt'[r]
    BY <1>2 DEF TimeInv, TimeTypes, CacheTypes
  <2>2. /\ permissionCache[r].cachedAt <= permittedAt[r]
        /\ recentGrants[r] <= permittedAt[r] + RecentCover
    BY DEF TimeInv, TimesAgree
  <2> QED
    BY <1>1, <2>1, <2>2 DEF CachedFairly
<1>5. \A x : isTokenExpired(x)' <=> isTokenExpired(x)
  BY DEF isTokenExpired
<1>6. ASSUME NEW c \in Callers, pc'[c] = "deciding", held'[c] # NoToken
      PROVE  /\ ~isTokenExpired(held'[c].expiry) => permittedAt'[Asking(c)'] = now
             /\ Asking(c)'.type = "spending" => held'[c].expiry = 0
  <2>1. CASE pc'[c] = pc[c] /\ todo'[c] = todo[c] /\ held'[c] = held[c]
    <3>1. Asking(c) \in Requests /\ Asking(c)' = Asking(c)
      BY <1>6, <2>1, AskingIsRequest DEF Ensuring, CallerInv, Asking
    <3> QED
      BY <1>6, <2>1, <3>1, <1>2 DEF TimeInv, TimesAgree
  <2>2. CASE /\ held'[c] \in Matching(Asking(c)) /\ todo'[c] = todo[c]
             /\ ~isTokenExpired(held'[c].expiry) => permittedAt'[Asking(c)] = now
    <3>1. Asking(c)' = Asking(c)
      BY <2>2 DEF Asking
    <3>2. ASSUME Asking(c).type = "spending" PROVE held'[c].expiry = 0
      BY <2>2, <3>2 DEF Matching, findProtocolToken, findBasketToken, findCertificateToken,
                        findSpendingToken, TimeInv, TimesAgree
    <3> QED
      BY <2>2, <3>1, <3>2
  <2> QED
    BY <1>6, <2>1, <2>2 DEF DecidesFairly
<1>7. \A g \in granting' : ~isTokenExpired(g.expiry)'
  BY <1>5
<1> QED
  BY <1>3, <1>4, <1>5, <1>6, <1>7 DEF TimeInv, TimesAgree

(* A step that leaves clock, caches and tokens alone, and looks up nothing. *)
LEMMA TimesStay ==
  ASSUME CallerInv, TimeInv, Watch, UNCHANGED <<now, cacheVars>>,
         \A g \in granting' : \E h \in granting : g.expiry = h.expiry, tokens' \subseteq tokens,
         \A c \in Callers : DecidesFairly(c)
  PROVE  TimeInv'
<1>1. CacheTypes'
  BY DEF cacheVars, CacheTypes, TimeInv, TimeTypes
<1>2. \A r \in Requests : CachedFairly(r)
  BY DEF cacheVars, CachedFairly, TimeInv, TimeTypes
<1> QED
  BY <1>1, <1>2, TimesMove DEF TimeInv, TimesAgree

(* What an unexpired token covers is permitted now. *)
LEMMA CoveredIsPermitted ==
  ASSUME Watch, now' = now, NEW r \in Requests, NEW t \in Matching(r)',
         ~isTokenExpired(t.expiry)
  PROVE  permittedAt'[r] = now
<1>1. Permitted(r)'
  BY DEF Permitted, isTokenExpired
<1> QED
  BY <1>1 DEF Watch

LEMMA MatchingKept ==
  ASSUME UNCHANGED tokens, NEW r
  PROVE  Matching(r)' = Matching(r)
BY DEF Matching, findProtocolToken, findBasketToken, findCertificateToken, findSpendingToken,
       SameProtocol

LEMMA EnsureKeepsTimes ==
  ASSUME CallerInv, TimeInv, Watch, NEW c \in Callers,
         \/ RefuseAdminOnly(c) \/ CheckCache(c) \/ FindToken(c) \/ TokenSuffices(c)
         \/ NoConsentAllowed(c) \/ requestPermissionFlow(c)
  PROVE  TimeInv'
<1>0. UNCHANGED <<now, tokens, granting>>
  BY DEF RefuseAdminOnly, CheckCache, FindToken, TokenSuffices, NoConsentAllowed,
         requestPermissionFlow, chainVars
<1>a. CallerTypes /\ TimeTypes /\ TimesAgree
  BY DEF CallerInv, TimeInv
<1>1. CASE RefuseAdminOnly(c) \/ NoConsentAllowed(c)
  <2>1. UNCHANGED cacheVars /\ pc[c] \in Ensuring /\ Refuse(c)
    BY <1>1 DEF RefuseAdminOnly, NoConsentAllowed, Ensuring
  <2>2. /\ pc'[c] \in {"ensure", "ensured", "refused"} /\ held' = [held EXCEPT ![c] = NoToken]
        /\ \A d \in Callers \ {c} : pc'[d] = pc[d] /\ todo'[d] = todo[d]
    BY <2>1, <1>a DEF Refuse, CallerTypes
  <2>3. \A d \in Callers : DecidesFairly(d)
    BY <2>2, <1>a DEF DecidesFairly, CallerTypes
  <2> QED
    BY <1>0, <2>1, <2>3, TimesStay
<1>2. CASE requestPermissionFlow(c)
  <2>1. /\ UNCHANGED cacheVars /\ UNCHANGED todo /\ pc' = [pc EXCEPT ![c] = "waiting"]
        /\ held' = [held EXCEPT ![c] = NoToken]
    BY <1>2 DEF requestPermissionFlow
  <2>3. \A d \in Callers : DecidesFairly(d)
    BY <2>1, <1>a DEF DecidesFairly, CallerTypes
  <2> QED
    BY <1>0, <2>1, <2>3, TimesStay
<1>3. CASE FindToken(c)
  <2>1. /\ UNCHANGED cacheVars /\ UNCHANGED todo /\ pc[c] = "reading"
        /\ pc' = [pc EXCEPT ![c] = "deciding"]
    BY <1>3 DEF FindToken
  <2>2. Asking(c) \in Requests
    BY <1>a, <2>1, AskingIsRequest DEF Ensuring
  <2>3. \A d \in Callers : DecidesFairly(d)
    <3>1. CASE UNCHANGED held
      BY <2>1, <3>1, <1>a DEF DecidesFairly, CallerTypes
    <3>2. ASSUME NEW t \in Matching(Asking(c)), held' = [held EXCEPT ![c] = t]
          PROVE  \A d \in Callers : DecidesFairly(d)
      <4>1. ~isTokenExpired(t.expiry) => permittedAt'[Asking(c)] = now
        BY <1>0, <2>2, MatchingKept, CoveredIsPermitted
      <4>2. DecidesFairly(c)
        BY <2>1, <3>2, <4>1, <1>a DEF DecidesFairly, CallerTypes
      <4>3. \A d \in Callers \ {c} : DecidesFairly(d)
        BY <2>1, <3>2, <1>a DEF DecidesFairly, CallerTypes
      <4> QED
        BY <4>2, <4>3
    <3> QED
      BY <1>3, <3>1, <3>2 DEF FindToken
  <2> QED
    BY <1>0, <2>1, <2>3, TimesStay
<1>4. CASE CheckCache(c)
  <2>1. /\ pc[c] = "ensure" /\ Asking(c) \in Requests
        /\ isPermissionCached(Asking(c)) /\ isRecentlyGranted(Asking(c))
    BY <1>4, <1>a, AskingIsRequest DEF CheckCache, Ensuring
  <2>2. CacheTypes' /\ \A r \in Requests : CachedFairly(r)
    BY <2>1, <1>a DEF isPermissionCached, isRecentlyGranted, CachedFairly, CacheTypes, NoEntry,
                      TimeTypes
  <2>3. CASE Allow({c})
    BY <1>0, <2>2, <2>3, <1>a, AnsweredDecideFairly, TimesMove DEF TimesAgree
  <2>4. CASE pc' = [pc EXCEPT ![c] = "reading"] /\ UNCHANGED <<todo, seek, missing, held>>
    <3>1. \A d \in Callers : DecidesFairly(d)
      BY <2>4, <1>a DEF DecidesFairly, CallerTypes
    <3> QED
      BY <1>0, <2>2, <3>1, <1>a, TimesMove DEF TimesAgree
  <2> QED
    BY <1>4, <2>3, <2>4 DEF CheckCache
<1>5. CASE TokenSuffices(c)
  <2>1. /\ pc[c] = "deciding" /\ Asking(c) \in Requests /\ Suffices(c) /\ Allow({c})
        /\ cachePermission(Asking(c), held[c].expiry) /\ UNCHANGED recentGrants
    BY <1>5, <1>a, AskingIsRequest DEF TokenSuffices, Ensuring
  <2>2. ~isTokenExpired(held[c].expiry) /\ held[c] # NoToken
    BY <2>1, <1>a DEF Suffices, TimesAgree, isTokenExpired
  <2>3. permittedAt[Asking(c)] = now
    BY <2>1, <2>2, <1>a DEF TimesAgree
  <2>4. permittedAt'[Asking(c)] = now
    BY <1>0, <1>a, <2>1, <2>3 DEF Watch
  <2>5. held[c].expiry \in Nat
    BY <2>2, <1>a DEF CallerTypes, TokenType
  <2>6. CacheTypes' /\ \A r \in Requests : CachedFairly(r)
    BY <2>1, <2>4, <2>5, <1>a DEF cachePermission, CachedFairly, CacheTypes, TimeTypes
  <2>7. \A d \in Callers : DecidesFairly(d)
    BY <2>1, AnsweredDecideFairly
  <2> QED
    BY <1>0, <2>6, <2>7, <1>a, TimesMove DEF TimesAgree
<1> QED
  BY <1>1, <1>2, <1>3, <1>4, <1>5

LEMMA CallKeepsTimes ==
  ASSUME CallerInv, TimeInv, Watch, NEW c \in Callers,
         \/ GroupFlow(c) \/ Perform(c) \/ createAction(c) \/ signAction(c) \/ Throw(c)
         \/ \E k \in Calls : Call(c, k)
  PROVE  TimeInv'
<1>1. /\ UNCHANGED <<now, tokens, granting>> /\ UNCHANGED cacheVars /\ UNCHANGED held
      /\ pc'[c] # "deciding" /\ \A d \in Callers \ {c} : pc'[d] = pc[d] /\ todo'[d] = todo[d]
  <2> USE DEF CallerInv, CallerTypes, chainVars
  <2>1. CASE GroupFlow(c)
    BY <2>1 DEF GroupFlow
  <2>2. CASE Perform(c) \/ signAction(c) \/ Throw(c)
    BY <2>2 DEF Perform, signAction, Throw, Finish
  <2>3. CASE createAction(c)
    BY <2>3 DEF createAction, Start
  <2>4. ASSUME NEW k \in Calls, Call(c, k)
        PROVE  /\ UNCHANGED <<now, tokens, granting>> /\ UNCHANGED cacheVars /\ UNCHANGED held
               /\ pc'[c] # "deciding"
               /\ \A d \in Callers \ {c} : pc'[d] = pc[d] /\ todo'[d] = todo[d]
    BY <2>4 DEF Call, Start
  <2> QED
    BY <2>1, <2>2, <2>3, <2>4
<1>2. \A d \in Callers : DecidesFairly(d)
  BY <1>1 DEF DecidesFairly
<1> QED
  BY <1>1, <1>2, TimesStay

LEMMA AnswerKeepsTimes ==
  ASSUME CallerInv, TimeInv, Watch,
         (\E r \in Requests : grantEphemeral(r) \/ grantPermission(r) \/ denyPermission(r))
         \/ GroupAnswered \/ denyGroupedPermission
  PROVE  TimeInv'
<1>a. CallerTypes /\ PromptTypes /\ TimeTypes /\ TimesAgree
  BY DEF CallerInv, TimeInv
<1>1. \A d \in Callers : DecidesFairly(d)
  BY AnsweredDecideFairly DEF grantEphemeral, grantPermission, denyPermission, GroupAnswered,
                              denyGroupedPermission
<1>2. UNCHANGED <<now, tokens>> /\ UNCHANGED cacheVars
  BY DEF grantEphemeral, grantPermission, denyPermission, GroupAnswered, denyGroupedPermission,
         chainVars
<1>3. CASE UNCHANGED granting
  BY <1>1, <1>2, <1>3, TimesStay
<1>4. ASSUME NEW r \in Requests, grantPermission(r) PROVE TimeInv'
  <2>1. PICK life \in Lifetimes, amount \in Limits \cup {0}, stage \in {"create", "find"} :
          granting' = granting \cup {Write(r, life, amount, previousToken[r], FALSE, stage)}
    BY <1>4 DEF grantPermission
  <2>2. ~isTokenExpired(Expiry(life))
    BY <1>a, TimesAssumption DEF Expiry, isTokenExpired, TimeTypes
  <2>3. \A g \in granting' : ~isTokenExpired(g.expiry)
    BY <1>a, <2>1, <2>2 DEF Write, TimesAgree
  <2>4. CacheTypes' /\ \A q \in Requests : CachedFairly(q)
    BY <1>2, <1>a DEF cacheVars, CacheTypes, CachedFairly, TimeTypes
  <2> QED
    BY <1>1, <1>2, <1>a, <2>3, <2>4, TimesMove DEF TimesAgree
<1> QED
  BY <1>3, <1>4 DEF grantEphemeral, denyPermission, GroupAnswered, denyGroupedPermission,
                    chainVars

(* A token just written covers its request; caching and marking say so. *)
LEMMA WritesKeepTimes ==
  ASSUME CallerInv, ChainTypes, TimeInv, Watch, NEW g \in granting,
         createPermissionOnChain(g) \/ renewPermissionOnChain(g), UNCHANGED Unasked
  PROVE  TimeInv'
<1>a. TimeTypes /\ TimesAgree /\ g \in WriteType
  BY DEF TimeInv, ChainTypes
<1>1. /\ Recorded(g) /\ UNCHANGED <<now, pc, todo, held>>
      /\ Token(g) \in tokens' /\ tokens' \subseteq tokens \cup {Token(g)}
  BY DEF createPermissionOnChain, renewPermissionOnChain, Unasked, callerVars
<1>2. /\ g.of \in Requests /\ g.expiry \in Nat /\ ~isTokenExpired(g.expiry)
      /\ Token(g).of = g.of /\ ~isTokenExpired(Token(g).expiry)
      /\ Token(g).of.type = "spending" => Token(g).expiry = 0
  BY <1>a DEF Token, WriteType, TimesAgree, isTokenExpired
<1> HIDE DEF Token
<1>3. permittedAt'[g.of] = now
  <2>1. Token(g) \in Matching(g.of)'
    <3>1. g.of.type \in Types
      BY <1>2, RequestsAssumption
    <3> QED
      BY <1>1, <1>2, <3>1 DEF Matching, findProtocolToken, findBasketToken,
                              findCertificateToken, findSpendingToken, SameProtocol, Types
  <2> QED
    BY <1>1, <1>2, <2>1, CoveredIsPermitted
<1>4. CacheTypes' /\ \A r \in Requests : CachedFairly(r)
  <2>1. /\ recentGrants' = recentGrants
             \/ recentGrants' = [recentGrants EXCEPT ![g.of] = now + RecentCover]
        /\ permissionCache' = permissionCache
             \/ permissionCache' = [permissionCache EXCEPT ![g.of] =
                                      [expiry |-> g.expiry, cachedAt |-> now]]
    BY <1>1 DEF Recorded, markRecentGrant, cachePermission
  <2>2. RecentCover \in Nat
    BY TimesAssumption
  <2> QED
    BY <1>a, <1>2, <1>3, <2>1, <2>2 DEF CacheTypes, CachedFairly, TimeTypes
<1>5. \A h \in granting' : ~isTokenExpired(h.expiry)
  BY <1>1, <1>a DEF Recorded, TimesAgree
<1>6. \A t \in tokens' : t.of.type = "spending" => t.expiry = 0
  BY <1>1, <1>2, <1>a DEF TimesAgree
<1>7. \A d \in Callers : DecidesFairly(d)
  BY <1>1 DEF DecidesFairly
<1> QED
  BY <1>1, <1>4, <1>5, <1>6, <1>7, TimesMove

LEMMA RestKeepsTimes ==
  ASSUME CallerInv, ChainTypes, TimeInv, Watch, ChainWrite \/ GroupGranted \/ Revoke
  PROVE  TimeInv'
<1>a. TimeTypes /\ TimesAgree
  BY DEF TimeInv
<1>1. UNCHANGED Unasked /\ UNCHANGED <<now, pc, todo, held>>
  BY DEF ChainWrite, GroupGranted, Revoke, Unasked, callerVars
<1>2. \A d \in Callers : DecidesFairly(d)
  BY <1>1 DEF DecidesFairly
<1>3. CASE GroupGranted
  BY <1>1, <1>2, <1>3, TimesStay DEF GroupGranted, grantGroupedPermission
<1>4. CASE Revoke
  BY <1>1, <1>2, <1>4, TimesStay DEF Revoke, revokePermission
<1>5. CASE WriteGrouped
  <2>1. PICK i \in groupTodo, life \in Lifetimes :
          granting' = granting \cup
            {Write(Manifest[i], life, Manifest[i].amount, NoToken, TRUE,
                   IF Manifest[i].type = "protocol" THEN "lookup" ELSE "create")}
    BY <1>5 DEF WriteGrouped
  <2>2. ~isTokenExpired(Expiry(life))
    BY <1>a, TimesAssumption DEF Expiry, isTokenExpired, TimeTypes
  <2>3. \A g \in granting' : ~isTokenExpired(g.expiry)
    BY <1>a, <2>1, <2>2 DEF Write, TimesAgree
  <2>4. UNCHANGED tokens /\ UNCHANGED cacheVars
    BY <1>5 DEF WriteGrouped
  <2>5. CacheTypes' /\ \A q \in Requests : CachedFairly(q)
    BY <2>4, <1>a DEF cacheVars, CacheTypes, CachedFairly, TimeTypes
  <2> QED
    BY <1>1, <1>2, <1>a, <2>3, <2>4, <2>5, TimesMove DEF TimesAgree
<1>6. ASSUME NEW g \in granting,
             createPermissionOnChain(g) \/ renewPermissionOnChain(g)
      PROVE  TimeInv'
  BY <1>1, <1>6, WritesKeepTimes
<1>7. ASSUME NEW g \in granting,
             findAllProtocolTokens(g) \/ WriteThrows(g) \/ LookupGrouped(g)
      PROVE  TimeInv'
  <2>1. UNCHANGED tokens /\ UNCHANGED cacheVars
    BY <1>7 DEF findAllProtocolTokens, WriteThrows, LookupGrouped
  <2>2. \/ granting' = granting \ {g}
        \/ \E h : h.expiry = g.expiry /\ granting' = (granting \ {g}) \cup {h}
    <3>0. g \in WriteType
      BY DEF ChainTypes
    <3>1. \A spends : [g EXCEPT !.stage = "renew", !.spends = spends].expiry = g.expiry
      BY <3>0 DEF WriteType
    <3>2. \A t : [g EXCEPT !.stage = "find", !.previous = t].expiry = g.expiry
      BY <3>0 DEF WriteType
    <3>3. [g EXCEPT !.stage = "create"].expiry = g.expiry
      BY <3>0 DEF WriteType
    <3> QED
      BY <1>7, <3>1, <3>2, <3>3 DEF findAllProtocolTokens, WriteThrows, LookupGrouped, Advance
  <2>3. \A x \in granting' : \E h \in granting : x.expiry = h.expiry
    BY <2>2
  <2> QED
    BY <1>1, <1>2, <2>1, <2>3, TimesStay
<1> QED
  BY <1>3, <1>4, <1>5, <1>6, <1>7 DEF ChainWrite

LEMMA TickKeepsTimes ==
  ASSUME CallerInv, TimeInv, Watch, Tick
  PROVE  TimeInv'
<1>1. /\ now \in Nat \ {0} /\ now' = now + 1 /\ granting' = {} /\ tokens' = tokens
      /\ \A c \in Callers : pc'[c] # "deciding"
      /\ UNCHANGED <<permissionCache, recentGrants>>
  BY DEF Tick, TimeInv, TimeTypes, chainVars, cacheVars, callerVars
<1>2. /\ permittedAt' \in [Requests -> Nat]
      /\ \A r \in Requests : permittedAt[r] <= permittedAt'[r] /\ permittedAt'[r] <= now'
  BY <1>1, HistoryMovesOn
<1>3. TimeTypes'
  BY <1>1, <1>2 DEF TimeInv, TimeTypes
<1>4. \A r \in Requests : /\ permissionCache'[r].cachedAt <= permittedAt'[r]
                          /\ recentGrants'[r] <= permittedAt'[r] + RecentCover
                          /\ permittedAt'[r] <= now'
  <2> SUFFICES ASSUME NEW r \in Requests
               PROVE  /\ permissionCache[r].cachedAt <= permittedAt'[r]
                      /\ recentGrants[r] <= permittedAt'[r] + RecentCover
    BY <1>1, <1>2
  <2>1. /\ permissionCache[r].cachedAt \in Nat /\ recentGrants[r] \in Nat /\ RecentCover \in Nat
        /\ permittedAt[r] \in Nat /\ permittedAt'[r] \in Nat /\ permittedAt[r] <= permittedAt'[r]
    BY <1>2, TimesAssumption DEF TimeInv, TimeTypes
  <2>2. /\ permissionCache[r].cachedAt <= permittedAt[r]
        /\ recentGrants[r] <= permittedAt[r] + RecentCover
    BY DEF TimeInv, TimesAgree
  <2> QED
    BY <2>1, <2>2
<1> QED
  BY <1>1, <1>3, <1>4 DEF TimeInv, TimesAgree

----------------------------------------------------------------------------
(* The theorems *)

PermissionsInv == CallerInv /\ ChainTypes /\ TimeInv

LEMMA StepKeepsInv ==
  ASSUME PermissionsInv, [Next]_vars
  PROVE  PermissionsInv'
<1>a. CallerInv /\ ChainTypes /\ TimeInv /\ TimeTypes
  BY DEF PermissionsInv, TimeInv
<1>0. ChainTypes'
  BY <1>a, StepKeepsChain
<1>1. CASE UNCHANGED vars
  <2>1. CallerInv'
    BY <1>a, <1>1, RestKeepsCallers
  <2>2. TimeInv'
    BY <1>a, <1>1 DEF vars, mainVars, TimeInv, TimeTypes, TimesAgree, isTokenExpired, Asking
  <2> QED
    BY <1>0, <2>1, <2>2 DEF PermissionsInv
<1>2. CASE Next
  <2> SUFFICES CallerInv' /\ TimeInv'
    BY <1>0 DEF PermissionsInv
  <2>0. Watch /\ Step
    BY <1>2 DEF Next
  <2>1. ASSUME NEW c \in Callers, CallerStep(c) \/ \E k \in Calls : Call(c, k)
        PROVE  CallerInv' /\ TimeInv'
    BY <1>a, <2>0, <2>1, EnsureKeepsCallers, EnsureKeepsTimes, CallKeepsCallers,
       CallKeepsTimes DEF CallerStep
  <2>2. CASE (\E r \in Requests : Answer(r)) \/ GroupAnswer
    <3>1. /\ (\E r \in Requests : grantEphemeral(r) \/ grantPermission(r) \/ denyPermission(r))
             \/ GroupAnswered \/ denyGroupedPermission
          /\ UNCHANGED call
      BY <2>2 DEF Answer, GroupAnswer
    <3> QED
      BY <1>a, <2>0, <3>1, AnswerKeepsCallers, AnswerKeepsTimes
  <2>3. CASE ChainWrite \/ GroupGranted \/ Revoke
    BY <1>a, <2>0, <2>3, RestKeepsCallers, RestKeepsTimes
  <2>4. CASE Tick
    BY <1>a, <2>0, <2>4, RestKeepsCallers, TickKeepsTimes
  <2>5. CASE \E i \in 1..MaxActions : ReturnedAction(i)
    <3>1. UNCHANGED <<now, granting, tokens, pc, todo, held>> /\ UNCHANGED cacheVars
      BY <2>5 DEF ReturnedAction, chainVars, callerVars
    <3>2. \A c \in Callers : DecidesFairly(c)
      BY <3>1 DEF DecidesFairly
    <3> QED
      BY <1>a, <2>0, <2>5, <3>1, <3>2, RestKeepsCallers, TimesStay
  <2> QED
    BY <2>0, <2>1, <2>2, <2>3, <2>4, <2>5 DEF Step
<1> QED
  BY <1>1, <1>2

LEMMA InvariantHolds == Spec => []PermissionsInv
<1>1. Init => PermissionsInv
  BY InitCallerInv, InitChainTypes, InitTimeInv DEF PermissionsInv
<1>2. PermissionsInv /\ [Next]_vars => PermissionsInv'
  BY StepKeepsInv
<1> QED
  BY <1>1, <1>2, PTL DEF Spec

(* A waiting call is kept pending by exactly one entry of activeRequests,  *)
(* and no entry keeps a call that does not wait: requestPermissionFlow     *)
(* joins or opens one entry, and grant, deny and their grouped forms       *)
(* resolve whomever an entry holds as they delete it.                      *)
THEOREM NobodyIsForgotten == Spec => []NobodyForgotten
<1>1. PermissionsInv => NobodyForgotten
  <2> SUFFICES ASSUME PermissionsInv, NEW c \in Callers
               PROVE  LET entries == {k \in Keys : c \in activeRequests[k]} IN
                      IF pc[c] = "waiting" THEN Cardinality(entries) = 1 ELSE entries = {}
    BY DEF NobodyForgotten
  <2> DEFINE entries == {k \in Keys : c \in activeRequests[k]}
  <2>1. OneEntry(c)
    BY DEF PermissionsInv, CallerInv, PromptsHeld
  <2>2. CASE pc[c] = "waiting"
    <3>1. PICK k \in Keys : /\ c \in activeRequests[k]
                            /\ \A j \in Keys : c \in activeRequests[j] => j = k
      BY <2>1, <2>2 DEF OneEntry
    <3>2. entries = {k}
      BY <3>1
    <3>3. Cardinality(entries) = 1
      BY <3>2, FS_Singleton
    <3> QED
      BY <2>2, <3>3
  <2>3. CASE pc[c] # "waiting"
    BY <2>1, <2>3 DEF OneEntry
  <2> QED
    BY <2>2, <2>3
<1> QED
  BY <1>1, InvariantHolds, PTL

(* Only the caches, or the token a lookup found, let a call through.       *)
LEMMA WhoLetsThrough ==
  ASSUME CallerInv, Step, NEW c \in Callers, LetThrough(c)
  PROVE  CheckCache(c) \/ TokenSuffices(c)
<1>a. /\ pc[c] \in {"ensure", "deciding"} /\ todo'[c] # todo[c] /\ Asking(c) \notin missing'[c]
      /\ CallerTypes
  BY DEF LetThrough, CallerInv
<1>1. ASSUME NEW d \in Callers, CallerStep(d) \/ \E k \in Calls : Call(d, k)
      PROVE  CheckCache(c) \/ TokenSuffices(c)
  <2>1. CASE CheckCache(d) \/ TokenSuffices(d)
    <3>1. d = c \/ todo'[c] = todo[c]
      BY <2>1, <1>a DEF CheckCache, TokenSuffices, Allow
    <3> QED
      BY <2>1, <3>1, <1>a
  <2>2. CASE RefuseAdminOnly(d) \/ NoConsentAllowed(d)
    <3>1. pc[d] \in Ensuring /\ Refuse(d)
      BY <2>2 DEF RefuseAdminOnly, NoConsentAllowed, Ensuring
    <3>2. todo'[c] = todo[c] \/ Asking(c) \in missing'[c]
      BY <3>1, <1>a DEF Refuse, CallerTypes
    <3> QED
      BY <3>2, <1>a
  <2>3. CASE FindToken(d) \/ requestPermissionFlow(d) \/ GroupFlow(d)
    BY <2>3, <1>a DEF FindToken, requestPermissionFlow, GroupFlow
  <2>4. CASE Perform(d) \/ signAction(d) \/ Throw(d) \/ createAction(d)
             \/ \E k \in Calls : Call(d, k)
    <3>1. pc[d] \notin {"ensure", "deciding"} /\ \A e \in Callers \ {d} : todo'[e] = todo[e]
      <4> USE <1>a DEF CallerTypes
      <4>1. CASE Perform(d) \/ signAction(d) \/ Throw(d)
        BY <4>1 DEF Perform, signAction, Throw, Finish
      <4>2. CASE createAction(d) \/ \E k \in Calls : Call(d, k)
        BY <4>2 DEF createAction, Call, Start
      <4> QED
        BY <2>4, <4>1, <4>2
    <3> QED
      BY <3>1, <1>a
  <2> QED
    BY <1>1, <2>1, <2>2, <2>3, <2>4 DEF CallerStep
<1>2. ASSUME NEW r \in Requests, Answer(r) PROVE FALSE
  <2>1. Allow(activeRequests[r]) \/ UNCHANGED todo
    BY <1>2 DEF Answer, grantEphemeral, grantPermission, denyPermission, Rejected
  <2>2. c \notin activeRequests[r]
    BY <1>a DEF CallerInv, PromptsHeld, OneEntry, Keys
  <2> QED
    BY <2>1, <2>2, <1>a DEF Allow
<1>3. UNCHANGED todo => FALSE
  BY <1>a
<1> QED
  BY <1>1, <1>2, <1>3 DEF Step, GroupAnswer, GroupAnswered, denyGroupedPermission, Rejected,
     Released, ChainWrite, GroupGranted, Revoke, ReturnedAction, Tick, Unasked, callerVars

(* No ensure method lets a call through on its own but within CACHE_TTL_MS *)
(* of an unexpired token for its request: neither a cache entry nor the    *)
(* cover of a recent grant outlives that, and a token revoked, renewed or  *)
(* expired while a lookup runs is used in that lookup at most.             *)
THEOREM PermissionsAreFresh == Spec => PermissionIsFresh
<1>1. ASSUME PermissionsInv, Next, NEW c \in Callers, LetThrough(c)
      PROVE  now <= permittedAt[Asking(c)] + CacheTTL
  <2>a. CallerTypes /\ TimeTypes /\ TimesAgree /\ CallerInv
    BY <1>1 DEF PermissionsInv, CallerInv, TimeInv
  <2>b. /\ pc[c] \in {"ensure", "deciding"} /\ todo'[c] # todo[c]
        /\ Asking(c) \notin missing'[c]
    BY <1>1 DEF LetThrough
  <2>c. Asking(c) \in Requests /\ todo[c] # <<>>
    BY <2>a, <2>b, AskingIsRequest DEF Ensuring, CallerTypes
  <2>1. CheckCache(c) \/ TokenSuffices(c)
    BY <1>1, <2>a, WhoLetsThrough DEF Next
  <2>2. CASE CheckCache(c)
    <3>1. CacheValid(Asking(c)) \/ RecentValid(Asking(c))
      BY <2>2, <2>b DEF CheckCache
    <3>2. /\ now \in Nat /\ permittedAt[Asking(c)] \in Nat /\ recentGrants[Asking(c)] \in Nat
          /\ permissionCache[Asking(c)].cachedAt \in Nat /\ CacheTTL \in Nat
          /\ RecentCover \in Nat /\ RecentCover <= CacheTTL
          /\ permissionCache[Asking(c)].cachedAt <= permittedAt[Asking(c)]
          /\ recentGrants[Asking(c)] <= permittedAt[Asking(c)] + RecentCover
      BY <2>a, <2>c, TimesAssumption DEF TimeTypes, TimesAgree
    <3> QED
      BY <3>1, <3>2 DEF CacheValid, RecentValid
  <2>3. CASE TokenSuffices(c)
    <3>1. held[c] # NoToken /\ pc[c] = "deciding" /\ Suffices(c)
      BY <2>3 DEF TokenSuffices, Suffices
    <3>2. ~isTokenExpired(held[c].expiry)
      BY <3>1, <2>a DEF Suffices, TimesAgree, isTokenExpired
    <3>3. permittedAt[Asking(c)] = now
      BY <3>1, <3>2, <2>a DEF TimesAgree
    <3> QED
      BY <3>3, <2>a, TimesAssumption DEF TimeTypes
  <2> QED
    BY <2>1, <2>2, <2>3
<1>2. PermissionsInv /\ [Next]_vars
        => [\A c \in Callers : LetThrough(c) => now <= permittedAt[Asking(c)] + CacheTTL]_vars
  BY <1>1
<1> QED
  BY <1>2, InvariantHolds, PTL DEF Spec, PermissionIsFresh

(* The values of the variables keep their types: a caller in the middle of *)
(* its ensure methods always has a request left to look up, and a write    *)
(* that renews a token has one to renew.                                   *)
THEOREM TypesAreKept == Spec => []TypeOK
<1>1. PermissionsInv => TypeOK
  BY DEF PermissionsInv, CallerInv, CallerTypes, ChainTypes, TimeInv, TimeTypes, PromptTypes,
         Ensuring, TypeOK
<1> QED
  BY <1>1, InvariantHolds, PTL
=============================================================================

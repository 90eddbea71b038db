------------------------ MODULE CWIStyleWalletManager ------------------------
(***************************************************************************)
(* Authentication with a UMP token, and the profiles of the user:          *)
(* src/src/CWIStyleWalletManager.ts.  Each device of the user runs a       *)
(* manager; all of them publish the token on an overlay, where a new token *)
(* consumes the one it replaces.  A call is a sequence of steps, one for   *)
(* each promise it awaits; a second call, destroy or another device may    *)
(* come in between.                                                        *)
(*                                                                         *)
(* A field of the token is decrypted by those who have the factors it was  *)
(* encrypted with: a token is the factors, the root key and the profiles.  *)
(* A random value is a number not used before.                             *)
(***************************************************************************)
EXTENDS Integers, Sequences, FiniteSets

CONSTANTS
  Devices, Calls,
  Passwords, PresentationKeys,
  NoKey, NoToken, NoProfile, NoCall, NoSnapshot,
  Serial,      \* the application awaits a call on a device before the next
  MaxRandom,   \* bound: random values
  MaxCalls,    \* bound: calls
  Failing,     \* what may fail
  MaxFaults    \* bound: failures, restarts and destroys

Default == 0      \* DEFAULT_PROFILE_ID
Modes == {"presentation-key-and-password", "presentation-key-and-recovery-key",
          "recovery-key-and-password"}
Failures == {"lookup", "user", "builder", "create", "overlay"}

ASSUME BoundsAssumption ==
  /\ MaxRandom \in Nat /\ MaxCalls \in Nat /\ MaxFaults \in Nat
  /\ Failing \subseteq Failures /\ Serial \in BOOLEAN

Flows == {"new-user", "existing-user"}
Ops == {"providePresentationKey", "providePassword", "provideRecoveryKey", "syncUMPToken",
        "switchProfile", "addProfile", "deleteProfile", "changePassword", "changeRecoveryKey",
        "changePresentationKey", "loadSnapshot"}
Steps == {"", "lookup", "derive", "save", "prompt", "create", "announce", "fund",
          "build", "rebuild", "toDefault", "back", "new"}

KeyType == [password : Passwords, salt : Nat]
TokenType ==
  [salt : Nat, key : KeyType, presentation : PresentationKeys, recovery : Nat, root : Nat,
   profiles : SUBSET Nat]
ManagerType ==
  [authenticated : BOOLEAN, mode : Modes, flow : Flows,
   presentation : PresentationKeys \cup {NoKey}, recovery : Nat \cup {NoKey},
   token : TokenType \cup {NoToken}, outpoint : Nat, root : Nat \cup {NoKey},
   keyManager : BOOLEAN, active : Nat, profiles : SUBSET Nat,
   underlying : Nat \cup {NoProfile}, built : BOOLEAN]
SnapshotType == [root : Nat, token : TokenType, outpoint : Nat, active : Nat]
CallType ==
  [on : Devices, op : Ops, step : Steps, key : KeyType \cup {NoKey}, salt : Nat,
   presentation : PresentationKeys \cup {NoKey}, recovery : Nat \cup {NoKey},
   root : Nat \cup {NoKey}, profile : Nat, back : Nat, body : TokenType \cup {NoToken},
   old : Nat, outpoint : Nat]

(* The values that stand for nothing are no value of what they stand for.  *)
ASSUME NullsAssumption ==
  /\ NoKey \notin Nat \cup KeyType \cup PresentationKeys
  /\ NoProfile \notin Nat /\ NoToken \notin TokenType
  /\ NoCall \notin CallType /\ NoSnapshot \notin SnapshotType

VARIABLES
  manager,     \* per device, the fields of its manager
  snapshot,    \* per device, the snapshot the application has saved
  call,        \* the calls in flight
  tokens,      \* every token created: its outpoint is its place
  spent,       \* the outpoints consumed
  overlay,     \* the outpoints the overlay answers with
  saved,       \* history: the recovery keys the user has saved
  random, calls, faults

vars == <<manager, snapshot, call, tokens, spent, overlay, saved, random, calls, faults>>
world == <<tokens, spent, overlay>>

Fresh == random + 1
Draw == random < MaxRandom /\ random' = Fresh
Fails(kind) == kind \in Failing /\ faults < MaxFaults /\ faults' = faults + 1

Destroyed ==
  [authenticated |-> FALSE, mode |-> "presentation-key-and-password", flow |-> "new-user",
   presentation |-> NoKey, recovery |-> NoKey, token |-> NoToken, outpoint |-> 0,
   root |-> NoKey, keyManager |-> FALSE, active |-> Default, profiles |-> {},
   underlying |-> NoProfile,
   built |-> TRUE]       \* history: the builder did not fail last

(* What a first session has published: a user with one token, or no user.  *)
Registered ==
  {<<>>} \cup {<<[salt |-> 1, key |-> [password |-> p, salt |-> 1], presentation |-> k,
                 recovery |-> 1, root |-> 1, profiles |-> {}]>> :
               p \in Passwords, k \in PresentationKeys}

Init ==
  /\ manager = [d \in Devices |-> Destroyed]
  /\ snapshot = [d \in Devices |-> NoSnapshot]
  /\ call = [c \in Calls |-> NoCall]
  /\ tokens \in Registered /\ overlay = DOMAIN tokens /\ spent = {}
  /\ saved = {tokens[i].recovery : i \in DOMAIN tokens}
  /\ random = Len(tokens) /\ calls = 0 /\ faults = 0

----------------------------------------------------------------------------
(* Calls *)

Free(d) == Serial => \A c \in Calls : call[c] # NoCall => call[c].on # d

Starts(c, d) ==
  /\ call[c] = NoCall /\ Free(d)
  /\ calls < MaxCalls /\ calls' = calls + 1
  /\ UNCHANGED <<snapshot, world, saved, faults>>

NewCall(d, op) ==
  [on |-> d, op |-> op, step |-> "", key |-> NoKey, salt |-> 0, presentation |-> NoKey,
   recovery |-> NoKey, root |-> NoKey, profile |-> Default, back |-> Default,
   body |-> NoToken, old |-> 0, outpoint |-> 0]

Running(c, step) == call[c] # NoCall /\ call[c].step = step
M(c) == manager[call[c].on]

Set(d, m) == manager' = [manager EXCEPT ![d] = m]
Await(c, k, step) == call' = [call EXCEPT ![c] = [k EXCEPT !.step = step]]
Return(c) == call' = [call EXCEPT ![c] = NoCall]
Reject(c) == Return(c) /\ UNCHANGED manager

----------------------------------------------------------------------------
(* Root keys, profiles and factors *)

(* The profiles of the token are decrypted with the root key. *)
Loads(m, root) == m.token.profiles = {} \/ m.token.root = root

setupRootInfrastructure(m, root) ==
  IF Loads(m, root)
  THEN [m EXCEPT !.root = root, !.keyManager = TRUE, !.profiles = m.token.profiles,
                 !.authenticated = TRUE]
  ELSE [m EXCEPT !.root = root, !.keyManager = TRUE, !.profiles = {}]

CanSwitch(m, p) ==
  /\ m.authenticated /\ m.root # NoKey /\ m.keyManager
  /\ p = Default \/ p \in m.profiles

(* m goes to profile p, active at once; its wallet is there when the       *)
(* builder returns.                                                        *)
switchProfile(c, k, m, p, step) ==
  IF CanSwitch(m, p)
  THEN Set(k.on, [m EXCEPT !.active = p]) /\ Await(c, [k EXCEPT !.profile = p], step)
  ELSE Set(k.on, m) /\ Return(c)

Built(c) == [M(c) EXCEPT !.underlying = call[c].profile, !.built = TRUE]

(* A factor is decrypted from the current token with the privileged key,   *)
(* which takes the password of the user.                                   *)
FactorReady(m) == m.authenticated /\ m.token # NoToken /\ m.keyManager

Initialized(m) == FactorReady(m) /\ m.root # NoKey

updateAuthFactors(c, k, m) ==
  IF m.authenticated /\ m.root # NoKey /\ m.outpoint # 0
  THEN LET body == [salt |-> k.salt, key |-> k.key, presentation |-> k.presentation,
                    recovery |-> k.recovery, root |-> m.root, profiles |-> m.profiles]
           u == [k EXCEPT !.body = body, !.old = m.outpoint, !.back = m.active]
       IN  IF m.active # Default THEN switchProfile(c, u, m, Default, "toDefault")
           ELSE Set(k.on, m) /\ IF m.underlying = NoProfile THEN Return(c)
                                ELSE Await(c, u, "create")
  ELSE Set(k.on, m) /\ Return(c)

----------------------------------------------------------------------------
(* Providing the keys *)

(* Fields of the manager an application sets. *)
chooseMode(d, mode) ==
  /\ ~manager[d].authenticated /\ Free(d) /\ mode # manager[d].mode
  /\ Set(d, [manager[d] EXCEPT !.mode = mode,
               !.flow = IF mode = "recovery-key-and-password" THEN "existing-user" ELSE @])
  /\ UNCHANGED <<snapshot, call, world, saved, random, calls, faults>>

providePresentationKey(c, d, k) ==
  /\ ~manager[d].authenticated /\ manager[d].mode # "recovery-key-and-password"
  /\ Starts(c, d)
  /\ Await(c, [NewCall(d, "providePresentationKey") EXCEPT !.presentation = k], "lookup")
  /\ UNCHANGED <<manager, random>>

(* An existing user's password is derived with the token's salt; a new     *)
(* user is given a recovery key to save first.                             *)
providePassword(c, d, p) ==
  LET m == manager[d] k == NewCall(d, "providePassword") IN
  /\ ~m.authenticated /\ m.mode # "presentation-key-and-recovery-key"
  /\ Starts(c, d)
  /\ \/ /\ m.flow = "existing-user" /\ m.token # NoToken
        /\ Await(c, [k EXCEPT !.key = [password |-> p, salt |-> m.token.salt]], "derive")
        /\ UNCHANGED <<manager, random>>
     \/ /\ m.flow = "new-user" /\ m.mode = "presentation-key-and-password"
        /\ m.presentation # NoKey
        /\ Draw
        /\ Await(c, [k EXCEPT !.key = [password |-> p, salt |-> Fresh], !.salt = Fresh,
                              !.recovery = Fresh, !.root = Fresh], "save")
        /\ UNCHANGED manager

(* The keys provided decrypt the root key of the current token. *)
Opens(m, key) ==
  /\ m.token # NoToken /\ key = m.token.key
  /\ \/ m.mode = "presentation-key-and-password" /\ m.presentation = m.token.presentation
     \/ m.mode # "presentation-key-and-password" /\ m.recovery = m.token.recovery

PasswordDerived(c) ==
  /\ Running(c, "derive") /\ call[c].op = "providePassword"
  /\ LET m == M(c) IN
     IF Opens(m, call[c].key)
     THEN switchProfile(c, call[c], setupRootInfrastructure(m, m.token.root), m.active, "build")
     ELSE Reject(c)
  /\ UNCHANGED <<snapshot, world, saved, random, calls, faults>>

provideRecoveryKey(c, d, r) ==
  LET m == manager[d] k == [NewCall(d, "provideRecoveryKey") EXCEPT !.recovery = r] IN
  /\ ~m.authenticated /\ m.flow # "new-user" /\ m.mode # "presentation-key-and-password"
  /\ Starts(c, d)
  /\ IF m.mode = "recovery-key-and-password"
     THEN Await(c, k, "lookup") /\ UNCHANGED manager
     ELSE /\ m.presentation # NoKey /\ m.token # NoToken
          /\ m.presentation = m.token.presentation /\ r = m.token.recovery
          /\ switchProfile(c, k, setupRootInfrastructure(m, m.token.root), m.active, "build")
  /\ UNCHANGED random

(* The new user: keys and token made, the wallet built. *)
NewUser(c) ==
  LET k == call[c] m == M(c)
      body == [salt |-> k.salt, key |-> k.key, presentation |-> m.presentation,
               recovery |-> k.recovery, root |-> k.root, profiles |-> {}]
  IN
  /\ Running(c, "save") /\ k.op = "providePassword"
  /\ IF m.presentation = NoKey THEN Reject(c)
     ELSE switchProfile(c, [k EXCEPT !.body = body],
            setupRootInfrastructure([m EXCEPT !.token = body, !.outpoint = 0], k.root),
            Default, "new")
  /\ UNCHANGED <<snapshot, world, random, calls, faults>>

NewUserSaved_NotAwaited(c) == NewUser(c) /\ UNCHANGED saved   \* mutant: the save is not awaited

NewUserSaved(c) == NewUser(c) /\ saved' = saved \cup {call[c].recovery}

(* The new wallet is funded, or not; then the token is published with it.  *)
Funded(c) ==
  /\ Running(c, "fund")
  /\ IF M(c).underlying = NoProfile THEN Reject(c)
     ELSE Await(c, call[c], "create") /\ UNCHANGED manager
  /\ UNCHANGED <<snapshot, world, saved, random, calls, faults>>

----------------------------------------------------------------------------
(* Lookups *)

ByPresentation(k) == {i \in overlay : tokens[i].presentation = k}
ByRecovery(r) == {i \in overlay : tokens[i].recovery = r}

(* The overlay answers with some token, or none: 0. *)
Sought(k) ==
  CASE k.op = "providePresentationKey" -> ByPresentation(k.presentation)
    [] k.op = "provideRecoveryKey" -> ByRecovery(k.recovery)
    [] k.op = "syncUMPToken" -> IF ByPresentation(k.presentation) # {}
                                THEN ByPresentation(k.presentation) ELSE ByRecovery(k.recovery)
Answers(k) == IF Sought(k) = {} THEN {0} ELSE Sought(k)

With(m, i) == [m EXCEPT !.token = tokens[i], !.outpoint = i]

LookupAnswered(c) ==
  LET k == call[c] m == M(c) IN
  /\ Running(c, "lookup") /\ Return(c)
  /\ \E i \in Answers(k) :
       Set(k.on,
         CASE k.op = "providePresentationKey" /\ i = 0 ->
                [m EXCEPT !.flow = "new-user", !.presentation = k.presentation]
           [] k.op = "providePresentationKey" /\ i # 0 ->
                [With(m, i) EXCEPT !.flow = "existing-user", !.presentation = k.presentation]
           [] k.op = "provideRecoveryKey" /\ i # 0 ->
                [With(m, i) EXCEPT !.recovery = k.recovery]
           [] k.op = "syncUMPToken" /\ i # 0 /\ i # k.old ->
                setupRootInfrastructure(With(m, i), m.root)
           [] OTHER -> m)
  /\ UNCHANGED <<snapshot, world, saved, random, calls, faults>>

syncUMPToken(c, d) ==
  LET m == manager[d] IN
  /\ m.authenticated /\ m.token # NoToken /\ m.root # NoKey
  /\ Starts(c, d)
  /\ Await(c, [NewCall(d, "syncUMPToken") EXCEPT !.presentation = m.token.presentation,
                 !.recovery = m.token.recovery, !.old = m.outpoint], "lookup")
  /\ UNCHANGED <<manager, random>>

----------------------------------------------------------------------------
(* Profiles and keys changed *)

switchProfileCall(c, d, p) ==
  /\ CanSwitch(manager[d], p)
  /\ Starts(c, d)
  /\ switchProfile(c, NewCall(d, "switchProfile"), manager[d], p, "build")
  /\ UNCHANGED random

(* What is read before the privileged key is asked for. *)
AskWithPassword(c, k, m) ==
  Await(c, [k EXCEPT !.key = m.token.key, !.salt = m.token.salt, !.root = m.token.root], "prompt")

addProfile(c, d) ==
  LET m == manager[d] IN
  /\ Initialized(m) /\ Starts(c, d) /\ Draw
  /\ Set(d, [m EXCEPT !.profiles = @ \cup {Fresh}])
  /\ AskWithPassword(c, NewCall(d, "addProfile"), m)

deleteProfile(c, d, p) ==
  LET m == [manager[d] EXCEPT !.profiles = @ \ {p}] k == NewCall(d, "deleteProfile") IN
  /\ Initialized(manager[d]) /\ p \in manager[d].profiles /\ Starts(c, d)
  /\ IF m.active = p THEN switchProfile(c, k, m, Default, "rebuild")
     ELSE Set(d, m) /\ AskWithPassword(c, k, m)
  /\ UNCHANGED random

changePassword_OldSalt(c, d, p) ==     \* mutant: the token keeps its salt
  /\ Initialized(manager[d]) /\ Starts(c, d) /\ Draw
  /\ Await(c, [NewCall(d, "changePassword") EXCEPT
                 !.key = [password |-> p, salt |-> Fresh], !.salt = manager[d].token.salt],
           "derive")
  /\ UNCHANGED manager

changePassword(c, d, p) ==
  /\ Initialized(manager[d]) /\ Starts(c, d) /\ Draw
  /\ Await(c, [NewCall(d, "changePassword") EXCEPT
                 !.key = [password |-> p, salt |-> Fresh], !.salt = Fresh], "derive")
  /\ UNCHANGED manager

NewPasswordDerived(c) ==
  LET m == M(c) IN
  /\ Running(c, "derive") /\ call[c].op = "changePassword"
  /\ IF FactorReady(m)
     THEN Await(c, [call[c] EXCEPT !.recovery = m.token.recovery, !.root = m.token.root], "prompt")
     ELSE Return(c)
  /\ UNCHANGED <<manager, snapshot, world, saved, random, calls, faults>>

changeRecoveryKey(c, d) ==
  /\ Initialized(manager[d]) /\ Starts(c, d)
  /\ AskWithPassword(c, NewCall(d, "changeRecoveryKey"), manager[d])
  /\ UNCHANGED <<manager, random>>

changePresentationKey(c, d, p) ==
  LET m == manager[d] IN
  /\ Initialized(m) /\ Starts(c, d)
  /\ Await(c, [NewCall(d, "changePresentationKey") EXCEPT !.presentation = p,
                 !.recovery = m.token.recovery, !.root = m.token.root], "prompt")
  /\ UNCHANGED <<manager, random>>

(* The privileged key is of the user the factor was read of, and of the    *)
(* current root key.                                                       *)
Decrypts(k, m) == FactorReady(m) /\ m.token.root = k.root /\ m.token.root = m.root

(* The privileged key is there: the other factors are read from what is    *)
(* now the current token.                                                  *)
PromptAnswered(c) ==
  LET k == call[c] m == M(c) t == m.token IN
  /\ Running(c, "prompt")
  /\ IF ~Decrypts(k, m) THEN Reject(c) /\ UNCHANGED random
     ELSE CASE k.op \in {"addProfile", "deleteProfile"} ->
                 /\ updateAuthFactors(c, [k EXCEPT !.presentation = t.presentation,
                                                   !.recovery = t.recovery], m)
                 /\ UNCHANGED random
            [] k.op = "changePassword" ->
                 /\ updateAuthFactors(c, [k EXCEPT !.presentation = t.presentation], m)
                 /\ UNCHANGED random
            [] k.op = "changePresentationKey" ->
                 /\ updateAuthFactors(c, [k EXCEPT !.key = t.key, !.salt = t.salt], m)
                 /\ UNCHANGED random
            [] k.op = "changeRecoveryKey" ->
                 /\ Draw /\ UNCHANGED manager
                 /\ Await(c, [k EXCEPT !.presentation = t.presentation, !.recovery = Fresh], "save")
  /\ UNCHANGED <<snapshot, world, saved, calls, faults>>

(* The new recovery key is saved by the user before it is published.       *)
RecoveryKeySaved(c) ==
  LET k == call[c] m == M(c) IN
  /\ Running(c, "save") /\ k.op = "changeRecoveryKey"
  /\ saved' = saved \cup {k.recovery}
  /\ IF m.token = NoToken THEN Reject(c)
     ELSE updateAuthFactors(c, [k EXCEPT !.salt = m.token.salt], m)
  /\ UNCHANGED <<snapshot, world, random, calls, faults>>

----------------------------------------------------------------------------
(* buildAndSend *)

(* The old token is consumed if the overlay knows it; a transaction that   *)
(* cannot be made is tried once more without it.                           *)
CreateToken(c) ==
  LET k == call[c]
      Publish(consumed) ==
        /\ tokens' = Append(tokens, k.body)
        /\ spent' = spent \cup (consumed \ {0})
        /\ Await(c, [k EXCEPT !.outpoint = Len(tokens) + 1,
                              !.old = IF consumed = {} THEN 0 ELSE k.old], "announce")
  IN
  /\ Running(c, "create")
  /\ \/ k.old \in overlay \ spent /\ Publish({k.old}) /\ UNCHANGED faults
     \/ ~(k.old \in overlay \ spent) /\ Publish({}) /\ UNCHANGED faults
     \/ k.old \in overlay \ spent /\ Publish({}) /\ Fails("create")
  /\ UNCHANGED <<manager, snapshot, overlay, saved, random, calls>>

SwitchBack_NotRebuilt(c, k, m) ==    \* mutant: the profile is back without its wallet
  Set(k.on, [m EXCEPT !.active = k.back]) /\ Return(c)

(* Back to the profile that was active, published or not. *)
SwitchBack(c, k, m) ==
  IF k.back # Default THEN switchProfile(c, k, m, k.back, "back")
  ELSE Set(k.on, m) /\ Return(c)

PublishFails(c) ==
  /\ \/ Running(c, "create") /\ Fails("create")
     \/ Running(c, "announce") /\ Fails("overlay")
  /\ SwitchBack(c, [call[c] EXCEPT !.body = NoToken], M(c))
  /\ UNCHANGED <<snapshot, world, saved, random, calls>>

(* A presentation key the manager keeps is changed once all this is done.  *)
Renewed(k, m) ==
  IF k.op = "changePresentationKey" /\ k.body # NoToken /\ m.presentation # NoKey
  THEN [m EXCEPT !.presentation = k.presentation] ELSE m

(* The overlay is told; its answer is not looked at. *)
Announce(c) ==
  LET k == call[c] m == M(c) IN
  /\ Running(c, "announce")
  /\ \/ overlay' = (overlay \ {k.old}) \cup {k.outpoint} /\ UNCHANGED faults
     \/ Fails("overlay") /\ UNCHANGED overlay
  /\ IF k.op # "providePassword"
     THEN LET told == [m EXCEPT !.token = k.body, !.outpoint = k.outpoint] IN
          SwitchBack(c, k, IF k.back = Default THEN Renewed(k, told) ELSE told)
     ELSE /\ Set(k.on, IF m.token = k.body THEN [m EXCEPT !.outpoint = k.outpoint] ELSE m)
          /\ Return(c)
  /\ UNCHANGED <<snapshot, tokens, spent, saved, random, calls>>

----------------------------------------------------------------------------
(* The builder returns *)

BuildEnds(c) ==
  /\ Running(c, "build") \/ Running(c, "back")
  /\ Return(c)
  /\ Set(call[c].on, IF call[c].op = "loadSnapshot"
                     THEN [Built(c) EXCEPT !.flow = "existing-user"]
                     ELSE Renewed(call[c], Built(c)))
  /\ UNCHANGED <<snapshot, world, saved, random, calls, faults>>

DefaultBuilt(c) ==
  /\ \/ Running(c, "new") /\ Await(c, call[c], "fund")
     \/ Running(c, "toDefault") /\ Await(c, call[c], "create")
     \/ /\ Running(c, "rebuild")
        /\ IF FactorReady(M(c)) THEN AskWithPassword(c, call[c], M(c)) ELSE Return(c)
  /\ Set(call[c].on, Built(c))
  /\ UNCHANGED <<snapshot, world, saved, random, calls, faults>>

BuilderThrows(c) ==
  /\ \E step \in {"build", "rebuild", "toDefault", "back", "new"} : Running(c, step)
  /\ Fails("builder") /\ Return(c)
  /\ Set(call[c].on, IF call[c].op = "loadSnapshot" THEN Destroyed ELSE [M(c) EXCEPT !.built = FALSE])
  /\ UNCHANGED <<snapshot, world, saved, random, calls>>

(* A lookup fails, or the user gives no password, or does not save a key.  *)
CallThrows(c) ==
  /\ \/ Running(c, "lookup") /\ Fails("lookup")
     \/ (Running(c, "prompt") \/ Running(c, "save")) /\ Fails("user")
  /\ Reject(c)
  /\ UNCHANGED <<snapshot, world, saved, random, calls>>

----------------------------------------------------------------------------
(* Snapshots, and the end of a session *)

saveSnapshot(d) ==
  LET m == manager[d] IN
  /\ m.root # NoKey /\ m.token # NoToken /\ m.outpoint # 0
  /\ snapshot' = [snapshot EXCEPT ![d] =
       [root |-> m.root, token |-> m.token, outpoint |-> m.outpoint, active |-> m.active]]
  /\ UNCHANGED <<manager, call, world, saved, random, calls, faults>>

loadSnapshot(c, d) ==
  LET s == snapshot[d]
      m == setupRootInfrastructure(
             [manager[d] EXCEPT !.token = s.token, !.outpoint = s.outpoint], s.root)
  IN
  /\ s # NoSnapshot /\ Starts(c, d)
  /\ IF CanSwitch(m, s.active)
     THEN switchProfile(c, NewCall(d, "loadSnapshot"), m, s.active, "build")
     ELSE Set(d, Destroyed) /\ UNCHANGED call
  /\ UNCHANGED random

destroy(d) ==
  /\ manager[d] # Destroyed
  /\ faults < MaxFaults /\ faults' = faults + 1
  /\ Set(d, Destroyed)
  /\ UNCHANGED <<snapshot, call, world, saved, random, calls>>

Restart(d) ==
  /\ faults < MaxFaults /\ faults' = faults + 1
  /\ Set(d, Destroyed)
  /\ call' = [c \in Calls |-> IF call[c] # NoCall /\ call[c].on = d THEN NoCall ELSE call[c]]
  /\ UNCHANGED <<snapshot, world, saved, random, calls>>

----------------------------------------------------------------------------

Application(c, d) ==
  \/ \E k \in PresentationKeys : providePresentationKey(c, d, k) \/ changePresentationKey(c, d, k)
  \/ \E p \in Passwords : providePassword(c, d, p) \/ changePassword(c, d, p)
  \/ \E r \in saved : provideRecoveryKey(c, d, r)
  \/ addProfile(c, d) \/ changeRecoveryKey(c, d) \/ syncUMPToken(c, d) \/ loadSnapshot(c, d)
  \/ \E p \in {Default} \cup manager[d].profiles :
       switchProfileCall(c, d, p) \/ deleteProfile(c, d, p)

CallStep(c) ==
  \/ LookupAnswered(c) \/ PasswordDerived(c) \/ NewPasswordDerived(c) \/ NewUserSaved(c)
  \/ Funded(c) \/ PromptAnswered(c) \/ RecoveryKeySaved(c) \/ CreateToken(c) \/ Announce(c)
  \/ BuildEnds(c) \/ DefaultBuilt(c)

Next ==
  \/ \E c \in Calls : \/ \E d \in Devices : Application(c, d)
                      \/ CallStep(c) \/ PublishFails(c) \/ BuilderThrows(c) \/ CallThrows(c)
  \/ \E d \in Devices : \/ saveSnapshot(d) \/ destroy(d) \/ Restart(d)
                        \/ \E mode \in Modes : chooseMode(d, mode)

Spec == Init /\ [][Next]_vars

----------------------------------------------------------------------------
(* Properties *)

(* The values of the variables. *)
TypeOK ==
  /\ manager \in [Devices -> ManagerType]
  /\ snapshot \in [Devices -> SnapshotType \cup {NoSnapshot}]
  /\ call \in [Calls -> CallType \cup {NoCall}]
  /\ tokens \in Seq(TokenType)
  /\ spent \subseteq Nat /\ overlay \subseteq DOMAIN tokens
  /\ saved \subseteq Nat
  /\ random \in Nat /\ calls \in Nat /\ faults \in Nat

(* Between calls, the wallet calls go to is that of the active profile:    *)
(* the manager is back on it after the default profile's wallet published  *)
(* a token, or failed to, and after the active profile was deleted (a      *)
(* wallet builder that throws leaves the old wallet to the new profile).   *)
ActiveIsUnderlying ==
  \A d \in Devices :
    (/\ \A c \in Calls : call[c] # NoCall => call[c].on # d
     /\ manager[d].authenticated /\ manager[d].underlying # NoProfile /\ manager[d].built)
    => manager[d].underlying = manager[d].active

(* The password of a token opens it with the token's own salt, whatever    *)
(* the calls that gathered its factors.                                    *)
PasswordOpens == \A i \in DOMAIN tokens : tokens[i].key.salt = tokens[i].salt

(* No token is published with a recovery key the user has not saved.       *)
RecoveryKeyIsSaved == \A i \in DOMAIN tokens : tokens[i].recovery \in saved
=============================================================================

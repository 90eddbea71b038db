--------------------- MODULE CWIStyleWalletManagerProofs ---------------------
(***************************************************************************)
(* Whatever devices, keys and calls there are, and whatever fails between  *)
(* the steps of a call: no token is published with a recovery key that was *)
(* not saved; and, on devices that await a call before the next, the       *)
(* password of every token opens it, and wallet calls go to the active     *)
(* profile.                                                                *)
(***************************************************************************)
EXTENDS CWIStyleWalletManager, TLAPS

(* A token anyone may hold, when the user has saved these recovery keys:   *)
(* its own is one of them, and what its password is derived with is its    *)
(* own salt.                                                               *)
Sound(t, keys) ==
  /\ t \in TokenType /\ t.recovery \in keys
  /\ Serial => t.key.salt = t.salt

SoundManager(m, keys) == m \in ManagerType /\ (m.token # NoToken => Sound(m.token, keys))

(* What a call has gathered by each step is enough for a sound token.      *)
SoundCall(k, keys, published) ==
  /\ k \in CallType
  /\ k.op \in {"providePresentationKey", "syncUMPToken"} => k.step = "lookup"
  /\ k.step = "lookup" =>
       k.op \in {"providePresentationKey", "provideRecoveryKey", "syncUMPToken"}
  /\ k.step = "rebuild" => k.op = "deleteProfile"
  /\ k.step = "derive" =>
       k.key \in KeyType /\ (k.op = "changePassword" => k.key.salt = k.salt)
  /\ k.step = "save" =>
       /\ k.key \in KeyType /\ k.recovery \in Nat
       /\ k.op = "providePassword" => k.key.salt = k.salt /\ k.root \in Nat
       /\ k.op = "changeRecoveryKey" => k.presentation \in PresentationKeys
  /\ k.step = "prompt" =>
       /\ k.op \in {"addProfile", "deleteProfile", "changePassword", "changeRecoveryKey",
                    "changePresentationKey"}
       /\ k.op = "changePresentationKey" => k.presentation \in PresentationKeys
       /\ k.op # "changePresentationKey" =>
            k.key \in KeyType /\ (Serial => k.key.salt = k.salt)
       /\ k.op \in {"changePassword", "changePresentationKey"} => k.recovery \in keys
  /\ k.step \in {"new", "fund", "toDefault", "create", "announce"} => Sound(k.body, keys)
  /\ k.step = "announce" => k.outpoint \in published

Building == {"build", "rebuild", "toDefault", "back", "new"}

Steady(m) ==
  m.authenticated /\ m.underlying # NoProfile /\ m.built => m.underlying = m.active

(* A manager and the one call on it, or none, under Serial: a builder at   *)
(* work is building the active profile's wallet; otherwise it is there.    *)
Agrees(m, k) ==
  /\ ~m.authenticated => m.active = Default
  /\ IF k # NoCall /\ k.step \in Building
     THEN m.authenticated => m.active = k.profile ELSE Steady(m)
  /\ k # NoCall =>
       /\ k.op = "syncUMPToken" => m.authenticated \/ m.underlying = NoProfile
       /\ k.op = "providePassword" /\ k.step \in {"derive", "save"} => ~m.authenticated
       /\ k.op = "changeRecoveryKey" /\ k.step \in {"prompt", "save"} =>
            m.token = NoToken \/ m.token.key = k.key

Idle(d) == \A c \in Calls : call[c] # NoCall => call[c].on # d

OneCallEach ==
  \A c, e \in Calls :
    call[c] # NoCall /\ call[e] # NoCall /\ call[c].on = call[e].on => c = e

World ==
  /\ tokens \in Seq(TokenType) /\ \A i \in DOMAIN tokens : Sound(tokens[i], saved)
  /\ snapshot \in [Devices -> SnapshotType \cup {NoSnapshot}]
  /\ \A d \in Devices : snapshot[d] # NoSnapshot => Sound(snapshot[d].token, saved)
  /\ spent \subseteq Nat /\ overlay \subseteq DOMAIN tokens /\ saved \subseteq Nat
  /\ random \in Nat /\ calls \in Nat /\ faults \in Nat

ManagersSound == manager \in [Devices -> ManagerType] /\ \A d \in Devices : SoundManager(manager[d], saved)
CallsSound ==
  /\ call \in [Calls -> CallType \cup {NoCall}]
  /\ \A c \in Calls : call[c] # NoCall => SoundCall(call[c], saved, DOMAIN tokens)

AllAgree ==
  Serial =>
    /\ OneCallEach
    /\ \A c \in Calls : call[c] # NoCall => Agrees(manager[call[c].on], call[c])
    /\ \A d \in Devices : Idle(d) => Agrees(manager[d], NoCall)

Inv == World /\ ManagersSound /\ CallsSound /\ AllAgree

----------------------------------------------------------------------------

LEMMA DestroyedTyped ==
  /\ Destroyed \in ManagerType /\ Destroyed.token = NoToken
  /\ ~Destroyed.authenticated /\ Destroyed.active = Default
  /\ Destroyed.underlying = NoProfile
BY DEF Destroyed, ManagerType, Modes, Flows, Default

LEMMA InitInv == Init => Inv
<1> SUFFICES ASSUME Init PROVE Inv
  OBVIOUS
<1>1. tokens \in Registered
  BY DEF Init
<1>2. World
  <2>1. CASE tokens = <<>>
    BY <2>1 DEF Init, World
  <2>2. CASE tokens # <<>>
    <3>1. PICK p \in Passwords, k \in PresentationKeys :
            tokens = <<[salt |-> 1, key |-> [password |-> p, salt |-> 1], presentation |-> k,
                        recovery |-> 1, root |-> 1, profiles |-> {}]>>
      BY <1>1, <2>2 DEF Registered
    <3>2. tokens[1] \in TokenType /\ tokens[1].recovery = 1 /\ tokens[1].key.salt = tokens[1].salt
      BY <3>1 DEF TokenType, KeyType
    <3>3. tokens \in Seq(TokenType) /\ DOMAIN tokens = {1} /\ Len(tokens) = 1
      BY <3>1, <3>2
    <3>4. saved = {1}
      BY <3>2, <3>3 DEF Init
    <3> QED
      BY <3>2, <3>3, <3>4 DEF Init, World, Sound
  <2> QED
    BY <2>1, <2>2
<1>3. ManagersSound
  BY DestroyedTyped DEF Init, ManagersSound, SoundManager
<1>4. CallsSound
  BY DEF Init, CallsSound
<1>5. AllAgree
  BY DestroyedTyped DEF Init, AllAgree, OneCallEach, Agrees, Steady
<1> QED
  BY <1>2, <1>3, <1>4, <1>5 DEF Inv

(* What is sound stays so: saved keys and published tokens are kept.       *)
Kept == saved \subseteq saved' /\ DOMAIN tokens \subseteq DOMAIN tokens'

LEMMA SoundKept ==
  ASSUME Kept
  PROVE  /\ \A t : Sound(t, saved) => Sound(t, saved')
         /\ \A m : SoundManager(m, saved) => SoundManager(m, saved')
         /\ \A k : SoundCall(k, saved, DOMAIN tokens) => SoundCall(k, saved', DOMAIN tokens')
<1>1. \A t : Sound(t, saved) => Sound(t, saved')
  BY DEF Sound, Kept
<1>2. \A m : SoundManager(m, saved) => SoundManager(m, saved')
  BY <1>1 DEF SoundManager
<1>3. ASSUME NEW k, SoundCall(k, saved, DOMAIN tokens)
      PROVE  SoundCall(k, saved', DOMAIN tokens')
  BY <1>1, <1>3 DEF SoundCall, Kept
<1> QED
  BY <1>1, <1>2, <1>3

(* Call c may be, or become, the call on device d.                         *)
Mine(c, d) == IF call[c] = NoCall THEN Serial => Idle(d) ELSE call[c].on = d

(* A step of call c on device d leaves it with manager m and call k.       *)
LEMMA Turn ==
  ASSUME Inv, World', Kept,
         NEW c \in Calls, NEW d \in Devices, NEW m, NEW k, Mine(c, d),
         manager' = [manager EXCEPT ![d] = m], call' = [call EXCEPT ![c] = k],
         SoundManager(m, saved'), k # NoCall => SoundCall(k, saved', DOMAIN tokens') /\ k.on = d,
         Serial => Agrees(m, k)
  PROVE  Inv'
<1>1. /\ manager \in [Devices -> ManagerType] /\ call \in [Calls -> CallType \cup {NoCall}]
      /\ \A e \in Devices : SoundManager(manager[e], saved)
      /\ \A e \in Calls : call[e] # NoCall => SoundCall(call[e], saved, DOMAIN tokens)
  BY DEF Inv, ManagersSound, CallsSound
<1>2. /\ \A e \in Devices : manager'[e] = IF e = d THEN m ELSE manager[e]
      /\ \A e \in Calls : call'[e] = IF e = c THEN k ELSE call[e]
  BY <1>1
<1>3. ManagersSound'
  <2>1. \A e \in Devices : SoundManager(manager'[e], saved')
    BY <1>1, <1>2, SoundKept
  <2>2. m \in ManagerType
    BY DEF SoundManager
  <2> QED
    BY <1>1, <2>1, <2>2 DEF ManagersSound
<1>4. CallsSound'
  <2>1. \A e \in Calls : call'[e] # NoCall => SoundCall(call'[e], saved', DOMAIN tokens')
    BY <1>1, <1>2, SoundKept
  <2>2. k \in CallType \cup {NoCall}
    BY DEF SoundCall
  <2> QED
    BY <1>1, <2>1, <2>2 DEF CallsSound
<1>5. ASSUME Serial
      PROVE  /\ OneCallEach'
             /\ \A e \in Calls : call'[e] # NoCall => Agrees(manager'[call'[e].on], call'[e])
             /\ \A e \in Devices : Idle(e)' => Agrees(manager'[e], NoCall)
  <2>1. /\ OneCallEach
        /\ \A e \in Calls : call[e] # NoCall => Agrees(manager[call[e].on], call[e])
        /\ \A e \in Devices : Idle(e) => Agrees(manager[e], NoCall)
    BY <1>5 DEF Inv, AllAgree
  <2>2. \A e \in Calls \ {c} : call[e] # NoCall => call[e].on # d
    BY <1>5, <2>1 DEF Mine, Idle, OneCallEach
  <2>3. OneCallEach'
    BY <1>2, <2>1, <2>2 DEF OneCallEach
  <2>4. ASSUME NEW e \in Calls, call'[e] # NoCall
        PROVE  Agrees(manager'[call'[e].on], call'[e])
    <3>1. CASE e = c
      BY <1>2, <1>5, <2>4, <3>1
    <3>2. CASE e # c
      <4>1. call[e].on \in Devices
        BY <1>1, <1>2, <2>4, <3>2 DEF CallType
      <4> QED
        BY <1>2, <2>1, <2>2, <2>4, <3>2, <4>1
    <3> QED
      BY <3>1, <3>2
  <2>5. ASSUME NEW e \in Devices, Idle(e)'
        PROVE  Agrees(manager'[e], NoCall)
    <3>1. CASE e = d
      BY <1>2, <1>5, <2>5, <3>1 DEF Idle
    <3>2. CASE e # d
      <4>1. Idle(e)
        BY <1>2, <2>5, <3>2 DEF Idle, Mine
      <4> QED
        BY <1>2, <2>1, <3>2, <4>1
    <3> QED
      BY <3>1, <3>2
  <2> QED
    BY <2>3, <2>4, <2>5
<1>6. AllAgree'
  <2>1. CASE Serial
    BY <1>5, <2>1 DEF AllAgree
  <2>2. CASE ~Serial
    BY <2>2 DEF AllAgree
  <2> QED
    BY <2>1, <2>2
<1> QED
  BY <1>3, <1>4, <1>6 DEF Inv

(* The step ends the call: it has returned, or thrown.                     *)
LEMMA ReturnTurn ==
  ASSUME Inv, World', Kept,
         NEW c \in Calls, NEW d \in Devices, NEW m, Mine(c, d), Set(d, m), Return(c),
         SoundManager(m, saved'), Serial => Agrees(m, NoCall)
  PROVE  Inv'
<1> DEFINE k == NoCall
<1>1. call' = [call EXCEPT ![c] = k] /\ manager' = [manager EXCEPT ![d] = m]
  BY DEF Return, Set
<1>2. k # NoCall => SoundCall(k, saved', DOMAIN tokens') /\ k.on = d
  OBVIOUS
<1>3. Serial => Agrees(m, k)
  OBVIOUS
<1> HIDE DEF k
<1> QED
  BY <1>1, <1>2, <1>3, Turn

(* Or it waits for the next thing, the manager as m.                       *)
LEMMA AwaitTurn ==
  ASSUME Inv, World', Kept,
         NEW c \in Calls, NEW d \in Devices, NEW m, NEW k, NEW step, Mine(c, d),
         Set(d, m), Await(c, k, step), SoundManager(m, saved'),
         SoundCall([k EXCEPT !.step = step], saved', DOMAIN tokens'),
         [k EXCEPT !.step = step].on = d, Serial => Agrees(m, [k EXCEPT !.step = step])
  PROVE  Inv'
<1> DEFINE next == [k EXCEPT !.step = step]
<1>1. call' = [call EXCEPT ![c] = next] /\ manager' = [manager EXCEPT ![d] = m]
  BY DEF Await, Set
<1>2. SoundCall(next, saved', DOMAIN tokens') /\ next.on = d
  OBVIOUS
<1>3. Serial => Agrees(m, next)
  OBVIOUS
<1> HIDE DEF next
<1> QED
  BY <1>1, <1>2, <1>3, Turn

LEMMA SwitchTurn ==
  ASSUME Inv, World', Kept,
         NEW c \in Calls, NEW k \in CallType, NEW m, NEW p \in Nat, NEW step \in Building,
         Mine(c, k.on), switchProfile(c, k, m, p, step), SoundManager(m, saved'),
         k.op \notin {"providePresentationKey", "syncUMPToken"},
         step = "rebuild" => k.op = "deleteProfile",
         step \in {"new", "toDefault"} => Sound(k.body, saved'),
         Serial /\ ~CanSwitch(m, p) => Agrees(m, NoCall)
  PROVE  Inv'
<1> DEFINE switched == [m EXCEPT !.active = p]
           next == [k EXCEPT !.profile = p]
<1>1. k.on \in Devices /\ step \in Steps
  BY DEF CallType, Building, Steps
<1>2. CASE CanSwitch(m, p)
  <2>1. Set(k.on, switched) /\ Await(c, next, step)
    BY <1>2 DEF switchProfile
  <2>2. switched \in ManagerType /\ switched.token = m.token /\ switched.active = p
        /\ switched.authenticated
    BY <1>2 DEF SoundManager, ManagerType, CanSwitch
  <2>3. SoundManager(switched, saved')
    BY <2>2 DEF SoundManager
  <2>4. /\ [next EXCEPT !.step = step] \in CallType /\ [next EXCEPT !.step = step].step = step
        /\ [next EXCEPT !.step = step].on = k.on /\ [next EXCEPT !.step = step].op = k.op
        /\ [next EXCEPT !.step = step].body = k.body
        /\ [next EXCEPT !.step = step].profile = p
    BY <1>1 DEF CallType
  <2> HIDE DEF switched, next
  <2>5. SoundCall([next EXCEPT !.step = step], saved', DOMAIN tokens')
    BY <2>4 DEF SoundCall, Building
  <2>6. Agrees(switched, [next EXCEPT !.step = step])
    BY <2>2, <2>4, NullsAssumption DEF Agrees, Building
  <2> QED
    BY <1>1, <2>1, <2>3, <2>4, <2>5, <2>6, AwaitTurn
<1>3. CASE ~CanSwitch(m, p)
  <2>1. Set(k.on, m) /\ Return(c)
    BY <1>3 DEF switchProfile
  <2> QED
    BY <1>1, <1>3, <2>1, ReturnTurn
<1> QED
  BY <1>2, <1>3

(* The factors gathered make a sound token, which the call goes on to      *)
(* publish from the default profile.                                       *)
LEMMA UpdateTurn ==
  ASSUME Inv, World', Kept,
         NEW c \in Calls, NEW k \in CallType, NEW m, Mine(c, k.on),
         updateAuthFactors(c, k, m), SoundManager(m, saved'),
         k.op \notin {"providePresentationKey", "syncUMPToken"},
         k.key \in KeyType, Serial => k.key.salt = k.salt,
         k.presentation \in PresentationKeys, k.recovery \in saved',
         Serial => Agrees(m, NoCall)
  PROVE  Inv'
<1> DEFINE body == [salt |-> k.salt, key |-> k.key, presentation |-> k.presentation,
                    recovery |-> k.recovery, root |-> m.root, profiles |-> m.profiles]
           u == [k EXCEPT !.body = body, !.old = m.outpoint, !.back = m.active]
<1>1. k.on \in Devices /\ k.salt \in Nat /\ k.recovery \in Nat
  BY DEF CallType, World
<1>2. CASE m.authenticated /\ m.root # NoKey /\ m.outpoint # 0
  <2>1. m.root \in Nat /\ m.profiles \subseteq Nat /\ m.outpoint \in Nat /\ m.active \in Nat
    BY <1>2 DEF SoundManager, ManagerType
  <2>2. body \in TokenType /\ body.recovery = k.recovery /\ body.key = k.key /\ body.salt = k.salt
    BY <1>1, <2>1 DEF TokenType
  <2>3. Sound(body, saved')
    BY <2>2 DEF Sound
  <2> HIDE DEF body
  <2>4. u \in CallType /\ u.on = k.on /\ u.op = k.op /\ u.body = body
    BY <2>1, <2>2 DEF CallType
  <2>5. IF m.active # Default THEN switchProfile(c, u, m, Default, "toDefault")
        ELSE Set(k.on, m) /\ IF m.underlying = NoProfile THEN Return(c)
                             ELSE Await(c, u, "create")
    BY <1>2, Zenon DEF updateAuthFactors, body
  <2> HIDE DEF u
  <2>6. CASE m.active # Default
    <3>1. switchProfile(c, u, m, Default, "toDefault") /\ "toDefault" \in Building
          /\ Default \in Nat
      BY <2>5, <2>6 DEF Building, Default
    <3> QED
      BY <2>3, <2>4, <3>1, SwitchTurn
  <2>7. CASE m.active = Default /\ m.underlying = NoProfile
    BY <1>1, <2>5, <2>7, ReturnTurn
  <2>8. CASE m.active = Default /\ m.underlying # NoProfile
    <3>1. Set(k.on, m) /\ Await(c, u, "create")
      BY <2>5, <2>8
    <3> DEFINE next == [u EXCEPT !.step = "create"]
    <3>2. next \in CallType /\ next.on = k.on /\ next.op = k.op /\ next.body = body
          /\ next.step = "create"
      BY <2>4 DEF CallType, Steps
    <3> HIDE DEF next
    <3>3. SoundCall(next, saved', DOMAIN tokens')
      BY <2>3, <3>2 DEF SoundCall
    <3>4. Serial => Agrees(m, next)
      BY <3>2 DEF Agrees, Building
    <3> QED
      BY <1>1, <3>1, <3>2, <3>3, <3>4, AwaitTurn DEF next
  <2> QED
    BY <2>6, <2>7, <2>8
<1>3. CASE ~(m.authenticated /\ m.root # NoKey /\ m.outpoint # 0)
  <2>1. Set(k.on, m) /\ Return(c)
    BY <1>3 DEF updateAuthFactors
  <2> QED
    BY <1>1, <2>1, ReturnTurn
<1> QED
  BY <1>2, <1>3

(* The factors read before the privileged key is asked for are the current *)
(* token's.                                                                *)
LEMMA AskTurn ==
  ASSUME Inv, World', Kept,
         NEW c \in Calls, NEW k \in CallType, NEW m, NEW n, Mine(c, k.on),
         Set(k.on, n), AskWithPassword(c, k, m), n.token = m.token, m.token # NoToken,
         SoundManager(m, saved'), SoundManager(n, saved'),
         k.op \in {"addProfile", "deleteProfile", "changeRecoveryKey"},
         Serial => Agrees(n, NoCall)
  PROVE  Inv'
<1> DEFINE asked == [k EXCEPT !.key = m.token.key, !.salt = m.token.salt, !.root = m.token.root]
           next == [asked EXCEPT !.step = "prompt"]
<1>1. /\ m.token \in TokenType /\ Sound(m.token, saved') /\ k.on \in Devices
      /\ m.token.key \in KeyType /\ m.token.salt \in Nat /\ m.token.root \in Nat
  BY DEF SoundManager, Sound, TokenType, CallType
<1>2. next \in CallType /\ next.on = k.on /\ next.op = k.op /\ next.step = "prompt"
      /\ next.key = m.token.key /\ next.salt = m.token.salt
  BY <1>1 DEF CallType, Steps
<1>3. Await(c, asked, "prompt")
  BY DEF AskWithPassword
<1> HIDE DEF asked
<1> HIDE DEF next
<1>4. SoundCall(next, saved', DOMAIN tokens')
  BY <1>1, <1>2 DEF SoundCall, Sound
<1>5. Serial => Agrees(n, next)
  BY <1>2 DEF Agrees, Building
<1> QED
  BY <1>1, <1>2, <1>3, <1>4, <1>5, AwaitTurn DEF next

----------------------------------------------------------------------------
(* What holds where a call goes on, and where one starts *)

LEMMA WorldKept ==
  ASSUME Inv, UNCHANGED <<snapshot, tokens, spent, overlay>>,
         saved \subseteq saved', saved' \subseteq Nat,
         random' \in Nat, calls' \in Nat, faults' \in Nat
  PROVE  World' /\ Kept
<1>1. World
  BY DEF Inv
<1>2. \A t : Sound(t, saved) => Sound(t, saved')
  BY DEF Sound
<1> QED
  BY <1>1, <1>2 DEF World, Kept

LEMMA CallGoesOn ==
  ASSUME Inv, NEW c \in Calls, NEW step, Running(c, step)
  PROVE  /\ call[c] # NoCall /\ call[c] \in CallType /\ call[c].step = step
         /\ SoundCall(call[c], saved, DOMAIN tokens)
         /\ call[c].on \in Devices /\ Mine(c, call[c].on)
         /\ M(c) \in ManagerType /\ SoundManager(M(c), saved)
         /\ Serial => Agrees(M(c), call[c])
<1>1. call[c] # NoCall /\ call[c].step = step
  BY DEF Running
<1>2. call[c] \in CallType /\ SoundCall(call[c], saved, DOMAIN tokens)
  BY <1>1 DEF Inv, CallsSound
<1>3. call[c].on \in Devices
  BY <1>2 DEF CallType
<1>4. M(c) \in ManagerType /\ SoundManager(M(c), saved)
  BY <1>3 DEF Inv, ManagersSound, M
<1>5. Serial => Agrees(M(c), call[c])
  BY <1>1 DEF Inv, AllAgree, M
<1> QED
  BY <1>1, <1>2, <1>3, <1>4, <1>5 DEF Mine

LEMMA CallStarts ==
  ASSUME Inv, NEW c \in Calls, NEW d \in Devices, Starts(c, d), random' \in Nat
  PROVE  /\ Mine(c, d) /\ World' /\ Kept /\ saved' = saved
         /\ manager[d] \in ManagerType /\ SoundManager(manager[d], saved')
         /\ Serial => Agrees(manager[d], NoCall)
<1>1. Mine(c, d) /\ (Serial => Idle(d))
  BY DEF Starts, Free, Mine, Idle
<1>2. World' /\ Kept
  <2>1. saved' = saved /\ calls' \in Nat /\ faults' \in Nat /\ saved' \subseteq Nat
        /\ UNCHANGED <<snapshot, tokens, spent, overlay>>
    BY DEF Inv, World, Starts, world
  <2> QED
    BY <2>1, WorldKept
<1>3. manager[d] \in ManagerType /\ SoundManager(manager[d], saved') /\ saved' = saved
  BY DEF Inv, ManagersSound, Starts
<1>4. Serial => Agrees(manager[d], NoCall)
  BY <1>1 DEF Inv, AllAgree
<1> QED
  BY <1>1, <1>2, <1>3, <1>4

LEMMA NewCallTyped ==
  ASSUME NEW d \in Devices, NEW op \in Ops
  PROVE  /\ NewCall(d, op) \in CallType
         /\ NewCall(d, op).on = d /\ NewCall(d, op).op = op
BY DEF NewCall, CallType, Steps, Default

LEMMA ManagerKept ==
  ASSUME Inv, UNCHANGED manager, NEW d \in Devices
  PROVE  Set(d, manager[d])
BY DEF Inv, ManagersSound, Set

----------------------------------------------------------------------------
(* Calls that start *)

LEMMA ProvidePresentationKeyStep ==
  ASSUME Inv, NEW c \in Calls, NEW d \in Devices, NEW p \in PresentationKeys,
         providePresentationKey(c, d, p)
  PROVE  Inv'
<1> DEFINE op == "providePresentationKey"
           k == [NewCall(d, op) EXCEPT !.presentation = p]
           next == [k EXCEPT !.step = "lookup"]
<1>1. NewCall(d, op) \in CallType /\ NewCall(d, op).on = d /\ NewCall(d, op).op = op
  BY NewCallTyped DEF Ops
<1>2. next \in CallType /\ next.on = d /\ next.op = op /\ next.step = "lookup"
  BY <1>1 DEF CallType, Steps
<1>3. Starts(c, d) /\ Await(c, k, "lookup") /\ random' \in Nat /\ UNCHANGED manager
  BY DEF providePresentationKey, Inv, World
<1> HIDE DEF k
<1> HIDE DEF next
<1>4. SoundCall(next, saved', DOMAIN tokens')
  BY <1>2 DEF SoundCall
<1>5. /\ Mine(c, d) /\ World' /\ Kept /\ SoundManager(manager[d], saved')
      /\ Serial => Agrees(manager[d], NoCall)
  BY <1>3, CallStarts
<1>6. Serial => Agrees(manager[d], next)
  BY <1>2, <1>5 DEF Agrees, Building
<1>7. Set(d, manager[d])
  BY <1>3, ManagerKept
<1> QED
  BY <1>2, <1>3, <1>4, <1>5, <1>6, <1>7, AwaitTurn DEF next

LEMMA DrawTyped ==
  ASSUME Inv, Draw
  PROVE  random' \in Nat /\ Fresh \in Nat
BY DEF Inv, World, Draw, Fresh

LEMMA ProvidePasswordStep ==
  ASSUME Inv, NEW c \in Calls, NEW d \in Devices, NEW p \in Passwords, providePassword(c, d, p)
  PROVE  Inv'
<1> DEFINE op == "providePassword"
           new == NewCall(d, op)
           m == manager[d]
<1>1. new \in CallType /\ new.on = d /\ new.op = op
  BY NewCallTyped DEF Ops
<1>2. m \in ManagerType /\ Starts(c, d) /\ UNCHANGED manager /\ ~m.authenticated
  BY DEF providePassword, Inv, ManagersSound
<1>3. Set(d, m)
  BY <1>2, ManagerKept
<1>4. CASE /\ m.token # NoToken /\ UNCHANGED random
           /\ Await(c, [new EXCEPT !.key = [password |-> p, salt |-> m.token.salt]], "derive")
  <2> DEFINE k == [new EXCEPT !.key = [password |-> p, salt |-> m.token.salt]]
             next == [k EXCEPT !.step = "derive"]
  <2>1. m.token \in TokenType
    BY <1>2, <1>4 DEF ManagerType
  <2>2. [password |-> p, salt |-> m.token.salt] \in KeyType
    BY <2>1 DEF KeyType, TokenType
  <2>3. /\ next \in CallType /\ next.on = d /\ next.op = op /\ next.step = "derive"
        /\ next.key \in KeyType
    BY <1>1, <2>2 DEF CallType, Steps
  <2>4. random' \in Nat /\ Await(c, k, "derive")
    BY <1>4 DEF Inv, World
  <2> HIDE DEF k, new
  <2> HIDE DEF next
  <2>5. SoundCall(next, saved', DOMAIN tokens')
    BY <2>3 DEF SoundCall
  <2>6. /\ Mine(c, d) /\ World' /\ Kept /\ SoundManager(m, saved')
        /\ Serial => Agrees(m, NoCall)
    BY <1>2, <2>4, CallStarts
  <2>7. Serial => Agrees(m, next)
    BY <1>2, <2>3, <2>6 DEF Agrees, Building
  <2> HIDE DEF m
  <2> QED
    BY <1>3, <2>3, <2>4, <2>5, <2>6, <2>7, AwaitTurn DEF next
<1>5. CASE /\ Draw
           /\ Await(c, [new EXCEPT !.key = [password |-> p, salt |-> Fresh], !.salt = Fresh,
                                   !.recovery = Fresh, !.root = Fresh], "save")
  <2> DEFINE k == [new EXCEPT !.key = [password |-> p, salt |-> Fresh], !.salt = Fresh,
                              !.recovery = Fresh, !.root = Fresh]
             next == [k EXCEPT !.step = "save"]
  <2>1. random' \in Nat /\ Fresh \in Nat
    BY <1>5, DrawTyped
  <2>2. [password |-> p, salt |-> Fresh] \in KeyType /\ [password |-> p, salt |-> Fresh].salt = Fresh
    BY <2>1 DEF KeyType
  <2>3. /\ next \in CallType /\ next.on = d /\ next.op = op /\ next.step = "save"
        /\ next.key \in KeyType /\ next.key.salt = next.salt
        /\ next.recovery \in Nat /\ next.root \in Nat
    BY <1>1, <2>1, <2>2 DEF CallType, Steps
  <2>4. Await(c, k, "save")
    BY <1>5
  <2> HIDE DEF k, new
  <2> HIDE DEF next
  <2>5. SoundCall(next, saved', DOMAIN tokens')
    BY <2>3 DEF SoundCall
  <2>6. /\ Mine(c, d) /\ World' /\ Kept /\ SoundManager(m, saved')
        /\ Serial => Agrees(m, NoCall)
    BY <1>2, <2>1, CallStarts
  <2>7. Serial => Agrees(m, next)
    BY <1>2, <2>3, <2>6 DEF Agrees, Building
  <2> HIDE DEF m
  <2> QED
    BY <1>3, <2>3, <2>4, <2>5, <2>6, <2>7, AwaitTurn DEF next
<1> QED
  BY <1>4, <1>5 DEF providePassword

LEMMA SetupTyped ==
  ASSUME NEW keys, NEW m, SoundManager(m, keys), m.token # NoToken, NEW root \in Nat \cup {NoKey},
         NEW s, s = setupRootInfrastructure(m, root)
  PROVE  /\ s \in ManagerType /\ SoundManager(s, keys)
         /\ s.token = m.token /\ s.root = root /\ s.keyManager
         /\ s.active = m.active /\ s.underlying = m.underlying /\ s.built = m.built
         /\ IF Loads(m, root) THEN s.authenticated ELSE s.authenticated = m.authenticated
<1>1. m \in ManagerType /\ m.token \in TokenType /\ m.token.profiles \subseteq Nat
  BY DEF SoundManager, Sound, TokenType
<1>2. CASE Loads(m, root)
  <2>1. s = [m EXCEPT !.root = root, !.keyManager = TRUE, !.profiles = m.token.profiles,
                      !.authenticated = TRUE]
    BY <1>2 DEF setupRootInfrastructure
  <2> QED
    BY <1>1, <1>2, <2>1 DEF ManagerType, SoundManager
<1>3. CASE ~Loads(m, root)
  <2>1. s = [m EXCEPT !.root = root, !.keyManager = TRUE, !.profiles = {}]
    BY <1>3 DEF setupRootInfrastructure
  <2> QED
    BY <1>1, <1>3, <2>1 DEF ManagerType, SoundManager
<1> QED
  BY <1>2, <1>3

(* Who opens the token is authenticated on the default profile.            *)
LEMMA LoginTurn ==
  ASSUME Inv, World', Kept, NEW c \in Calls, NEW k \in CallType, NEW m, Mine(c, k.on),
         SoundManager(m, saved'), m.token # NoToken,
         k.op \in {"providePassword", "provideRecoveryKey"}, Serial => m.active = Default,
         switchProfile(c, k, setupRootInfrastructure(m, m.token.root), m.active, "build")
  PROVE  Inv'
<1>1. PICK s : s = setupRootInfrastructure(m, m.token.root)
  OBVIOUS
<1>2. m.token.root \in Nat /\ m.active \in Nat
  BY DEF SoundManager, Sound, TokenType, ManagerType
<1>3. /\ SoundManager(s, saved') /\ s.root = m.token.root /\ s.keyManager
      /\ IF Loads(m, m.token.root) THEN s.authenticated ELSE s.authenticated = m.authenticated
  BY <1>1, <1>2, SetupTyped
<1>4. Loads(m, m.token.root)
  BY DEF Loads
<1>5. Serial => CanSwitch(s, m.active)
  BY <1>2, <1>3, <1>4, NullsAssumption DEF CanSwitch
<1>6. switchProfile(c, k, s, m.active, "build") /\ "build" \in Building
  BY <1>1 DEF Building
<1> QED
  BY <1>2, <1>3, <1>5, <1>6, SwitchTurn

LEMMA ProvideRecoveryKeyStep ==
  ASSUME Inv, NEW c \in Calls, NEW d \in Devices, NEW r \in saved, provideRecoveryKey(c, d, r)
  PROVE  Inv'
<1> DEFINE op == "provideRecoveryKey"
           k == [NewCall(d, op) EXCEPT !.recovery = r]
           next == [k EXCEPT !.step = "lookup"]
           m == manager[d]
<1>1. NewCall(d, op) \in CallType /\ NewCall(d, op).on = d /\ NewCall(d, op).op = op
  BY NewCallTyped DEF Ops
<1>2. r \in Nat
  BY DEF Inv, World
<1>3. /\ k \in CallType /\ k.on = d /\ k.op = op
      /\ next \in CallType /\ next.on = d /\ next.op = op /\ next.step = "lookup"
  BY <1>1, <1>2 DEF CallType, Steps
<1>4. /\ Starts(c, d) /\ random' \in Nat /\ ~m.authenticated
      /\ \/ Await(c, k, "lookup") /\ UNCHANGED manager
         \/ /\ m.token # NoToken
            /\ switchProfile(c, k, setupRootInfrastructure(m, m.token.root), m.active, "build")
  BY DEF provideRecoveryKey, Inv, World
<1> HIDE DEF k
<1> HIDE DEF next
<1>5. /\ Mine(c, d) /\ World' /\ Kept /\ SoundManager(m, saved')
      /\ Serial => Agrees(m, NoCall)
  BY <1>4, CallStarts
<1>6. CASE Await(c, k, "lookup") /\ UNCHANGED manager
  <2>1. SoundCall(next, saved', DOMAIN tokens')
    BY <1>3 DEF SoundCall
  <2>2. Serial => Agrees(m, next)
    BY <1>3, <1>5 DEF Agrees, Building
  <2>3. Set(d, m)
    BY <1>6, ManagerKept
  <2> HIDE DEF m
  <2> QED
    BY <1>3, <1>5, <1>6, <2>1, <2>2, <2>3, AwaitTurn DEF next
<1>7. CASE /\ m.token # NoToken
           /\ switchProfile(c, k, setupRootInfrastructure(m, m.token.root), m.active, "build")
  <2>1. Serial => m.active = Default
    BY <1>4, <1>5 DEF Agrees
  <2> HIDE DEF m
  <2> QED
    BY <1>3, <1>5, <1>7, <2>1, LoginTurn
<1> QED
  BY <1>4, <1>6, <1>7

LEMMA SyncUMPTokenStep ==
  ASSUME Inv, NEW c \in Calls, NEW d \in Devices, syncUMPToken(c, d)
  PROVE  Inv'
<1> DEFINE op == "syncUMPToken"
           m == manager[d]
           k == [NewCall(d, op) EXCEPT !.presentation = m.token.presentation,
                                       !.recovery = m.token.recovery, !.old = m.outpoint]
           next == [k EXCEPT !.step = "lookup"]
<1>1. NewCall(d, op) \in CallType /\ NewCall(d, op).on = d /\ NewCall(d, op).op = op
  BY NewCallTyped DEF Ops
<1>2. /\ Starts(c, d) /\ Await(c, k, "lookup") /\ random' \in Nat /\ UNCHANGED manager
      /\ m.authenticated /\ m.token # NoToken
  BY DEF syncUMPToken, Inv, World
<1>3. m.token \in TokenType /\ m.outpoint \in Nat
  BY <1>2 DEF Inv, ManagersSound, ManagerType
<1>4. next \in CallType /\ next.on = d /\ next.op = op /\ next.step = "lookup"
  BY <1>1, <1>3 DEF CallType, TokenType, Steps
<1> HIDE DEF k
<1> HIDE DEF next
<1>5. SoundCall(next, saved', DOMAIN tokens')
  BY <1>4 DEF SoundCall
<1>6. /\ Mine(c, d) /\ World' /\ Kept /\ SoundManager(m, saved')
      /\ Serial => Agrees(m, NoCall)
  BY <1>2, CallStarts
<1>7. Serial => Agrees(m, next)
  BY <1>2, <1>4, <1>6 DEF Agrees, Building
<1>8. Set(d, m)
  BY <1>2, ManagerKept
<1> HIDE DEF m
<1> QED
  BY <1>2, <1>4, <1>5, <1>6, <1>7, <1>8, AwaitTurn DEF next

LEMMA SwitchProfileStep ==
  ASSUME Inv, NEW c \in Calls, NEW d \in Devices, NEW p \in {Default} \cup manager[d].profiles,
         switchProfileCall(c, d, p)
  PROVE  Inv'
<1> DEFINE k == NewCall(d, "switchProfile")
           m == manager[d]
<1>1. k \in CallType /\ k.on = d /\ k.op = "switchProfile"
  BY NewCallTyped DEF Ops
<1>2. Starts(c, d) /\ CanSwitch(m, p) /\ switchProfile(c, k, m, p, "build") /\ random' \in Nat
  BY DEF switchProfileCall, Inv, World
<1>3. p \in Nat /\ "build" \in Building
  BY DEF Inv, ManagersSound, ManagerType, Default, Building
<1> HIDE DEF k
<1>4. Mine(c, d) /\ World' /\ Kept /\ SoundManager(m, saved')
  BY <1>2, CallStarts
<1> HIDE DEF m
<1> QED
  BY <1>1, <1>2, <1>3, <1>4, SwitchTurn

LEMMA AddProfileStep ==
  ASSUME Inv, NEW c \in Calls, NEW d \in Devices, addProfile(c, d)
  PROVE  Inv'
<1> DEFINE k == NewCall(d, "addProfile")
           m == manager[d]
           n == [m EXCEPT !.profiles = @ \cup {Fresh}]
<1>1. k \in CallType /\ k.on = d /\ k.op = "addProfile"
  BY NewCallTyped DEF Ops
<1>2. Starts(c, d) /\ Draw /\ Set(d, n) /\ AskWithPassword(c, k, m) /\ m.token # NoToken
  BY DEF addProfile, Initialized, FactorReady
<1>3. random' \in Nat /\ Fresh \in Nat
  BY <1>2, DrawTyped
<1> HIDE DEF k
<1>4. /\ Mine(c, d) /\ World' /\ Kept /\ m \in ManagerType /\ SoundManager(m, saved')
      /\ Serial => Agrees(m, NoCall)
  BY <1>2, <1>3, CallStarts
<1> HIDE DEF m
<1>5. /\ n \in ManagerType /\ n.token = m.token /\ n.authenticated = m.authenticated
      /\ n.active = m.active /\ n.underlying = m.underlying /\ n.built = m.built
  BY <1>3, <1>4 DEF ManagerType
<1> HIDE DEF n
<1>6. SoundManager(n, saved') /\ (Serial => Agrees(n, NoCall))
  BY <1>4, <1>5 DEF SoundManager, Agrees, Steady
<1> QED
  BY <1>1, <1>2, <1>4, <1>5, <1>6, AskTurn

LEMMA DeleteProfileStep ==
  ASSUME Inv, NEW c \in Calls, NEW d \in Devices, NEW p, deleteProfile(c, d, p)
  PROVE  Inv'
<1> DEFINE k == NewCall(d, "deleteProfile")
           m == manager[d]
           n == [m EXCEPT !.profiles = @ \ {p}]
<1>1. k \in CallType /\ k.on = d /\ k.op = "deleteProfile"
  BY NewCallTyped DEF Ops
<1>2. /\ Starts(c, d) /\ random' \in Nat /\ Initialized(m)
      /\ IF n.active = p THEN switchProfile(c, k, n, Default, "rebuild")
         ELSE Set(d, n) /\ AskWithPassword(c, k, n)
  BY DEF deleteProfile, Inv, World
<1> HIDE DEF k
<1>3. /\ Mine(c, d) /\ World' /\ Kept /\ m \in ManagerType /\ SoundManager(m, saved')
      /\ Serial => Agrees(m, NoCall)
  BY <1>2, CallStarts
<1> HIDE DEF m
<1>4. /\ n \in ManagerType /\ n.token = m.token /\ n.authenticated = m.authenticated
      /\ n.active = m.active /\ n.underlying = m.underlying /\ n.built = m.built
      /\ n.root = m.root /\ n.keyManager = m.keyManager
  BY <1>3 DEF ManagerType
<1> HIDE DEF n
<1>5. SoundManager(n, saved') /\ (Serial => Agrees(n, NoCall))
  BY <1>3, <1>4 DEF SoundManager, Agrees, Steady
<1>6. n.token # NoToken /\ CanSwitch(n, Default)
  BY <1>2, <1>4 DEF Initialized, FactorReady, CanSwitch
<1>7. CASE switchProfile(c, k, n, Default, "rebuild")
  <2>1. "rebuild" \in Building /\ Default \in Nat
    BY DEF Building, Default
  <2> QED
    BY <1>1, <1>3, <1>5, <1>6, <1>7, <2>1, SwitchTurn
<1>8. CASE Set(d, n) /\ AskWithPassword(c, k, n)
  BY <1>1, <1>3, <1>5, <1>6, <1>8, AskTurn
<1> QED
  BY <1>2, <1>7, <1>8

LEMMA ChangePasswordStep ==
  ASSUME Inv, NEW c \in Calls, NEW d \in Devices, NEW p \in Passwords, changePassword(c, d, p)
  PROVE  Inv'
<1> DEFINE op == "changePassword"
           m == manager[d]
           k == [NewCall(d, op) EXCEPT !.key = [password |-> p, salt |-> Fresh], !.salt = Fresh]
           next == [k EXCEPT !.step = "derive"]
<1>1. NewCall(d, op) \in CallType /\ NewCall(d, op).on = d /\ NewCall(d, op).op = op
  BY NewCallTyped DEF Ops
<1>2. Starts(c, d) /\ Draw /\ Await(c, k, "derive") /\ UNCHANGED manager
  BY DEF changePassword
<1>3. random' \in Nat /\ Fresh \in Nat
  BY <1>2, DrawTyped
<1>4. [password |-> p, salt |-> Fresh] \in KeyType /\ [password |-> p, salt |-> Fresh].salt = Fresh
  BY <1>3 DEF KeyType
<1>5. /\ next \in CallType /\ next.on = d /\ next.op = op /\ next.step = "derive"
      /\ next.key \in KeyType /\ next.key.salt = next.salt
  BY <1>1, <1>3, <1>4 DEF CallType, Steps
<1> HIDE DEF k
<1> HIDE DEF next
<1>6. SoundCall(next, saved', DOMAIN tokens')
  BY <1>5 DEF SoundCall
<1>7. /\ Mine(c, d) /\ World' /\ Kept /\ SoundManager(m, saved')
      /\ Serial => Agrees(m, NoCall)
  BY <1>2, <1>3, CallStarts
<1>8. Serial => Agrees(m, next)
  BY <1>5, <1>7 DEF Agrees, Building
<1>9. Set(d, m)
  BY <1>2, ManagerKept
<1> HIDE DEF m
<1> QED
  BY <1>2, <1>5, <1>6, <1>7, <1>8, <1>9, AwaitTurn DEF next

LEMMA ChangeRecoveryKeyStep ==
  ASSUME Inv, NEW c \in Calls, NEW d \in Devices, changeRecoveryKey(c, d)
  PROVE  Inv'
<1> DEFINE k == NewCall(d, "changeRecoveryKey")
           m == manager[d]
<1>1. k \in CallType /\ k.on = d /\ k.op = "changeRecoveryKey"
  BY NewCallTyped DEF Ops
<1>2. /\ Starts(c, d) /\ AskWithPassword(c, k, m) /\ m.token # NoToken
      /\ random' \in Nat /\ UNCHANGED manager
  BY DEF changeRecoveryKey, Initialized, FactorReady, Inv, World
<1>3. Set(d, m)
  BY <1>2, ManagerKept
<1> HIDE DEF k
<1>4. /\ Mine(c, d) /\ World' /\ Kept /\ SoundManager(m, saved')
      /\ Serial => Agrees(m, NoCall)
  BY <1>2, CallStarts
<1> HIDE DEF m
<1> QED
  BY <1>1, <1>2, <1>3, <1>4, AskTurn

LEMMA ChangePresentationKeyStep ==
  ASSUME Inv, NEW c \in Calls, NEW d \in Devices, NEW p \in PresentationKeys,
         changePresentationKey(c, d, p)
  PROVE  Inv'
<1> DEFINE op == "changePresentationKey"
           m == manager[d]
           k == [NewCall(d, op) EXCEPT !.presentation = p, !.recovery = m.token.recovery,
                                       !.root = m.token.root]
           next == [k EXCEPT !.step = "prompt"]
<1>1. NewCall(d, op) \in CallType /\ NewCall(d, op).on = d /\ NewCall(d, op).op = op
  BY NewCallTyped DEF Ops
<1>2. /\ Starts(c, d) /\ Await(c, k, "prompt") /\ UNCHANGED manager /\ m.token # NoToken
      /\ random' \in Nat
  BY DEF changePresentationKey, Initialized, FactorReady, Inv, World
<1>3. m.token \in TokenType /\ m.token.recovery \in saved
  BY <1>2 DEF Inv, ManagersSound, SoundManager, Sound
<1>4. /\ next \in CallType /\ next.on = d /\ next.op = op /\ next.step = "prompt"
      /\ next.presentation = p /\ next.recovery = m.token.recovery
  BY <1>1, <1>3 DEF CallType, TokenType, Steps
<1>5. /\ Mine(c, d) /\ World' /\ Kept /\ saved' = saved /\ SoundManager(m, saved')
      /\ Serial => Agrees(m, NoCall)
  BY <1>2, CallStarts
<1> HIDE DEF k
<1> HIDE DEF next
<1>6. SoundCall(next, saved', DOMAIN tokens')
  BY <1>3, <1>4, <1>5 DEF SoundCall
<1>7. Serial => Agrees(m, next)
  BY <1>4, <1>5 DEF Agrees, Building
<1>8. Set(d, m)
  BY <1>2, ManagerKept
<1> HIDE DEF m
<1> QED
  BY <1>2, <1>4, <1>5, <1>6, <1>7, <1>8, AwaitTurn DEF next

LEMMA DestroyedSound ==
  /\ \A keys : SoundManager(Destroyed, keys)
  /\ \A k \in CallType \cup {NoCall} : Agrees(Destroyed, k)
BY DestroyedTyped DEF SoundManager, Agrees, Steady

LEMMA LoadSnapshotStep ==
  ASSUME Inv, NEW c \in Calls, NEW d \in Devices, loadSnapshot(c, d)
  PROVE  Inv'
<1> DEFINE k == NewCall(d, "loadSnapshot")
           s == snapshot[d]
           l == [manager[d] EXCEPT !.token = s.token, !.outpoint = s.outpoint]
<1>1. PICK m : m = setupRootInfrastructure(l, s.root)
  OBVIOUS
<1>2. k \in CallType /\ k.on = d /\ k.op = "loadSnapshot"
  BY NewCallTyped DEF Ops
<1>3. /\ Starts(c, d) /\ s # NoSnapshot /\ random' \in Nat
      /\ IF CanSwitch(m, s.active) THEN switchProfile(c, k, m, s.active, "build")
         ELSE Set(d, Destroyed) /\ UNCHANGED call
  BY <1>1 DEF loadSnapshot, Inv, World
<1>4. s \in SnapshotType /\ Sound(s.token, saved)
  BY <1>3 DEF Inv, World
<1>5. Mine(c, d) /\ World' /\ Kept /\ saved' = saved /\ manager[d] \in ManagerType
  BY <1>3, CallStarts
<1>6. l \in ManagerType /\ l.token = s.token /\ l.token # NoToken
  BY <1>4, <1>5, NullsAssumption DEF ManagerType, SnapshotType
<1>7. SoundManager(l, saved') /\ s.root \in Nat /\ s.active \in Nat
  BY <1>4, <1>5, <1>6 DEF SoundManager, SnapshotType
<1> HIDE DEF k, s
<1> HIDE DEF l
<1>8. SoundManager(m, saved')
  BY <1>1, <1>6, <1>7, SetupTyped
<1>9. CASE CanSwitch(m, s.active)
  <2>1. switchProfile(c, k, m, s.active, "build") /\ "build" \in Building
    BY <1>3, <1>9 DEF Building
  <2> QED
    BY <1>2, <1>5, <1>7, <1>8, <1>9, <2>1, SwitchTurn
<1>10. CASE ~CanSwitch(m, s.active)
  <2>1. Set(d, Destroyed) /\ UNCHANGED call
    BY <1>3, <1>10
  <2>2. Return(c)
    BY <1>3, <2>1 DEF Return, Starts, Inv, CallsSound
  <2> QED
    BY <1>5, <2>1, <2>2, DestroyedSound, ReturnTurn
<1> QED
  BY <1>9, <1>10

----------------------------------------------------------------------------
(* Calls that go on *)

LEMMA SoundGoesOn ==
  ASSUME Inv, Kept, NEW c \in Calls, NEW step, Running(c, step)
  PROVE  SoundManager(M(c), saved') /\ SoundCall(call[c], saved', DOMAIN tokens')
BY CallGoesOn, SoundKept

LEMMA RejectTurn ==
  ASSUME Inv, World', Kept, NEW c \in Calls, NEW step, Running(c, step), step \notin Building,
         Reject(c)
  PROVE  Inv'
<1> DEFINE m == M(c) d == call[c].on
<1>1. /\ d \in Devices /\ Mine(c, d) /\ call[c] # NoCall /\ call[c].step = step
      /\ Serial => Agrees(m, call[c])
  BY CallGoesOn
<1>2. SoundManager(m, saved')
  BY SoundGoesOn
<1>3. Serial => Agrees(m, NoCall)
  BY <1>1 DEF Agrees
<1>4. Set(d, m) /\ Return(c)
  BY <1>1, ManagerKept DEF Reject, M
<1> HIDE DEF m, d
<1> QED
  BY <1>1, <1>2, <1>3, <1>4, ReturnTurn

LEMMA FaultTyped ==
  ASSUME Inv, NEW kind, Fails(kind)
  PROVE  faults' \in Nat
BY DEF Inv, World, Fails

LEMMA NothingElse ==
  ASSUME Inv, UNCHANGED <<snapshot, world, saved, random, calls, faults>>
  PROVE  World' /\ Kept
<1>1. saved' \subseteq Nat /\ random' \in Nat /\ calls' \in Nat /\ faults' \in Nat
  BY DEF Inv, World
<1> QED
  BY <1>1, WorldKept DEF world

LEMMA PasswordDerivedStep ==
  ASSUME Inv, NEW c \in Calls, PasswordDerived(c)
  PROVE  Inv'
<1> DEFINE k == call[c] m == M(c)
<1>1. Running(c, "derive") /\ k.op = "providePassword" /\ World' /\ Kept
  BY NothingElse DEF PasswordDerived
<1>2. /\ k \in CallType /\ Mine(c, k.on) /\ k # NoCall /\ k.step = "derive"
      /\ SoundManager(m, saved') /\ (Serial => Agrees(m, k))
  BY <1>1, CallGoesOn, SoundGoesOn
<1>3. CASE Reject(c)
  BY <1>1, <1>3, RejectTurn DEF Building
<1>4. CASE /\ Opens(m, k.key)
           /\ switchProfile(c, k, setupRootInfrastructure(m, m.token.root), m.active, "build")
  <2>1. m.token # NoToken
    BY <1>4 DEF Opens
  <2>2. Serial => m.active = Default
    BY <1>1, <1>2 DEF Agrees
  <2> HIDE DEF m, k
  <2> QED
    BY <1>1, <1>2, <1>4, <2>1, <2>2, LoginTurn
<1> QED
  BY <1>3, <1>4 DEF PasswordDerived

LEMMA NewPasswordDerivedStep ==
  ASSUME Inv, NEW c \in Calls, NewPasswordDerived(c)
  PROVE  Inv'
<1> DEFINE k == call[c] m == M(c) d == call[c].on
<1>1. /\ Running(c, "derive") /\ k.op = "changePassword" /\ World' /\ Kept /\ UNCHANGED manager
      /\ saved' = saved
  BY NothingElse DEF NewPasswordDerived
<1>2. /\ k \in CallType /\ d \in Devices /\ Mine(c, d) /\ k # NoCall /\ k.step = "derive"
      /\ m \in ManagerType /\ SoundManager(m, saved') /\ (Serial => Agrees(m, k))
      /\ SoundCall(k, saved', DOMAIN tokens')
  BY <1>1, CallGoesOn, SoundGoesOn
<1>3. Set(d, m)
  BY <1>1, <1>2, ManagerKept DEF M
<1>4. CASE Return(c)
  BY <1>1, <1>4, RejectTurn DEF Reject, Building
<1>5. CASE /\ FactorReady(m)
           /\ Await(c, [k EXCEPT !.recovery = m.token.recovery, !.root = m.token.root], "prompt")
  <2> DEFINE asked == [k EXCEPT !.recovery = m.token.recovery, !.root = m.token.root]
             next == [asked EXCEPT !.step = "prompt"]
  <2>1. m.token \in TokenType /\ m.token.recovery \in saved'
    BY <1>2, <1>5 DEF FactorReady, SoundManager, Sound
  <2> HIDE DEF m
  <2>2. /\ next \in CallType /\ next.on = d /\ next.op = k.op /\ next.step = "prompt"
        /\ next.key = k.key /\ next.salt = k.salt /\ next.recovery = m.token.recovery
    BY <1>2, <2>1 DEF CallType, TokenType, Steps
  <2>3. k.key \in KeyType /\ k.key.salt = k.salt
    BY <1>1, <1>2 DEF SoundCall
  <2>4. Await(c, asked, "prompt")
    BY <1>5
  <2> HIDE DEF asked, k, d
  <2> HIDE DEF next
  <2>5. SoundCall(next, saved', DOMAIN tokens')
    BY <1>1, <2>1, <2>2, <2>3 DEF SoundCall
  <2>6. Serial => Agrees(m, next)
    BY <1>1, <1>2, <2>2 DEF Agrees, Building
  <2> QED
    BY <1>1, <1>2, <1>3, <2>2, <2>4, <2>5, <2>6, AwaitTurn DEF next
<1> QED
  BY <1>4, <1>5 DEF NewPasswordDerived

LEMMA FundedStep ==
  ASSUME Inv, NEW c \in Calls, Funded(c)
  PROVE  Inv'
<1> DEFINE k == call[c] m == M(c) d == call[c].on next == [k EXCEPT !.step = "create"]
<1>1. Running(c, "fund") /\ World' /\ Kept
  BY NothingElse DEF Funded
<1>2. /\ k \in CallType /\ d \in Devices /\ Mine(c, d) /\ k # NoCall /\ k.step = "fund"
      /\ m \in ManagerType /\ SoundManager(m, saved') /\ (Serial => Agrees(m, k))
      /\ SoundCall(k, saved', DOMAIN tokens')
  BY <1>1, CallGoesOn, SoundGoesOn
<1>3. CASE Reject(c)
  BY <1>1, <1>3, RejectTurn DEF Building
<1>4. CASE Await(c, k, "create") /\ UNCHANGED manager
  <2>1. Set(d, m)
    BY <1>2, <1>4, ManagerKept DEF M
  <2>2. /\ next \in CallType /\ next.on = d /\ next.op = k.op /\ next.step = "create"
        /\ next.body = k.body
    BY <1>2 DEF CallType, Steps
  <2> HIDE DEF m, k, d
  <2> HIDE DEF next
  <2>3. SoundCall(next, saved', DOMAIN tokens')
    BY <1>2, <2>2 DEF SoundCall
  <2>4. Serial => Agrees(m, next)
    BY <1>2, <2>2 DEF Agrees, Building
  <2> QED
    BY <1>1, <1>2, <1>4, <2>1, <2>2, <2>3, <2>4, AwaitTurn DEF next
<1> QED
  BY <1>3, <1>4 DEF Funded

(* The user has saved the recovery key by the time it is in a token.       *)
LEMMA NewUserSavedStep ==
  ASSUME Inv, NEW c \in Calls, NewUserSaved(c)
  PROVE  Inv'
<1> DEFINE k == call[c] m == M(c)
           body == [salt |-> k.salt, key |-> k.key, presentation |-> m.presentation,
                    recovery |-> k.recovery, root |-> k.root, profiles |-> {}]
           u == [k EXCEPT !.body = body]
           n == [m EXCEPT !.token = body, !.outpoint = 0]
<1>1. /\ Running(c, "save") /\ k.op = "providePassword" /\ saved' = saved \cup {k.recovery}
      /\ UNCHANGED <<snapshot, tokens, spent, overlay, random, calls, faults>>
      /\ IF m.presentation = NoKey THEN Reject(c)
         ELSE switchProfile(c, u, setupRootInfrastructure(n, k.root), Default, "new")
  BY DEF NewUserSaved, NewUser, world
<1>2. /\ k \in CallType /\ k.on \in Devices /\ Mine(c, k.on) /\ k # NoCall /\ k.step = "save"
      /\ m \in ManagerType /\ SoundCall(k, saved, DOMAIN tokens)
  BY <1>1, CallGoesOn
<1>3. /\ k.key \in KeyType /\ k.recovery \in Nat /\ k.key.salt = k.salt /\ k.root \in Nat
      /\ k.salt \in Nat
  BY <1>1, <1>2 DEF SoundCall, CallType
<1>4. World' /\ Kept
  <2>1. saved' \subseteq Nat /\ random' \in Nat /\ calls' \in Nat /\ faults' \in Nat
    BY <1>1, <1>3 DEF Inv, World
  <2> QED
    BY <1>1, <2>1, WorldKept
<1>5. CASE Reject(c)
  BY <1>1, <1>4, <1>5, RejectTurn DEF Building
<1>6. CASE /\ m.presentation # NoKey
           /\ switchProfile(c, u, setupRootInfrastructure(n, k.root), Default, "new")
  <2>1. body \in TokenType /\ body.recovery = k.recovery /\ body.key = k.key
        /\ body.salt = k.salt /\ body.profiles = {}
    BY <1>2, <1>3, <1>6 DEF TokenType, ManagerType
  <2>2. Sound(body, saved')
    BY <1>1, <1>3, <2>1 DEF Sound
  <2> HIDE DEF body
  <2>3. n \in ManagerType /\ n.token = body /\ body # NoToken
    BY <1>2, <2>1, NullsAssumption DEF ManagerType
  <2>4. u \in CallType /\ u.on = k.on /\ u.op = "providePassword" /\ u.body = body
    BY <1>1, <1>2, <2>1 DEF CallType
  <2>5. PICK s : s = setupRootInfrastructure(n, k.root)
    OBVIOUS
  <2>6. switchProfile(c, u, s, Default, "new") /\ "new" \in Building /\ Default \in Nat
    BY <1>6, <2>5 DEF Building, Default
  <2> HIDE DEF m, k, u
  <2> HIDE DEF n
  <2>7. SoundManager(n, saved')
    BY <2>2, <2>3 DEF SoundManager
  <2>8. Loads(n, k.root)
    BY <2>1, <2>3 DEF Loads
  <2>9. /\ SoundManager(s, saved') /\ s.authenticated /\ s.keyManager /\ s.root = k.root
    BY <1>3, <2>3, <2>5, <2>7, <2>8, SetupTyped
  <2>10. CanSwitch(s, Default)
    BY <1>3, <2>9, NullsAssumption DEF CanSwitch
  <2> QED
    BY <1>2, <1>4, <2>2, <2>4, <2>6, <2>9, <2>10, SwitchTurn
<1> QED
  BY <1>1, <1>5, <1>6

LEMMA PromptAnsweredStep ==
  ASSUME Inv, NEW c \in Calls, PromptAnswered(c)
  PROVE  Inv'
<1> DEFINE k == call[c] m == M(c) t == m.token d == call[c].on
<1>1. /\ Running(c, "prompt") /\ saved' = saved
      /\ UNCHANGED <<snapshot, tokens, spent, overlay, calls, faults>>
  BY DEF PromptAnswered, world
<1>2. /\ k \in CallType /\ d \in Devices /\ Mine(c, d) /\ k # NoCall /\ k.step = "prompt"
      /\ m \in ManagerType /\ SoundCall(k, saved, DOMAIN tokens) /\ SoundManager(m, saved)
      /\ Serial => Agrees(m, k)
  BY <1>1, CallGoesOn
<1>3. CASE Reject(c) /\ UNCHANGED random
  <2>1. World' /\ Kept
    BY <1>1, <1>3, NothingElse DEF world
  <2> QED
    BY <1>1, <1>3, <2>1, RejectTurn DEF Building
<1>4. CASE Decrypts(k, m) /\ ~(Reject(c) /\ UNCHANGED random)
  <2>1. /\ t \in TokenType /\ t.recovery \in saved /\ (Serial => t.key.salt = t.salt)
        /\ t.key \in KeyType /\ t.salt \in Nat /\ t.presentation \in PresentationKeys
        /\ t.recovery \in Nat
    <3>1. t # NoToken
      BY <1>4 DEF Decrypts, FactorReady
    <3>2. Sound(t, saved)
      BY <1>2, <3>1 DEF SoundManager
    <3> QED
      BY <3>2 DEF Sound, TokenType
  <2>2. Serial => Agrees(m, NoCall)
    BY <1>2 DEF Agrees, Building
  <2>3. CASE k.op \in {"addProfile", "deleteProfile"}
    <3> DEFINE u == [k EXCEPT !.presentation = t.presentation, !.recovery = t.recovery]
    <3>1. updateAuthFactors(c, u, m) /\ UNCHANGED random
      BY <1>1, <1>4, <2>3 DEF PromptAnswered
    <3>2. World' /\ Kept
      BY <1>1, <3>1, NothingElse DEF world
    <3>3. k.key \in KeyType /\ (Serial => k.key.salt = k.salt)
      BY <1>2, <2>3 DEF SoundCall
    <3> HIDE DEF t
    <3>4. /\ u \in CallType /\ u.on = d /\ u.op = k.op /\ u.key = k.key /\ u.salt = k.salt
          /\ u.presentation = t.presentation /\ u.recovery = t.recovery
      BY <1>2, <2>1 DEF CallType
    <3> HIDE DEF u, m, k, d
    <3> QED
      BY <1>1, <1>2, <2>1, <2>2, <2>3, <3>1, <3>2, <3>3, <3>4, UpdateTurn
  <2>4. CASE k.op = "changePassword"
    <3> DEFINE u == [k EXCEPT !.presentation = t.presentation]
    <3>1. updateAuthFactors(c, u, m) /\ UNCHANGED random
      BY <1>1, <1>4, <2>4 DEF PromptAnswered
    <3>2. World' /\ Kept
      BY <1>1, <3>1, NothingElse DEF world
    <3>3. k.key \in KeyType /\ (Serial => k.key.salt = k.salt) /\ k.recovery \in saved
      BY <1>2, <2>4 DEF SoundCall
    <3> HIDE DEF t
    <3>4. /\ u \in CallType /\ u.on = d /\ u.op = k.op /\ u.key = k.key /\ u.salt = k.salt
          /\ u.presentation = t.presentation /\ u.recovery = k.recovery
      BY <1>2, <2>1 DEF CallType
    <3> HIDE DEF u, m, k, d
    <3> QED
      BY <1>1, <1>2, <2>1, <2>2, <2>4, <3>1, <3>2, <3>3, <3>4, UpdateTurn
  <2>5. CASE k.op = "changePresentationKey"
    <3> DEFINE u == [k EXCEPT !.key = t.key, !.salt = t.salt]
    <3>1. updateAuthFactors(c, u, m) /\ UNCHANGED random
      BY <1>1, <1>4, <2>5 DEF PromptAnswered
    <3>2. World' /\ Kept
      BY <1>1, <3>1, NothingElse DEF world
    <3>3. k.presentation \in PresentationKeys /\ k.recovery \in saved
      BY <1>2, <2>5 DEF SoundCall
    <3> HIDE DEF t
    <3>4. /\ u \in CallType /\ u.on = d /\ u.op = k.op /\ u.key = t.key /\ u.salt = t.salt
          /\ u.presentation = k.presentation /\ u.recovery = k.recovery
      BY <1>2, <2>1 DEF CallType
    <3> HIDE DEF u, m, k, d
    <3> QED
      BY <1>1, <1>2, <2>1, <2>2, <2>5, <3>1, <3>2, <3>3, <3>4, UpdateTurn
  <2>6. CASE k.op = "changeRecoveryKey"
    <3> DEFINE u == [k EXCEPT !.presentation = t.presentation, !.recovery = Fresh]
               next == [u EXCEPT !.step = "save"]
    <3>1. Draw /\ UNCHANGED manager /\ Await(c, u, "save")
      BY <1>1, <1>4, <2>6 DEF PromptAnswered
    <3>2. random' \in Nat /\ Fresh \in Nat
      BY <3>1, DrawTyped
    <3>3. World' /\ Kept
      <4>1. saved' \subseteq Nat /\ calls' \in Nat /\ faults' \in Nat
        BY <1>1 DEF Inv, World
      <4> QED
        BY <1>1, <3>2, <4>1, WorldKept
    <3>4. k.key \in KeyType
      BY <1>2, <2>6 DEF SoundCall
    <3>5. Set(d, m) /\ SoundManager(m, saved')
      BY <1>1, <1>2, <3>1, ManagerKept DEF M
    <3> HIDE DEF t
    <3>6. /\ next \in CallType /\ next.on = d /\ next.op = k.op /\ next.step = "save"
          /\ next.key = k.key /\ next.presentation = t.presentation /\ next.recovery = Fresh
      BY <1>2, <2>1, <3>2 DEF CallType, Steps
    <3> HIDE DEF u, k, m, d
    <3> HIDE DEF next
    <3>7. SoundCall(next, saved', DOMAIN tokens')
      BY <2>1, <2>6, <3>2, <3>4, <3>6 DEF SoundCall
    <3>8. Serial => Agrees(m, next)
      BY <1>2, <2>2, <2>6, <3>6 DEF Agrees, Building
    <3> QED
      BY <1>1, <1>2, <3>1, <3>3, <3>5, <3>6, <3>7, <3>8, AwaitTurn DEF next
  <2> QED
    BY <1>2, <2>3, <2>4, <2>5, <2>6 DEF SoundCall
<1> QED
  BY <1>3, <1>4 DEF PromptAnswered

LEMMA RecoveryKeySavedStep ==
  ASSUME Inv, NEW c \in Calls, RecoveryKeySaved(c)
  PROVE  Inv'
<1> DEFINE k == call[c] m == M(c) u == [k EXCEPT !.salt = m.token.salt]
<1>1. /\ Running(c, "save") /\ k.op = "changeRecoveryKey" /\ saved' = saved \cup {k.recovery}
      /\ UNCHANGED <<snapshot, tokens, spent, overlay, random, calls, faults>>
      /\ IF m.token = NoToken THEN Reject(c) ELSE updateAuthFactors(c, u, m)
  BY DEF RecoveryKeySaved, world
<1>2. /\ k \in CallType /\ k.on \in Devices /\ Mine(c, k.on) /\ k # NoCall /\ k.step = "save"
      /\ SoundCall(k, saved, DOMAIN tokens) /\ SoundManager(m, saved)
      /\ Serial => Agrees(m, k)
  BY <1>1, CallGoesOn
<1>3. k.key \in KeyType /\ k.recovery \in Nat /\ k.presentation \in PresentationKeys
  BY <1>1, <1>2 DEF SoundCall
<1>4. World' /\ Kept
  <2>1. saved' \subseteq Nat /\ random' \in Nat /\ calls' \in Nat /\ faults' \in Nat
    BY <1>1, <1>3 DEF Inv, World
  <2> QED
    BY <1>1, <2>1, WorldKept
<1>5. CASE Reject(c)
  BY <1>1, <1>4, <1>5, RejectTurn DEF Building
<1>6. CASE m.token # NoToken /\ updateAuthFactors(c, u, m)
  <2>1. m.token.salt \in Nat /\ (Serial => m.token.key.salt = m.token.salt)
    BY <1>2, <1>6 DEF SoundManager, Sound, TokenType
  <2>2. Serial => m.token.key = k.key
    BY <1>1, <1>2, <1>6 DEF Agrees
  <2>3. /\ u \in CallType /\ u.on = k.on /\ u.op = k.op /\ u.key = k.key
        /\ u.salt = m.token.salt /\ u.presentation = k.presentation /\ u.recovery = k.recovery
    BY <1>2, <2>1 DEF CallType
  <2>4. SoundManager(m, saved') /\ (Serial => Agrees(m, NoCall))
    BY <1>1, <1>2, <1>4, SoundGoesOn DEF Agrees, Building
  <2> HIDE DEF u, m, k
  <2> QED
    BY <1>1, <1>2, <1>3, <1>4, <1>6, <2>1, <2>2, <2>3, <2>4, UpdateTurn
<1> QED
  BY <1>1, <1>5, <1>6

LEMMA CreateTokenStep ==
  ASSUME Inv, NEW c \in Calls, CreateToken(c)
  PROVE  Inv'
<1> DEFINE k == call[c] m == M(c) d == call[c].on
<1>1. Running(c, "create") /\ UNCHANGED <<manager, snapshot, overlay, saved, random, calls>>
  BY DEF CreateToken
<1>2. /\ k \in CallType /\ d \in Devices /\ Mine(c, d) /\ k # NoCall /\ k.step = "create"
      /\ SoundCall(k, saved, DOMAIN tokens) /\ SoundManager(m, saved)
      /\ Serial => Agrees(m, k)
  BY <1>1, CallGoesOn
<1>3. PICK consumed \in SUBSET {k.old}, old \in {0, k.old} :
        /\ tokens' = Append(tokens, k.body) /\ spent' = spent \cup (consumed \ {0})
        /\ Await(c, [k EXCEPT !.outpoint = Len(tokens) + 1, !.old = old], "announce")
        /\ UNCHANGED faults \/ Fails("create")
  BY Zenon DEF CreateToken
<1>4. Sound(k.body, saved)
  BY <1>2 DEF SoundCall
<1>5. /\ tokens \in Seq(TokenType) /\ k.body \in TokenType /\ Len(tokens) \in Nat
      /\ \A i \in DOMAIN tokens : Sound(tokens[i], saved)
  BY <1>4 DEF Inv, World, Sound
<1>6. /\ tokens' \in Seq(TokenType) /\ DOMAIN tokens \subseteq DOMAIN tokens'
      /\ Len(tokens) + 1 \in DOMAIN tokens' /\ \A i \in DOMAIN tokens' : Sound(tokens'[i], saved')
  BY <1>1, <1>3, <1>4, <1>5
<1>7. World' /\ Kept
  <2>1. faults' \in Nat /\ spent' \subseteq Nat /\ k.old \in Nat
    BY <1>2, <1>3, FaultTyped DEF Inv, World, CallType
  <2> QED
    BY <1>1, <1>6, <2>1 DEF Inv, World, Kept
<1> DEFINE u == [k EXCEPT !.outpoint = Len(tokens) + 1, !.old = old]
           next == [u EXCEPT !.step = "announce"]
<1>8. /\ next \in CallType /\ next.on = d /\ next.op = k.op /\ next.body = k.body
      /\ next.step = "announce" /\ next.outpoint = Len(tokens) + 1
  <2>1. old \in Nat /\ Len(tokens) + 1 \in Nat
    BY <1>2, <1>5 DEF CallType
  <2> QED
    BY <1>2, <2>1 DEF CallType, Steps
<1>9. Set(d, m) /\ SoundManager(m, saved') /\ Await(c, u, "announce")
  BY <1>1, <1>2, <1>3, ManagerKept DEF M
<1> HIDE DEF u, m, k, d
<1> HIDE DEF next
<1>10. SoundCall(next, saved', DOMAIN tokens')
  BY <1>1, <1>2, <1>4, <1>6, <1>8 DEF SoundCall
<1>11. Serial => Agrees(m, next)
  BY <1>2, <1>8 DEF Agrees, Building
<1> QED
  BY <1>2, <1>7, <1>8, <1>9, <1>10, <1>11, AwaitTurn DEF next

(* Back to the profile the call came from.                                 *)
LEMMA SwitchBackTurn ==
  ASSUME Inv, World', Kept, NEW c \in Calls, NEW step, Running(c, step),
         step \notin {"lookup", ""}, NEW m, SoundManager(m, saved'),
         NEW k \in CallType, k.on = call[c].on, k.op = call[c].op,
         Serial => Agrees(m, NoCall), SwitchBack(c, k, m)
  PROVE  Inv'
<1>1. /\ k.on \in Devices /\ Mine(c, k.on) /\ call[c].step = step
      /\ SoundCall(call[c], saved, DOMAIN tokens)
  BY CallGoesOn
<1>2. k.op \notin {"providePresentationKey", "syncUMPToken"} /\ k.back \in Nat
  BY <1>1 DEF SoundCall, CallType
<1>3. CASE switchProfile(c, k, m, k.back, "back")
  <2>1. "back" \in Building
    BY DEF Building
  <2> QED
    BY <1>1, <1>2, <1>3, <2>1, SwitchTurn
<1>4. CASE Set(k.on, m) /\ Return(c)
  BY <1>1, <1>4, ReturnTurn
<1> QED
  BY <1>3, <1>4 DEF SwitchBack

LEMMA PublishFailsStep ==
  ASSUME Inv, NEW c \in Calls, PublishFails(c)
  PROVE  Inv'
<1> DEFINE m == M(c) k == [call[c] EXCEPT !.body = NoToken]
<1>1. PICK step \in {"create", "announce"}, kind \in {"create", "overlay"} :
        Running(c, step) /\ Fails(kind)
  BY Zenon DEF PublishFails
<1>2. SwitchBack(c, k, m) /\ UNCHANGED <<snapshot, world, saved, random, calls>>
  BY DEF PublishFails
<1>3. World' /\ Kept
  <2>1. saved' \subseteq Nat /\ random' \in Nat /\ calls' \in Nat /\ faults' \in Nat
    BY <1>1, <1>2, FaultTyped DEF Inv, World
  <2> QED
    BY <1>2, <2>1, WorldKept DEF world
<1>4. SoundManager(m, saved') /\ (Serial => Agrees(m, call[c])) /\ call[c].step = step
  BY <1>1, <1>3, CallGoesOn, SoundGoesOn
<1>5. Serial => Agrees(m, NoCall)
  BY <1>1, <1>4 DEF Agrees, Building
<1>6. k \in CallType /\ k.on = call[c].on /\ k.op = call[c].op
  <2>1. call[c] \in CallType
    BY <1>1, CallGoesOn
  <2> QED
    BY <2>1 DEF CallType
<1> HIDE DEF m, k
<1> QED
  BY <1>1, <1>2, <1>3, <1>4, <1>5, <1>6, SwitchBackTurn

(* Renewed leaves all that the invariant speaks of as it is.               *)
LEMMA RenewedSound ==
  ASSUME NEW k \in CallType, NEW m, NEW keys, SoundManager(m, keys), Serial => Agrees(m, NoCall)
  PROVE  SoundManager(Renewed(k, m), keys) /\ (Serial => Agrees(Renewed(k, m), NoCall))
<1> DEFINE n == [m EXCEPT !.presentation = k.presentation]
<1>1. k.presentation \in PresentationKeys \cup {NoKey}
  BY DEF CallType
<1>2. /\ n \in ManagerType /\ n.token = m.token /\ n.authenticated = m.authenticated
      /\ n.active = m.active /\ n.underlying = m.underlying /\ n.built = m.built
  BY <1>1 DEF SoundManager, ManagerType
<1> HIDE DEF n
<1>3. SoundManager(n, keys) /\ (Serial => Agrees(n, NoCall))
  BY <1>2 DEF SoundManager, Agrees, Steady
<1>4. Renewed(k, m) \in {m, n}
  BY DEF Renewed, n
<1> QED
  BY <1>3, <1>4

LEMMA AnnounceStep ==
  ASSUME Inv, NEW c \in Calls, Announce(c)
  PROVE  Inv'
<1> DEFINE k == call[c] m == M(c)
           told == [m EXCEPT !.token = k.body, !.outpoint = k.outpoint]
           back == IF k.back = Default THEN Renewed(k, told) ELSE told
           made == IF m.token = k.body THEN [m EXCEPT !.outpoint = k.outpoint] ELSE m
<1>1. /\ Running(c, "announce") /\ UNCHANGED <<snapshot, tokens, spent, saved, random, calls>>
      /\ \/ overlay' = (overlay \ {k.old}) \cup {k.outpoint} /\ UNCHANGED faults
         \/ Fails("overlay") /\ UNCHANGED overlay
      /\ IF k.op # "providePassword" THEN SwitchBack(c, k, back) ELSE Set(k.on, made) /\ Return(c)
  BY DEF Announce
<1>2. /\ k \in CallType /\ k.on \in Devices /\ Mine(c, k.on) /\ k # NoCall
      /\ k.step = "announce" /\ SoundCall(k, saved, DOMAIN tokens)
      /\ m \in ManagerType /\ SoundManager(m, saved) /\ (Serial => Agrees(m, k))
  BY <1>1, CallGoesOn
<1>3. Sound(k.body, saved) /\ k.outpoint \in DOMAIN tokens /\ k.outpoint \in Nat
  BY <1>2 DEF SoundCall, CallType
<1>4. World' /\ Kept
  <2>1. overlay' \subseteq DOMAIN tokens /\ faults' \in Nat
    BY <1>1, <1>3, FaultTyped DEF Inv, World
  <2> QED
    BY <1>1, <2>1 DEF Inv, World, Kept
<1>5. SoundManager(told, saved') /\ (Serial => Agrees(told, NoCall))
  <2>1. /\ told \in ManagerType /\ told.token = k.body /\ told.authenticated = m.authenticated
        /\ told.active = m.active /\ told.underlying = m.underlying /\ told.built = m.built
    BY <1>2, <1>3 DEF ManagerType, Sound
  <2> HIDE DEF told
  <2> QED
    BY <1>1, <1>2, <1>3, <2>1 DEF SoundManager, Agrees, Building, Steady
<1>6. SoundManager(made, saved') /\ (Serial => Agrees(made, NoCall))
  <2>1. /\ made \in ManagerType /\ made.token = m.token /\ made.authenticated = m.authenticated
        /\ made.active = m.active /\ made.underlying = m.underlying /\ made.built = m.built
    BY <1>2, <1>3 DEF ManagerType
  <2> HIDE DEF made
  <2> QED
    BY <1>1, <1>2, <2>1 DEF SoundManager, Agrees, Building, Steady
<1> HIDE DEF told, made, m
<1>9. SoundManager(back, saved') /\ (Serial => Agrees(back, NoCall))
  BY <1>2, <1>5, RenewedSound
<1> HIDE DEF back
<1>7. CASE SwitchBack(c, k, back)
  BY <1>1, <1>2, <1>4, <1>7, <1>9, SwitchBackTurn
<1>8. CASE Set(k.on, made) /\ Return(c)
  BY <1>2, <1>4, <1>6, <1>8, ReturnTurn
<1> QED
  BY <1>1, <1>7, <1>8

(* The builder returns the wallet of the profile it was asked for.         *)
LEMMA BuiltTyped ==
  ASSUME NEW c \in Calls, NEW keys, call[c] \in CallType, SoundManager(M(c), keys)
  PROVE  /\ Built(c) \in ManagerType /\ SoundManager(Built(c), keys)
         /\ Built(c).token = M(c).token /\ Built(c).authenticated = M(c).authenticated
         /\ Built(c).active = M(c).active /\ Built(c).underlying = call[c].profile
BY DEF Built, SoundManager, ManagerType, CallType

LEMMA BuildEndsStep ==
  ASSUME Inv, NEW c \in Calls, BuildEnds(c)
  PROVE  Inv'
<1> DEFINE k == call[c] b == Built(c) f == [b EXCEPT !.flow = "existing-user"]
           n == Renewed(k, b)
<1>1. PICK step \in {"build", "back"} : Running(c, step)
  BY DEF BuildEnds
<1>2. /\ World' /\ Kept /\ Return(c)
      /\ Set(k.on, IF k.op = "loadSnapshot" THEN f ELSE n)
  BY NothingElse DEF BuildEnds
<1>3. /\ k \in CallType /\ k.on \in Devices /\ Mine(c, k.on) /\ k # NoCall /\ k.step = step
      /\ SoundManager(M(c), saved') /\ (Serial => Agrees(M(c), k))
  BY <1>1, <1>2, CallGoesOn, SoundGoesOn
<1>4. /\ b \in ManagerType /\ SoundManager(b, saved') /\ b.authenticated = M(c).authenticated
      /\ b.active = M(c).active /\ b.underlying = k.profile
  BY <1>3, BuiltTyped
<1>5. Serial => Agrees(b, NoCall)
  BY <1>1, <1>3, <1>4 DEF Agrees, Building, Steady
<1> HIDE DEF b
<1>6. SoundManager(f, saved') /\ (Serial => Agrees(f, NoCall))
  <2>1. /\ f \in ManagerType /\ f.token = b.token /\ f.authenticated = b.authenticated
        /\ f.active = b.active /\ f.underlying = b.underlying /\ f.built = b.built
    BY <1>4 DEF ManagerType, Flows
  <2> HIDE DEF f
  <2> QED
    BY <1>4, <1>5, <2>1 DEF SoundManager, Agrees, Steady
<1>9. SoundManager(n, saved') /\ (Serial => Agrees(n, NoCall))
  BY <1>3, <1>4, <1>5, RenewedSound
<1> HIDE DEF f, n
<1>7. CASE Set(k.on, n)
  BY <1>2, <1>3, <1>7, <1>9, ReturnTurn
<1>8. CASE Set(k.on, f)
  BY <1>2, <1>3, <1>6, <1>8, ReturnTurn
<1> QED
  BY <1>2, <1>7, <1>8

LEMMA DefaultBuiltStep ==
  ASSUME Inv, NEW c \in Calls, DefaultBuilt(c)
  PROVE  Inv'
<1> DEFINE k == call[c] m == M(c) b == Built(c)
<1>1. PICK step \in {"new", "toDefault", "rebuild"} : Running(c, step)
  BY DEF DefaultBuilt
<1>2. /\ World' /\ Kept /\ Set(k.on, b)
      /\ \/ Running(c, "new") /\ Await(c, k, "fund")
         \/ Running(c, "toDefault") /\ Await(c, k, "create")
         \/ Running(c, "rebuild") /\ FactorReady(m) /\ AskWithPassword(c, k, m)
         \/ Running(c, "rebuild") /\ Return(c)
  BY NothingElse DEF DefaultBuilt
<1>3. /\ k \in CallType /\ k.on \in Devices /\ Mine(c, k.on) /\ k # NoCall /\ k.step = step
      /\ SoundCall(k, saved', DOMAIN tokens')
      /\ SoundManager(m, saved') /\ (Serial => Agrees(m, k))
  BY <1>1, <1>2, CallGoesOn, SoundGoesOn
<1>4. /\ b \in ManagerType /\ SoundManager(b, saved') /\ b.authenticated = m.authenticated
      /\ b.active = m.active /\ b.underlying = k.profile /\ b.token = m.token
  BY <1>3, BuiltTyped
<1>5. Serial => Agrees(b, NoCall)
  BY <1>1, <1>3, <1>4 DEF Agrees, Building, Steady
<1> HIDE DEF b, m
<1>6. ASSUME NEW to \in {"fund", "create"}, Await(c, k, to), k.step \in {"new", "toDefault"}
      PROVE  Inv'
  <2> DEFINE next == [k EXCEPT !.step = to]
  <2>1. /\ next \in CallType /\ next.on = k.on /\ next.op = k.op /\ next.step = to
        /\ next.body = k.body
    BY <1>3 DEF CallType, Steps
  <2> HIDE DEF k
  <2> HIDE DEF next
  <2>2. SoundCall(next, saved', DOMAIN tokens')
    BY <1>3, <1>6, <2>1 DEF SoundCall
  <2>3. Serial => Agrees(b, next)
    BY <1>3, <1>5, <1>6, <2>1 DEF Agrees, Building, SoundCall
  <2> QED
    BY <1>2, <1>3, <1>4, <1>6, <2>1, <2>2, <2>3, AwaitTurn DEF next
<1>7. ASSUME k.step = "rebuild", FactorReady(m), AskWithPassword(c, k, m)
      PROVE  Inv'
  <2>1. k.op = "deleteProfile" /\ m.token # NoToken
    BY <1>3, <1>7 DEF SoundCall, FactorReady
  <2> QED
    BY <1>2, <1>3, <1>4, <1>5, <1>7, <2>1, AskTurn
<1>8. CASE Return(c)
  BY <1>2, <1>3, <1>4, <1>5, <1>8, ReturnTurn
<1> QED
  BY <1>2, <1>6, <1>7, <1>8 DEF Running

LEMMA BuilderThrowsStep ==
  ASSUME Inv, NEW c \in Calls, BuilderThrows(c)
  PROVE  Inv'
<1> DEFINE k == call[c] m == M(c) n == [m EXCEPT !.built = FALSE]
<1>1. PICK step \in Building : Running(c, step)
  BY DEF BuilderThrows, Building
<1>2. /\ Fails("builder") /\ Return(c) /\ UNCHANGED <<snapshot, world, saved, random, calls>>
      /\ Set(k.on, IF k.op = "loadSnapshot" THEN Destroyed ELSE n)
  BY DEF BuilderThrows
<1>3. World' /\ Kept
  <2>1. saved' \subseteq Nat /\ random' \in Nat /\ calls' \in Nat /\ faults' \in Nat
    BY <1>2, FaultTyped DEF Inv, World
  <2> QED
    BY <1>2, <2>1, WorldKept DEF world
<1>4. /\ k.on \in Devices /\ Mine(c, k.on) /\ k # NoCall /\ m \in ManagerType
      /\ SoundManager(m, saved') /\ (Serial => Agrees(m, k))
  BY <1>1, <1>3, CallGoesOn, SoundGoesOn
<1> HIDE DEF m
<1>5. SoundManager(n, saved') /\ (Serial => Agrees(n, NoCall))
  <2>1. /\ n \in ManagerType /\ n.token = m.token /\ n.authenticated = m.authenticated
        /\ n.active = m.active /\ ~n.built
    BY <1>4 DEF ManagerType
  <2> HIDE DEF n
  <2> QED
    BY <1>4, <2>1 DEF SoundManager, Agrees, Steady
<1> HIDE DEF n
<1>6. CASE Set(k.on, n)
  BY <1>2, <1>3, <1>4, <1>5, <1>6, ReturnTurn
<1>7. CASE Set(k.on, Destroyed)
  BY <1>2, <1>3, <1>4, <1>7, DestroyedSound, ReturnTurn
<1> QED
  BY <1>2, <1>6, <1>7

LEMMA CallThrowsStep ==
  ASSUME Inv, NEW c \in Calls, CallThrows(c)
  PROVE  Inv'
<1>1. PICK step \in {"lookup", "prompt", "save"}, kind \in {"lookup", "user"} :
        Running(c, step) /\ Fails(kind)
  BY Zenon DEF CallThrows
<1>2. Reject(c) /\ UNCHANGED <<snapshot, world, saved, random, calls>>
  BY DEF CallThrows
<1>3. World' /\ Kept
  <2>1. saved' \subseteq Nat /\ random' \in Nat /\ calls' \in Nat /\ faults' \in Nat
    BY <1>1, <1>2, FaultTyped DEF Inv, World
  <2> QED
    BY <1>2, <2>1, WorldKept DEF world
<1>4. step \notin Building
  BY DEF Building
<1> QED
  BY <1>1, <1>2, <1>3, <1>4, RejectTurn

LEMMA LookupAnsweredStep ==
  ASSUME Inv, NEW c \in Calls, LookupAnswered(c)
  PROVE  Inv'
<1> DEFINE k == call[c] m == M(c)
<1>1. Running(c, "lookup") /\ Return(c) /\ World' /\ Kept /\ saved' = saved
  BY NothingElse DEF LookupAnswered
<1>2. /\ k \in CallType /\ k.on \in Devices /\ Mine(c, k.on) /\ k # NoCall /\ k.step = "lookup"
      /\ m \in ManagerType /\ SoundManager(m, saved) /\ (Serial => Agrees(m, k))
      /\ k.op \in {"providePresentationKey", "provideRecoveryKey", "syncUMPToken"}
  BY <1>1, CallGoesOn DEF SoundCall
<1>3. PICK i \in Answers(k) :
        Set(k.on,
         CASE k.op = "providePresentationKey" /\ i = 0 ->
                [m EXCEPT !.flow = "new-user", !.presentation = k.presentation]
           [] k.op = "providePresentationKey" /\ i # 0 ->
                [With(m, i) EXCEPT !.flow = "existing-user", !.presentation = k.presentation]
           [] k.op = "provideRecoveryKey" /\ i # 0 ->
                [With(m, i) EXCEPT !.recovery = k.recovery]
           [] k.op = "syncUMPToken" /\ i # 0 /\ i # k.old ->
                setupRootInfrastructure(With(m, i), m.root)
           [] OTHER -> m)
  BY DEF LookupAnswered
<1> DEFINE none == [m EXCEPT !.flow = "new-user", !.presentation = k.presentation]
           found == [With(m, i) EXCEPT !.flow = "existing-user", !.presentation = k.presentation]
           recovered == [With(m, i) EXCEPT !.recovery = k.recovery]
<1>4. PICK synced : synced = setupRootInfrastructure(With(m, i), m.root)
  OBVIOUS
<1>5. \/ k.op = "providePresentationKey" /\ i = 0 /\ Set(k.on, none)
      \/ k.op = "providePresentationKey" /\ i # 0 /\ Set(k.on, found)
      \/ k.op = "provideRecoveryKey" /\ i # 0 /\ Set(k.on, recovered)
      \/ k.op = "syncUMPToken" /\ i # 0 /\ Set(k.on, synced)
      \/ Set(k.on, m)
  BY <1>3, <1>4
<1>6. Serial => Agrees(m, NoCall)
  BY <1>2 DEF Agrees, Building
<1>7. ASSUME i # 0
      PROVE  /\ i \in DOMAIN tokens /\ tokens[i] \in TokenType /\ Sound(tokens[i], saved)
             /\ i \in Nat
  <2>1. i \in overlay
    BY <1>2, <1>7 DEF Answers, Sought, ByPresentation, ByRecovery
  <2>2. i \in DOMAIN tokens /\ tokens \in Seq(TokenType) /\ Sound(tokens[i], saved)
    BY <2>1 DEF Inv, World
  <2> QED
    BY <2>2
<1>8. ASSUME i # 0
      PROVE  /\ With(m, i) \in ManagerType /\ With(m, i).token = tokens[i]
             /\ With(m, i).token # NoToken /\ SoundManager(With(m, i), saved)
             /\ With(m, i).active = m.active /\ With(m, i).underlying = m.underlying
             /\ With(m, i).built = m.built /\ With(m, i).authenticated = m.authenticated
  BY <1>2, <1>7, <1>8, NullsAssumption DEF With, ManagerType, SoundManager
<1>9. CASE Set(k.on, none)
  <2>1. /\ none \in ManagerType /\ none.token = m.token /\ none.authenticated = m.authenticated
        /\ none.active = m.active /\ none.underlying = m.underlying /\ none.built = m.built
    BY <1>2 DEF ManagerType, CallType, Flows
  <2> HIDE DEF none
  <2>2. SoundManager(none, saved') /\ (Serial => Agrees(none, NoCall))
    BY <1>1, <1>2, <1>6, <2>1 DEF SoundManager, Agrees, Steady
  <2> HIDE DEF m, k
  <2> QED
    BY <1>1, <1>2, <1>9, <2>2, ReturnTurn
<1>10. CASE i # 0 /\ Set(k.on, found)
  <2>1. /\ found \in ManagerType /\ found.token = tokens[i]
        /\ found.authenticated = m.authenticated /\ found.active = m.active
        /\ found.underlying = m.underlying /\ found.built = m.built
    BY <1>2, <1>8, <1>10 DEF ManagerType, CallType, Flows
  <2> HIDE DEF found
  <2>2. SoundManager(found, saved') /\ (Serial => Agrees(found, NoCall))
    BY <1>1, <1>6, <1>7, <1>10, <2>1 DEF SoundManager, Agrees, Steady
  <2> HIDE DEF m, k
  <2> QED
    BY <1>1, <1>2, <1>10, <2>2, ReturnTurn
<1>11. CASE i # 0 /\ Set(k.on, recovered)
  <2>1. /\ recovered \in ManagerType /\ recovered.token = tokens[i]
        /\ recovered.authenticated = m.authenticated /\ recovered.active = m.active
        /\ recovered.underlying = m.underlying /\ recovered.built = m.built
    BY <1>2, <1>8, <1>11 DEF ManagerType, CallType
  <2> HIDE DEF recovered
  <2>2. SoundManager(recovered, saved') /\ (Serial => Agrees(recovered, NoCall))
    BY <1>1, <1>6, <1>7, <1>11, <2>1 DEF SoundManager, Agrees, Steady
  <2> HIDE DEF m, k
  <2> QED
    BY <1>1, <1>2, <1>11, <2>2, ReturnTurn
<1>12. CASE k.op = "syncUMPToken" /\ i # 0 /\ Set(k.on, synced)
  <2>1. m.root \in Nat \cup {NoKey}
    BY <1>2 DEF ManagerType
  <2> DEFINE w == With(m, i) root == m.root
  <2>2. SoundManager(w, saved') /\ w.token # NoToken /\ root \in Nat \cup {NoKey}
        /\ synced = setupRootInfrastructure(w, root)
    BY <1>1, <1>4, <1>8, <1>12, <2>1
  <2>3. /\ w.active = m.active /\ w.underlying = m.underlying /\ w.built = m.built
        /\ w.authenticated = m.authenticated
    BY <1>8, <1>12
  <2> HIDE DEF w, root
  <2>4. /\ SoundManager(synced, saved') /\ synced.active = w.active
        /\ synced.underlying = w.underlying /\ synced.built = w.built
        /\ IF Loads(w, root) THEN synced.authenticated
           ELSE synced.authenticated = w.authenticated
    BY <2>2, SetupTyped
  <2>5. Serial => Agrees(synced, NoCall)
    BY <1>2, <1>6, <1>12, <2>3, <2>4 DEF Agrees, Steady
  <2> HIDE DEF m, k
  <2> QED
    BY <1>1, <1>2, <1>12, <2>4, <2>5, ReturnTurn
<1>13. CASE Set(k.on, m)
  <2>1. SoundManager(m, saved')
    BY <1>1, <1>2
  <2> HIDE DEF m, k
  <2> QED
    BY <1>1, <1>2, <1>6, <1>13, <2>1, ReturnTurn
<1> QED
  BY <1>5, <1>9, <1>10, <1>11, <1>12, <1>13

----------------------------------------------------------------------------
(* What happens to a device beside the calls *)

LEMMA DeviceTurn ==
  ASSUME Inv, World', Kept, NEW d \in Devices, NEW m, Set(d, m), SoundManager(m, saved'),
         Serial => \A k \in CallType \cup {NoCall} : Agrees(manager[d], k) => Agrees(m, k),
         \/ UNCHANGED call
         \/ /\ call' = [c \in Calls |-> IF call[c] # NoCall /\ call[c].on = d THEN NoCall
                                        ELSE call[c]]
            /\ m = Destroyed
  PROVE  Inv'
<1>1. /\ manager \in [Devices -> ManagerType] /\ call \in [Calls -> CallType \cup {NoCall}]
      /\ \A e \in Devices : SoundManager(manager[e], saved)
      /\ \A c \in Calls : call[c] # NoCall => SoundCall(call[c], saved, DOMAIN tokens)
  BY DEF Inv, ManagersSound, CallsSound
<1>2. \A e \in Devices : manager'[e] = IF e = d THEN m ELSE manager[e]
  BY <1>1 DEF Set
<1>3. /\ call' \in [Calls -> CallType \cup {NoCall}]
      /\ \A c \in Calls : call'[c] = call[c] \/ (call'[c] = NoCall /\ call[c].on = d)
  BY <1>1
<1>4. ManagersSound'
  <2>1. \A e \in Devices : SoundManager(manager'[e], saved')
    BY <1>1, <1>2, SoundKept
  <2>2. m \in ManagerType
    BY DEF SoundManager
  <2> QED
    BY <1>1, <2>1, <2>2 DEF ManagersSound, Set
<1>5. CallsSound'
  <2>1. \A c \in Calls : call'[c] # NoCall => SoundCall(call'[c], saved', DOMAIN tokens')
    BY <1>1, <1>3, SoundKept
  <2> QED
    BY <1>3, <2>1 DEF CallsSound
<1>6. ASSUME Serial
      PROVE  /\ OneCallEach'
             /\ \A c \in Calls : call'[c] # NoCall => Agrees(manager'[call'[c].on], call'[c])
             /\ \A e \in Devices : Idle(e)' => Agrees(manager'[e], NoCall)
  <2>1. /\ OneCallEach
        /\ \A c \in Calls : call[c] # NoCall => Agrees(manager[call[c].on], call[c])
        /\ \A e \in Devices : Idle(e) => Agrees(manager[e], NoCall)
    BY <1>6 DEF Inv, AllAgree
  <2>2. OneCallEach'
    BY <1>3, <2>1 DEF OneCallEach
  <2>3. ASSUME NEW c \in Calls, call'[c] # NoCall
        PROVE  Agrees(manager'[call'[c].on], call'[c])
    <3>1. call'[c] = call[c] /\ call[c] \in CallType /\ call[c].on \in Devices
      BY <1>1, <1>3, <2>3 DEF CallType
    <3> QED
      BY <1>2, <1>6, <2>1, <2>3, <3>1
  <2>4. ASSUME NEW e \in Devices, Idle(e)'
        PROVE  Agrees(manager'[e], NoCall)
    <3>1. CASE e # d
      <4>1. Idle(e)
        BY <1>3, <2>4, <3>1 DEF Idle
      <4> QED
        BY <1>2, <2>1, <3>1, <4>1
    <3>2. CASE e = d /\ UNCHANGED call
      <4>1. Idle(e)
        BY <2>4, <3>2 DEF Idle
      <4> QED
        BY <1>2, <1>6, <2>1, <3>2, <4>1
    <3>3. CASE e = d /\ m = Destroyed
      BY <1>2, <3>3, DestroyedSound
    <3> QED
      BY <3>1, <3>2, <3>3
  <2> QED
    BY <2>2, <2>3, <2>4
<1>7. AllAgree'
  <2>1. CASE Serial
    BY <1>6, <2>1 DEF AllAgree
  <2>2. CASE ~Serial
    BY <2>2 DEF AllAgree
  <2> QED
    BY <2>1, <2>2
<1> QED
  BY <1>4, <1>5, <1>7 DEF Inv

LEMMA ChooseModeStep ==
  ASSUME Inv, NEW d \in Devices, NEW mode \in Modes, chooseMode(d, mode)
  PROVE  Inv'
<1> DEFINE m == manager[d]
           n == [m EXCEPT !.mode = mode,
                  !.flow = IF mode = "recovery-key-and-password" THEN "existing-user" ELSE @]
<1>1. /\ World' /\ Kept /\ Set(d, n) /\ UNCHANGED call
      /\ m \in ManagerType /\ SoundManager(m, saved) /\ saved' = saved
  BY NothingElse DEF chooseMode, Inv, ManagersSound
<1> HIDE DEF m
<1>2. /\ n \in ManagerType /\ n.token = m.token /\ n.authenticated = m.authenticated
      /\ n.active = m.active /\ n.underlying = m.underlying /\ n.built = m.built
  BY <1>1 DEF ManagerType, Flows
<1> HIDE DEF n
<1>3. SoundManager(n, saved')
  BY <1>1, <1>2 DEF SoundManager
<1>4. \A k \in CallType \cup {NoCall} : Agrees(m, k) => Agrees(n, k)
  BY <1>2 DEF Agrees, Steady
<1> QED
  BY <1>1, <1>3, <1>4, DeviceTurn DEF m

LEMMA EndStep ==
  ASSUME Inv, NEW d \in Devices, destroy(d) \/ Restart(d)
  PROVE  Inv'
<1>1. /\ Set(d, Destroyed) /\ UNCHANGED <<snapshot, world, saved, random, calls>>
      /\ faults' = faults + 1
      /\ \/ UNCHANGED call
         \/ call' = [c \in Calls |-> IF call[c] # NoCall /\ call[c].on = d THEN NoCall
                                     ELSE call[c]]
  BY DEF destroy, Restart
<1>2. World' /\ Kept
  <2>1. saved' \subseteq Nat /\ random' \in Nat /\ calls' \in Nat /\ faults' \in Nat
    BY <1>1 DEF Inv, World
  <2> QED
    BY <1>1, <2>1, WorldKept DEF world
<1>3. /\ SoundManager(Destroyed, saved')
      /\ \A k \in CallType \cup {NoCall} : Agrees(Destroyed, k)
  BY DestroyedSound
<1>4. PICK m : m = Destroyed
  OBVIOUS
<1> QED
  BY <1>1, <1>2, <1>3, <1>4, DeviceTurn

LEMMA SaveSnapshotStep ==
  ASSUME Inv, NEW d \in Devices, saveSnapshot(d)
  PROVE  Inv'
<1> DEFINE m == manager[d]
           s == [root |-> m.root, token |-> m.token, outpoint |-> m.outpoint, active |-> m.active]
<1>1. /\ m.root # NoKey /\ m.token # NoToken /\ snapshot' = [snapshot EXCEPT ![d] = s]
      /\ UNCHANGED <<manager, call, tokens, spent, overlay, saved, random, calls, faults>>
  BY DEF saveSnapshot, world
<1>2. m \in ManagerType /\ SoundManager(m, saved)
  BY DEF Inv, ManagersSound
<1>3. s \in SnapshotType /\ Sound(s.token, saved) /\ s.token = m.token
  BY <1>1, <1>2 DEF SnapshotType, ManagerType, SoundManager
<1> HIDE DEF s
<1>4. World' /\ Kept
  BY <1>1, <1>3 DEF Inv, World, Kept
<1>5. ManagersSound' /\ CallsSound' /\ AllAgree'
  <2>1. ManagersSound' /\ CallsSound'
    BY <1>1 DEF Inv, ManagersSound, CallsSound
  <2>2. AllAgree'
    BY <1>1, Zenon DEF Inv, AllAgree, OneCallEach, Idle
  <2> QED
    BY <2>1, <2>2
<1> QED
  BY <1>4, <1>5 DEF Inv

LEMMA StutterStep ==
  ASSUME Inv, UNCHANGED vars
  PROVE  Inv'
<1>1. World'
  BY DEF vars, Inv, World
<1>2. ManagersSound' /\ CallsSound'
  BY DEF vars, Inv, ManagersSound, CallsSound
<1>3. AllAgree'
  BY Zenon DEF vars, Inv, AllAgree, OneCallEach, Idle
<1> QED
  BY <1>1, <1>2, <1>3 DEF Inv

LEMMA NextInv == Inv /\ [Next]_vars => Inv'
<1> SUFFICES ASSUME Inv, [Next]_vars PROVE Inv'
  OBVIOUS
<1>1. ASSUME NEW c \in Calls, NEW d \in Devices, Application(c, d)
      PROVE  Inv'
  BY <1>1, ProvidePresentationKeyStep, ProvidePasswordStep, ProvideRecoveryKeyStep,
     SyncUMPTokenStep, SwitchProfileStep, AddProfileStep, DeleteProfileStep, ChangePasswordStep,
     ChangeRecoveryKeyStep, ChangePresentationKeyStep, LoadSnapshotStep DEF Application
<1>2. ASSUME NEW c \in Calls,
             CallStep(c) \/ PublishFails(c) \/ BuilderThrows(c) \/ CallThrows(c)
      PROVE  Inv'
  BY <1>2, LookupAnsweredStep, PasswordDerivedStep, NewPasswordDerivedStep, NewUserSavedStep,
     FundedStep, PromptAnsweredStep, RecoveryKeySavedStep, CreateTokenStep, AnnounceStep,
     BuildEndsStep, DefaultBuiltStep, PublishFailsStep, BuilderThrowsStep, CallThrowsStep
     DEF CallStep
<1>3. ASSUME NEW d \in Devices,
             \/ saveSnapshot(d) \/ destroy(d) \/ Restart(d)
             \/ \E mode \in Modes : chooseMode(d, mode)
      PROVE  Inv'
  BY <1>3, SaveSnapshotStep, EndStep, ChooseModeStep
<1>4. CASE UNCHANGED vars
  BY <1>4, StutterStep
<1> QED
  BY <1>1, <1>2, <1>3, <1>4 DEF Next

LEMMA AlwaysInv == Spec => []Inv
BY InitInv, NextInv, PTL DEF Spec

----------------------------------------------------------------------------

(* The fields of every manager, call, snapshot and token have the values   *)
(* of their types in CWIStyleWalletManager.ts, throughout.                 *)
THEOREM TypesAreKept == Spec => []TypeOK
<1>1. Inv => TypeOK
  BY DEF Inv, World, ManagersSound, CallsSound, TypeOK
<1> QED
  BY <1>1, AlwaysInv, PTL

(* No token is published with a recovery key the user has not saved,       *)
(* whatever the calls that run at once, the failures and the devices: the  *)
(* key a call puts into a token is one it waited for the user to save, or  *)
(* is read from a token that has it.                                       *)
THEOREM RecoveryKeysAreSaved == Spec => []RecoveryKeyIsSaved
<1>1. Inv => RecoveryKeyIsSaved
  BY DEF Inv, World, Sound, RecoveryKeyIsSaved
<1> QED
  BY <1>1, AlwaysInv, PTL

(* The password of every token opens it, for applications that await a     *)
(* call on a device before the next: what is derived with one salt is not  *)
(* published with another.                                                 *)
THEOREM PasswordsOpen == ASSUME Serial PROVE Spec => []PasswordOpens
<1>1. Inv => PasswordOpens
  BY DEF Inv, World, Sound, PasswordOpens
<1> QED
  BY <1>1, AlwaysInv, PTL

(* Between calls the wallet that answers is that of the active profile,    *)
(* under the same condition: whatever a call does to publish a token from  *)
(* the default profile, and wherever it fails.                             *)
THEOREM ActivesAreUnderlying == ASSUME Serial PROVE Spec => []ActiveIsUnderlying
<1>1. Inv => ActiveIsUnderlying
  <2> SUFFICES ASSUME Inv, NEW d \in Devices, Idle(d), manager[d].authenticated,
                      manager[d].underlying # NoProfile, manager[d].built
               PROVE  manager[d].underlying = manager[d].active
    BY DEF ActiveIsUnderlying, Idle
  <2>1. Agrees(manager[d], NoCall)
    BY DEF Inv, AllAgree
  <2> QED
    BY <2>1 DEF Agrees, Steady
<1> QED
  BY <1>1, AlwaysInv, PTL
=============================================================================

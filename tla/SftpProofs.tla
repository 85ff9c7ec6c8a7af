----------------------------- MODULE SftpProofs -----------------------------
(***************************************************************************)
(* FiresAtMostOnce of SftpWatcher for any set of integrations and files    *)
(* and any number of ticks.                                                *)
(***************************************************************************)
EXTENDS SftpWatcher, TLAPS

TickType == [pc : {"idle", "list", "loop", "files", "firing"},
             todo : SUBSET Integrations, at : SUBSET Integrations,
             left : SUBSET Files, now : SUBSET Files]

(* What the induction needs of the types.                                  *)
Typed ==
    /\ files \in [Integrations -> SUBSET Files]
    /\ firable \subseteq Integrations
    /\ seen \in [Integrations -> SUBSET Files]
    /\ ticks \in [Ticks -> TickType]
    /\ fired \in [Integrations -> [Files -> {0, 1}]]

(* inFlight keeps ticks apart.                                             *)
OneTick ==
    /\ \A k \in Ticks : ticks[k].pc # "idle" => inFlight
    /\ \A k, l \in Ticks : ticks[k].pc # "idle" /\ ticks[l].pc # "idle" => k = l

(* A tick checks one integration, which was primed, and fires one file.    *)
OneFile ==
    \A k \in Ticks :
        /\ ticks[k].pc \in {"files", "firing"} => ticks[k].at \subseteq primed
        /\ \A i, j \in ticks[k].at : i = j
        /\ \A f, g \in ticks[k].now : f = g

BeingFired(i, f) ==
    \E k \in Ticks : ticks[k].pc = "firing" /\ i \in ticks[k].at /\ f \in ticks[k].now

(* What fired is in seen, or will be by the end of the fire that is still  *)
(* going on; and only primed integrations fire.                            *)
FiredIsSeen ==
    \A i \in Integrations, f \in Files :
        fired[i][f] # 0 => i \in primed /\ (f \in seen[i] \/ BeingFired(i, f))

OnceInv == Typed /\ OneTick /\ OneFile /\ FiredIsSeen

(* A tick that holds the flag goes on to t.                                *)
LEMMA GoOn ==
  ASSUME OnceInv, NEW k \in Ticks, ticks[k].pc # "idle", NEW t \in TickType, GoTo(k, t),
         inFlight' = IF t.pc = "idle" THEN FALSE ELSE inFlight
  PROVE  /\ ticks' \in [Ticks -> TickType]
         /\ OneTick'
         /\ ticks'[k] = t
         /\ \A l \in Ticks : l # k => ticks'[l] = ticks[l] /\ ticks[l].pc = "idle"
  <1>1. /\ ticks' \in [Ticks -> TickType] /\ ticks'[k] = t
        /\ \A l \in Ticks : l # k => ticks'[l] = ticks[l]
    BY DEF OnceInv, Typed, GoTo
  <1>2. \A l \in Ticks : l # k => ticks[l].pc = "idle"
    BY DEF OnceInv, OneTick
  <1>3. inFlight BY DEF OnceInv, OneTick
  <1>4. OneTick' BY <1>1, <1>2, <1>3 DEF OneTick
  <1>5. QED BY <1>1, <1>2, <1>4

(* It neither fires nor marks a file, and there is nothing it was firing.  *)
LEMMA GoOnQuietly ==
  ASSUME OnceInv, NEW k \in Ticks, ticks[k].pc \in {"list", "loop", "files"},
         NEW t \in TickType, GoTo(k, t),
         inFlight' = (IF t.pc = "idle" THEN FALSE ELSE inFlight),
         t.pc # "firing",
         t.pc = "files" => t.at \subseteq primed,
         \A i, j \in t.at : i = j, t.now = {},
         UNCHANGED <<files, firable, primed, seen, fired>>
  PROVE  OnceInv'
  <1>1. /\ ticks' \in [Ticks -> TickType] /\ OneTick' /\ ticks'[k] = t
        /\ \A l \in Ticks : l # k => ticks'[l] = ticks[l] /\ ticks[l].pc = "idle"
    BY GoOn
  <1>2. Typed' BY <1>1 DEF OnceInv, Typed
  <1>3. OneFile' BY <1>1 DEF OnceInv, OneFile
  <1>4. \A l \in Ticks : ticks[l].pc # "firing"
    BY <1>1
  <1>5. FiredIsSeen' BY <1>4 DEF OnceInv, FiredIsSeen, BeingFired
  <1>6. QED BY <1>1, <1>2, <1>3, <1>5 DEF OnceInv

LEMMA OnceInit ==
  ASSUME Init
  PROVE  OnceInv
  <1>1. Typed BY DEF Init, Typed, Nothing, Never, NoTick, Tick, TickType
  <1>2. OneTick BY DEF Init, OneTick, NoTick, Tick
  <1>3. OneFile BY DEF Init, OneFile, NoTick, Tick
  <1>4. FiredIsSeen BY DEF Init, FiredIsSeen, Never
  <1>5. QED BY <1>1, <1>2, <1>3, <1>4 DEF OnceInv

LEMMA OnceNext ==
  ASSUME OnceInv, [Next]_vars
  PROVE  OnceInv'
  <1>t. Typed BY DEF OnceInv
  <1>1. ASSUME NEW k \in Ticks, StartTick(k)
        PROVE  OnceInv'
    <2> DEFINE t == Tick("list", {}, {}, {}, {})
    <2>1. t \in TickType /\ t.pc = "list" /\ t.at = {} /\ t.now = {} BY DEF Tick, TickType
    <2>2. ticks' = [ticks EXCEPT ![k] = t] /\ ~inFlight /\ inFlight'
      BY <1>1 DEF StartTick, GoTo
    <2> HIDE DEF t
    <2>3. \A l \in Ticks : ticks[l].pc = "idle" BY <2>2 DEF OnceInv, OneTick
    <2>4. /\ ticks' \in [Ticks -> TickType] /\ ticks'[k] = t
          /\ \A l \in Ticks : l # k => ticks'[l] = ticks[l]
      BY <1>t, <2>1, <2>2 DEF Typed
    <2>5. UNCHANGED <<files, firable, primed, seen, fired>> BY <1>1 DEF StartTick
    <2>6. Typed' BY <1>t, <2>4, <2>5 DEF Typed
    <2>7. OneTick' BY <2>1, <2>2, <2>3, <2>4 DEF OneTick
    <2>8. OneFile' BY <2>1, <2>4, <2>5 DEF OnceInv, OneFile
    <2>9. FiredIsSeen' BY <2>3, <2>5 DEF OnceInv, FiredIsSeen, BeingFired
    <2>10. QED BY <2>6, <2>7, <2>8, <2>9 DEF OnceInv
  <1>2. ASSUME NEW k \in Ticks, ListIntegrations(k)
        PROVE  OnceInv'
    <2> DEFINE t == Tick("loop", firable, {}, {}, {})
    <2>1. t \in TickType /\ t.pc = "loop" /\ t.at = {} /\ t.now = {}
      BY <1>t DEF Tick, TickType, Typed
    <2>2. /\ ticks[k].pc = "list" /\ GoTo(k, t)
          /\ UNCHANGED <<files, firable, primed, seen, inFlight, fired>>
      BY <1>2 DEF ListIntegrations
    <2> HIDE DEF t
    <2>3. QED BY <2>1, <2>2, GoOnQuietly
  <1>3. ASSUME NEW k \in Ticks, EndTick(k)
        PROVE  OnceInv'
    <2>1. NoTick \in TickType /\ NoTick.pc = "idle" /\ NoTick.at = {} /\ NoTick.now = {}
      BY DEF NoTick, Tick, TickType
    <2>2. /\ ticks[k].pc \in {"list", "loop"} /\ GoTo(k, NoTick) /\ inFlight' = FALSE
          /\ UNCHANGED <<files, firable, primed, seen, fired>>
      BY <1>3 DEF EndTick
    <2>3. QED BY <2>1, <2>2, GoOnQuietly
  <1>4. ASSUME NEW k \in Ticks, EndCheck(k)
        PROVE  OnceInv'
    <2> DEFINE t == Tick("loop", ticks[k].todo, {}, {}, {})
    <2>1. t \in TickType /\ t.pc = "loop" /\ t.at = {} /\ t.now = {}
      BY <1>t DEF Tick, TickType, Typed
    <2>2. /\ ticks[k].pc = "files" /\ GoTo(k, t)
          /\ UNCHANGED <<files, firable, primed, seen, inFlight, fired>>
      BY <1>4 DEF EndCheck
    <2> HIDE DEF t
    <2>3. QED BY <2>1, <2>2, GoOnQuietly
  <1>5. ASSUME NEW k \in Ticks, NEW i \in Integrations, CheckFails(k, i)
        PROVE  OnceInv'
    <2> DEFINE t == Tick("loop", ticks[k].todo \ {i}, {}, {}, {})
    <2>1. t \in TickType /\ t.pc = "loop" /\ t.at = {} /\ t.now = {}
      BY <1>t DEF Tick, TickType, Typed
    <2>2. /\ ticks[k].pc = "loop" /\ GoTo(k, t)
          /\ UNCHANGED <<files, firable, primed, seen, inFlight, fired>>
      BY <1>5 DEF CheckFails
    <2> HIDE DEF t
    <2>3. QED BY <2>1, <2>2, GoOnQuietly
  <1>6. ASSUME NEW k \in Ticks, NEW i \in Integrations, List(k, i)
        PROVE  OnceInv'
    <2>1. CASE i \in primed
      <3> DEFINE t == Tick("files", ticks[k].todo \ {i}, {i}, files[i], {})
      <3>1. t \in TickType /\ t.pc = "files" /\ t.at = {i} /\ t.now = {}
        BY <1>t DEF Tick, TickType, Typed
      <3>2. /\ ticks[k].pc = "loop" /\ GoTo(k, t)
            /\ UNCHANGED <<files, firable, primed, seen, inFlight, fired>>
        BY <1>6, <2>1 DEF List
      <3> HIDE DEF t
      <3>3. QED BY <2>1, <3>1, <3>2, GoOnQuietly
    <2>2. CASE i \notin primed
      <3> DEFINE t == Tick("loop", ticks[k].todo \ {i}, {}, {}, {})
      <3>1. t \in TickType /\ t.pc = "loop" /\ t.at = {} /\ t.now = {}
        BY <1>t DEF Tick, TickType, Typed
      <3>2. /\ ticks[k].pc = "loop" /\ GoTo(k, t)
            /\ primed' = primed \cup {i} /\ seen' = [seen EXCEPT ![i] = files[i]]
            /\ UNCHANGED <<files, firable, inFlight, fired>>
        BY <1>6, <2>2 DEF List
      <3> HIDE DEF t
      <3>3. /\ ticks' \in [Ticks -> TickType] /\ OneTick' /\ ticks'[k] = t
            /\ \A l \in Ticks : l # k => ticks'[l] = ticks[l] /\ ticks[l].pc = "idle"
        BY <3>1, <3>2, GoOn
      <3>4. Typed' BY <1>t, <3>2, <3>3 DEF Typed
      <3>5. OneFile' BY <3>1, <3>2, <3>3 DEF OnceInv, OneFile
      <3>6. \A l \in Ticks : ticks[l].pc # "firing" BY <3>2, <3>3
      <3>7. FiredIsSeen'
        BY <1>t, <2>2, <3>2, <3>6 DEF OnceInv, FiredIsSeen, BeingFired, Typed
      <3>8. QED BY <3>3, <3>4, <3>5, <3>7 DEF OnceInv
    <2>3. QED BY <2>1, <2>2
  <1>7. ASSUME NEW k \in Ticks, NEW i \in Integrations, NEW f \in Files, StartFire(k, i, f)
        PROVE  OnceInv'
    <2>1. CASE f \in seen[i]
      <3> DEFINE t == [ticks[k] EXCEPT !.left = @ \ {f}]
      <3>0. ticks[k] \in TickType BY <1>t DEF Typed
      <3>1. /\ t \in TickType /\ t.pc = ticks[k].pc /\ t.at = ticks[k].at
            /\ t.now = ticks[k].now
        BY <3>0 DEF TickType
      <3>2. /\ ticks[k].pc = "files" /\ GoTo(k, t)
            /\ UNCHANGED <<files, firable, primed, seen, inFlight, fired>>
        BY <1>7, <2>1 DEF StartFire
      <3> HIDE DEF t
      <3>3. /\ ticks' \in [Ticks -> TickType] /\ OneTick' /\ ticks'[k] = t
            /\ \A l \in Ticks : l # k => ticks'[l] = ticks[l] /\ ticks[l].pc = "idle"
        BY <3>1, <3>2, GoOn
      <3>4. Typed' BY <1>t, <3>2, <3>3 DEF Typed
      <3>5. OneFile' BY <3>1, <3>2, <3>3 DEF OnceInv, OneFile
      <3>6. \A l \in Ticks : ticks[l].pc # "firing" BY <3>2, <3>3
      <3>7. FiredIsSeen' BY <3>2, <3>6 DEF OnceInv, FiredIsSeen, BeingFired
      <3>8. QED BY <3>3, <3>4, <3>5, <3>7 DEF OnceInv
    <2>2. CASE f \notin seen[i]
      <3> DEFINE t == [ticks[k] EXCEPT !.pc = "firing", !.left = @ \ {f}, !.now = {f}]
      <3>0. ticks[k] \in TickType BY <1>t DEF Typed
      <3>1. /\ t \in TickType /\ t.pc = "firing" /\ t.at = ticks[k].at /\ t.now = {f}
        BY <3>0 DEF TickType
      <3>2. /\ ticks[k].pc = "files" /\ GoTo(k, t) /\ i \in ticks[k].at
            /\ fired' = [fired EXCEPT ![i][f] = @ + 1]
            /\ UNCHANGED <<files, firable, primed, seen, inFlight>>
        BY <1>7, <2>2 DEF StartFire
      <3> HIDE DEF t
      <3>3. /\ ticks' \in [Ticks -> TickType] /\ OneTick' /\ ticks'[k] = t
            /\ \A l \in Ticks : l # k => ticks'[l] = ticks[l] /\ ticks[l].pc = "idle"
        BY <3>1, <3>2, GoOn
      <3>4. fired[i][f] = 0
        BY <1>t, <2>2, <3>2, <3>3 DEF OnceInv, FiredIsSeen, BeingFired, Typed
      <3>5. /\ fired' \in [Integrations -> [Files -> {0, 1}]]
            /\ \A j \in Integrations, g \in Files :
                    <<j, g>> # <<i, f>> => fired'[j][g] = fired[j][g]
        BY <1>t, <3>2, <3>4 DEF Typed
      <3>6. Typed' BY <1>t, <3>2, <3>3, <3>5 DEF Typed
      <3>7. OneFile' BY <3>1, <3>2, <3>3 DEF OnceInv, OneFile
      <3>8. i \in primed BY <3>2 DEF OnceInv, OneFile
      <3>9. \A l \in Ticks : ticks[l].pc # "firing" BY <3>2, <3>3
      <3>10. BeingFired(i, f)' BY <3>1, <3>2, <3>3 DEF BeingFired
      <3>11. ASSUME NEW j \in Integrations, NEW g \in Files, fired'[j][g] # 0
             PROVE  j \in primed' /\ (g \in seen'[j] \/ BeingFired(j, g)')
        <4>1. CASE <<j, g>> = <<i, f>> BY <4>1, <3>2, <3>8, <3>10
        <4>2. CASE <<j, g>> # <<i, f>>
          <5>1. fired[j][g] # 0 BY <3>11, <3>5, <4>2
          <5>2. ~BeingFired(j, g) BY <3>9 DEF BeingFired
          <5>3. QED BY <5>1, <5>2, <3>2 DEF OnceInv, FiredIsSeen
        <4>3. QED BY <4>1, <4>2
      <3>12. FiredIsSeen' BY <3>11 DEF FiredIsSeen
      <3>13. QED BY <3>3, <3>6, <3>7, <3>12 DEF OnceInv
    <2>3. QED BY <2>1, <2>2
  <1>8. ASSUME NEW k \in Ticks, NEW i \in Integrations, NEW f \in Files, EndFire(k, i, f)
        PROVE  OnceInv'
    <2> DEFINE t == [ticks[k] EXCEPT !.pc = "files", !.now = {}]
    <2>0. ticks[k] \in TickType BY <1>t DEF Typed
    <2>1. t \in TickType /\ t.pc = "files" /\ t.at = ticks[k].at /\ t.now = {}
      BY <2>0 DEF TickType
    <2>2. /\ ticks[k].pc = "firing" /\ GoTo(k, t) /\ i \in ticks[k].at /\ f \in ticks[k].now
          /\ seen' = [seen EXCEPT ![i] = @ \cup {f}]
          /\ UNCHANGED <<files, firable, primed, inFlight, fired>>
      BY <1>8 DEF EndFire
    <2> HIDE DEF t
    <2>3. /\ ticks' \in [Ticks -> TickType] /\ OneTick' /\ ticks'[k] = t
          /\ \A l \in Ticks : l # k => ticks'[l] = ticks[l] /\ ticks[l].pc = "idle"
      BY <2>1, <2>2, GoOn
    <2>4. Typed' BY <1>t, <2>2, <2>3 DEF Typed
    <2>5. OneFile' BY <2>1, <2>2, <2>3 DEF OnceInv, OneFile
    <2>6. ASSUME NEW j \in Integrations, NEW g \in Files, BeingFired(j, g)
          PROVE  j = i /\ g = f
      BY <2>2, <2>3, <2>6 DEF BeingFired, OnceInv, OneFile
    <2>7. \A j \in Integrations : seen[j] \subseteq seen'[j] BY <1>t, <2>2 DEF Typed
    <2>8. f \in seen'[i] BY <1>t, <2>2 DEF Typed
    <2>9. FiredIsSeen' BY <2>2, <2>6, <2>7, <2>8 DEF OnceInv, FiredIsSeen
    <2>10. QED BY <2>3, <2>4, <2>5, <2>9 DEF OnceInv
  <1>9. CASE Restart
    <2>1. Typed' BY <1>t, <1>9 DEF Restart, Typed, Nothing, Never, NoTick, Tick, TickType
    <2>2. OneTick' BY <1>9 DEF Restart, OneTick, NoTick, Tick
    <2>3. OneFile' BY <1>9 DEF Restart, OneFile, NoTick, Tick
    <2>4. FiredIsSeen' BY <1>9 DEF Restart, FiredIsSeen, Never
    <2>5. QED BY <2>1, <2>2, <2>3, <2>4 DEF OnceInv
  <1>r. ASSUME Typed', UNCHANGED memory
        PROVE  OnceInv'
    BY <1>r DEF memory, OnceInv, OneTick, OneFile, FiredIsSeen, BeingFired
  <1>10. ASSUME NEW i \in Integrations, Deploy(i) PROVE OnceInv'
    BY <1>t, <1>10, <1>r DEF Deploy, Typed, memory
  <1>11. ASSUME NEW i \in Integrations, NEW f \in Files, Drop(i, f) PROVE OnceInv'
    BY <1>t, <1>11, <1>r DEF Drop, Typed, memory
  <1>12. CASE UNCHANGED vars
    BY <1>t, <1>12, <1>r DEF vars, Typed, memory
  <1>13. QED
    BY <1>1, <1>2, <1>3, <1>4, <1>5, <1>6, <1>7, <1>8, <1>9, <1>10, <1>11, <1>12
       DEF Next, TickStep, FireStep

(* Between two restarts no file name fires twice, however long a tick takes*)
(* and whatever a listing says: the argument is inFlight, which keeps ticks*)
(* apart, and the finally of checkOne, which marks a name in any case.     *)
THEOREM FiresOnce == Spec => []FiresAtMostOnce
  <1>1. OnceInv => FiresAtMostOnce BY DEF OnceInv, Typed, FiresAtMostOnce
  <1>2. QED BY <1>1, OnceInit, OnceNext, PTL DEF Spec

(* What TypeOK says besides.                                               *)
TypedToo == /\ inFlight \in BOOLEAN /\ primed \subseteq Integrations
            /\ rows \subseteq Integrations \X Files

LEMMA TypedTooNext ==
  ASSUME TypedToo, [Next]_vars
  PROVE  TypedToo'
  <1>1. ASSUME NEW k \in Ticks, StartTick(k) \/ TickStep(k) PROVE TypedToo'
    BY <1>1 DEF StartTick, TickStep, ListIntegrations, EndTick, EndCheck, CheckFails, TypedToo
  <1>2. ASSUME NEW k \in Ticks, FireStep(k) PROVE TypedToo'
    BY <1>2 DEF FireStep, StartFire, EndFire, TypedToo
  <1>3. ASSUME NEW k \in Ticks, NEW i \in Integrations, List(k, i) PROVE TypedToo'
    BY <1>3 DEF List, TypedToo
  <1>4. CASE Restart BY <1>4 DEF Restart, TypedToo
  <1>5. CASE UNCHANGED <<rows, memory>> BY <1>5 DEF memory, TypedToo
  <1>6. QED BY <1>1, <1>2, <1>3, <1>4, <1>5 DEF Next, Deploy, Drop, vars, memory

(* Every reachable state of the watcher has its type, for any files,       *)
(* integrations and overlapping ticks.                                     *)
THEOREM WatcherTypes == Spec => []TypeOK
  <1>1. OnceInv /\ TypedToo => TypeOK BY DEF OnceInv, Typed, TypedToo, TickType, TypeOK
  <1>2. Init => TypedToo BY DEF Init, TypedToo
  <1>3. QED BY <1>1, <1>2, OnceInit, OnceNext, TypedTooNext, PTL DEF Spec
=============================================================================

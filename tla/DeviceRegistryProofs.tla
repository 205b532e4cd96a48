------------------------ MODULE DeviceRegistryProofs ------------------------
(***************************************************************************)
(* Theorems about the registry: its state keeps its types, every scid in   *)
(* use has one owner, no running actor is lost, a held lock has a holder   *)
(* at work, a stopped daemon leaves no server, the scids are the           *)
(* allocator's, and, as long as nobody disconnects, the mutex of a serial  *)
(* keeps connects apart and a registered actor keeps its server.  They     *)
(* hold for any number of handlers, serials, actors and faults, and, but   *)
(* for NoPortLost, for every hash.                                         *)
(***************************************************************************)
EXTENDS DeviceRegistry, ScidAllocatorProofs, TLAPS

\* A handler between newDeviceActor and the end of getOrCreateActor: the
\* actor it holds is in nobody else's hands.
Building == {"connect", "discard", "discarded"}

Holding(h) == pc[h] \in Building \union {"stop"}

Live == {"running", "ended"}

(***************************************************************************)
(* The inductive invariant.  Beside types and the property, it says where  *)
(* an actor object can be: in the hands of the handler that builds it, in  *)
(* the map under its serial, or in the hands of the one handler that has   *)
(* taken it out to stop it.                                                *)
(***************************************************************************)
HandlersHold ==
  \A h \in Handlers :
    /\ pc[h] # "idle" => serial[h] \in Serials
    /\ pc[h] \in Building => /\ act[h] \in Actors
                             /\ life[act[h]] = "connecting"
    /\ pc[h] = "stop" => /\ act[h] \in Actors
                         /\ life[act[h]] \in Live
                         /\ \A s \in Serials : devices[s] # act[h]

HoldersDiffer ==
  \A g, h \in Handlers : g # h /\ Holding(g) /\ Holding(h) => act[g] # act[h]

MapIsSound ==
  \A s \in Serials :
    devices[s] # None => /\ life[devices[s]] \in Live
                         /\ aSerial[devices[s]] = s

InUseHasSerial ==
  \A a \in Actors : life[a] # "free" => aSerial[a] \in Serials /\ aScid[a] \in Scids

-----------------------------------------------------------------------------
(* Types. *)

LEMMA AllocUnchanged == ASSUME AllocTypeOK, UNCHANGED allocVars
                        PROVE  AllocTypeOK'
BY DEF AllocTypeOK, allocVars

LEMMA AllocTypes == ASSUME AllocTypeOK, NEW scid \in Scids, Alloc(scid)
                    PROVE  AllocTypeOK'
BY PortInRange DEF AllocTypeOK, Alloc, Reserve

LEMMA ReleaseTypes == ASSUME AllocTypeOK, NEW scid, Release(scid)
                      PROVE  AllocTypeOK'
BY DEF AllocTypeOK, Release

LEMMA FaultTypes == ASSUME faults \in 0 .. MaxFaults, Fault
                    PROVE  faults' \in 0 .. MaxFaults
BY RegistryAssumption DEF Fault

(***************************************************************************)
(* A handler's step keeps the types.  Only what it reads through the       *)
(* serial needs more than TypeOK: that the serial is there.                *)
(***************************************************************************)
LEMMA HandlerTypes ==
  ASSUME TypeOK, HandlersHold, NEW h \in Handlers, Accept(h) \/ HandlerStep(h)
  PROVE  TypeOK'
<1> USE DEF TypeOK, Goto, HandlerLabels
<1> USE RegistryAssumption
<1>0. pc[h] # "idle" => serial[h] \in Serials
  BY DEF HandlersHold
<1>1. CASE Accept(h)
  BY <1>1, AllocUnchanged DEF Accept, AllOps, mutexVars, actorVars, deviceVars
<1>2. CASE Lookup(h)
  BY <1>2, AllocUnchanged DEF Lookup, Return, mutexVars, actorVars, deviceVars
<1>3. CASE ConnectMutex(h)
  BY <1>0, <1>3, AllocUnchanged DEF ConnectMutex, actorVars, deviceVars
<1>4. CASE LockSerial(h)
  BY <1>4, AllocUnchanged DEF LockSerial, actorVars, deviceVars
<1>5. CASE Recheck(h)
  BY <1>5, AllocUnchanged DEF Recheck, Return, Unlock, mutexVars, actorVars, deviceVars
<1>6. CASE NewDeviceActor(h)
  BY <1>0, <1>6, AllocTypes DEF NewDeviceActor, mutexVars
<1>7. CASE AllocatorExhausted(h)
  BY <1>7, AllocUnchanged DEF AllocatorExhausted, Return, Unlock, actorVars, deviceVars
<1>8. CASE ConnectFailed(h)
  BY <1>8, ReleaseTypes DEF ConnectFailed, Return, Unlock, Forget, deviceVars
<1>9. CASE Store(h)
  <2>1. act[h] \in Actors
    BY <1>9 DEF Store, HandlersHold, Building
  <2>2. CASE devices[aSerial[act[h]]] # None
    BY <1>9, <2>2, AllocUnchanged DEF Store, deviceVars
  <2>3. CASE devices[aSerial[act[h]]] = None
    BY <1>9, <2>1, <2>3, AllocUnchanged DEF Store, Return, Unlock, deviceVars
  <2>4. QED
    BY <2>2, <2>3
<1>10. CASE DiscardDuplicate(h)
  BY <1>10, AllocUnchanged DEF DiscardDuplicate, CloseSession, mutexVars, actorVars
<1>11. CASE ReleaseDuplicate(h)
  BY <1>11, ReleaseTypes DEF ReleaseDuplicate, Return, Unlock, Forget, deviceVars
<1>12. CASE RemoveDevice(h)
  BY <1>0, <1>12, AllocUnchanged DEF RemoveDevice, Return, actorVars, deviceVars
<1>13. CASE StopActor(h)
  <2>1. /\ life' \in [Actors -> {"free", "connecting", "running", "ended"}]
        /\ cancelled' \in [Actors -> BOOLEAN]
        /\ aSerial' \in [Actors -> Serials \union {None}]
        /\ aScid' \in [Actors -> Scids \union {None}]
    <3>1. CASE Forget(act[h])
      BY <3>1 DEF Forget
    <3>2. CASE /\ cancelled' = [cancelled EXCEPT ![act[h]] = TRUE]
               /\ UNCHANGED <<life, aSerial, aScid>>
      BY <3>2
    <3>3. QED
      BY <1>13, <3>1, <3>2 DEF StopActor
  <2>2. /\ pc' \in [Handlers -> HandlerLabels]
        /\ serial' \in [Handlers -> Serials \union {None}]
        /\ mu' \in [Handlers -> Mutexes \union {None}]
        /\ act' \in [Handlers -> Actors \union {None}]
    BY <1>13 DEF StopActor, Return
  <2>3. QED
    BY <1>13, <2>1, <2>2, ReleaseTypes DEF StopActor, mutexVars, deviceVars
<1>14. QED
  BY <1>1, <1>2, <1>3, <1>4, <1>5, <1>6, <1>7, <1>8, <1>9, <1>10, <1>11, <1>12,
     <1>13 DEF HandlerStep, GetOrCreateActor, Disconnect

LEMMA ActorTypes ==
  ASSUME TypeOK, NEW a \in Actors,
         Connect(a) \/ ConnectFault(a) \/ ActorStep(a) \/ RecoverPanic(a)
  PROVE  TypeOK'
<1> USE DEF TypeOK, mutexVars, handlerVars, actorVars
<1> USE RegistryAssumption
<1>1. CASE StartServer(a)
  BY <1>1, AllocUnchanged DEF StartServer, ConnectFrame
<1>2. CASE Handshake(a)
  BY <1>2, AllocUnchanged DEF Handshake, ConnectFrame, CloseSession
<1>3. CASE ConnectFault(a)
  BY <1>3, AllocUnchanged, FaultTypes DEF ConnectFault, ConnectFrame, CloseSession
<1>4. CASE Reconnect(a)
  BY <1>4, AllocUnchanged DEF Reconnect, ConnectFrame
<1>5. CASE ActorExit(a)
  <2>1. /\ sess' \in [Actors -> {"nil", "dial", "handshake", "open"}]
        /\ server' \in [Serials -> Actors \union {None}]
    BY <1>5 DEF ActorExit, CloseSession, deviceVars
  <2>2. /\ life' \in [Actors -> {"free", "connecting", "running", "ended"}]
        /\ cancelled' \in [Actors -> BOOLEAN]
        /\ aSerial' \in [Actors -> Serials \union {None}]
        /\ aScid' \in [Actors -> Scids \union {None}]
    <3>1. CASE Forget(a)
      BY <3>1 DEF Forget
    <3>2. CASE /\ life' = [life EXCEPT ![a] = "ended"]
               /\ UNCHANGED <<cancelled, aSerial, aScid>>
      BY <3>2
    <3>3. QED
      BY <1>5, <3>1, <3>2 DEF ActorExit
  <2>3. QED
    BY <1>5, <2>1, <2>2, AllocUnchanged DEF ActorExit
<1>6. CASE RecoverPanic(a)
  BY <1>6, AllocUnchanged, FaultTypes DEF RecoverPanic, ConnectFrame, CloseSession
<1>7. QED
  BY <1>1, <1>2, <1>3, <1>4, <1>5, <1>6 DEF Connect, ActorStep

LEMMA TypeStep ==
  ASSUME TypeOK, HandlersHold, [Next]_vars
  PROVE  TypeOK'
<1> USE DEF TypeOK, mutexVars, handlerVars, actorVars, deviceVars
<1>1. CASE \E s \in Serials : ServerDies(s)
  BY <1>1, AllocUnchanged, FaultTypes DEF ServerDies
<1>2. CASE Cancel \/ Cleanup
  BY <1>2, AllocUnchanged DEF Cancel, Cleanup
<1>3. CASE UNCHANGED vars
  BY <1>3, AllocUnchanged DEF vars, allocVars
<1>4. QED
  BY <1>1, <1>2, <1>3, HandlerTypes, ActorTypes DEF Next, Terminated
-----------------------------------------------------------------------------
(* Ownership. *)

\* Where the leased actors are.
LEMMA LeasedInUse ==
  ASSUME HandlersHold, MapIsSound, NEW a \in Leased
  PROVE  a \in Actors /\ life[a] \in {"connecting"} \union Live
<1>1. CASE life[a] = "connecting" /\ a \in Actors
  BY <1>1
<1>2. CASE a \in Actors /\ \E s \in Serials : devices[s] = a
  BY <1>2, RegistryAssumption DEF MapIsSound
<1>3. CASE \E h \in Removing : act[h] = a
  BY <1>3 DEF Removing, HandlersHold
<1>4. QED
  BY <1>1, <1>2, <1>3 DEF Leased

OwnerInv ==
  HandlersHold /\ HoldersDiffer /\ MapIsSound /\ InUseHasSerial /\ ScidOwnership

(***************************************************************************)
(* Most steps move no owner: they leave the allocator, the map and the     *)
(* actors' lives alone, and each handler goes on holding what it held.     *)
(***************************************************************************)
OwnersUnmoved ==
  /\ UNCHANGED <<allocVars, devices, life, aSerial, aScid>>
  /\ \A h \in Handlers :
       /\ pc'[h] # "idle" => serial'[h] \in Serials
       /\ pc'[h] \in Building <=> pc[h] \in Building
       /\ pc'[h] = "stop" <=> pc[h] = "stop"
       /\ pc[h] \in Building \union {"stop"} => act'[h] = act[h]

LEMMA UnmovedKeepsOwners ==
  ASSUME OwnerInv, OwnersUnmoved
  PROVE  OwnerInv'
<1> USE DEF OwnerInv, OwnersUnmoved
<1>1. HandlersHold'
  BY DEF HandlersHold, Building
<1>2. HoldersDiffer'
  BY DEF HoldersDiffer, Holding
<1>3. MapIsSound' /\ InUseHasSerial'
  BY DEF MapIsSound, InUseHasSerial
<1>4. Leased' = Leased
  BY DEF Leased, Removing
<1>5. ScidOwnership'
  BY <1>4 DEF ScidOwnership, allocVars, ScidPort, ScidHash
<1>6. QED
  BY <1>1, <1>2, <1>3, <1>5

(***************************************************************************)
(* ScidOwnership is about Leased alone: when an actor with a free port is  *)
(* added, or one leaves with its scid, it is kept.                         *)
(***************************************************************************)
LEMMA LeaseKeepsOwnership ==
  ASSUME ScidOwnership, NEW a, a \notin Leased,
         Leased' = Leased \union {a},
         \A b \in Leased : aScid'[b] = aScid[b],
         ScidPort(aScid'[a]) \notin usedPort, Reserve(aScid'[a])
  PROVE  ScidOwnership'
<1>1. usedScid' = {aScid'[b] : b \in Leased'}
  BY DEF ScidOwnership, Reserve
<1>2. usedPort' = {ScidPort(scid) : scid \in usedScid'}
  BY DEF ScidOwnership, Reserve
<1>3. \A b \in Leased : ScidPort(aScid'[b]) \in usedPort
  BY DEF ScidOwnership
<1>4. ASSUME NEW b \in Leased', NEW c \in Leased', b # c
      PROVE  ScidPort(aScid'[b]) # ScidPort(aScid'[c])
  BY <1>3, <1>4 DEF ScidOwnership
<1>5. QED
  BY <1>1, <1>2, <1>4 DEF ScidOwnership, ScidPort, ScidHash

LEMMA ReturnKeepsOwnership ==
  ASSUME ScidOwnership, NEW a \in Leased,
         Leased' = Leased \ {a},
         \A b \in Leased' : aScid'[b] = aScid[b],
         Release(aScid[a])
  PROVE  ScidOwnership'
<1>1. \A b \in Leased : b # a => ScidPort(aScid[b]) # ScidPort(aScid[a])
  BY DEF ScidOwnership
<1>2. \A b \in Leased : b # a => aScid[b] # aScid[a]
  BY <1>1
<1>3. usedScid' = {aScid'[b] : b \in Leased'}
  BY <1>2 DEF ScidOwnership, Release
<1>4. usedPort' = {ScidPort(scid) : scid \in usedScid'}
  BY <1>1, <1>3 DEF ScidOwnership, Release
<1>5. ASSUME NEW b \in Leased', NEW c \in Leased', b # c
      PROVE  ScidPort(aScid'[b]) # ScidPort(aScid'[c])
  BY <1>5 DEF ScidOwnership
<1>6. QED
  BY <1>3, <1>4, <1>5 DEF ScidOwnership, ScidPort, ScidHash

\* The functions that the steps below update, typed.
LocalTypes ==
  /\ pc \in [Handlers -> HandlerLabels]
  /\ serial \in [Handlers -> Serials \union {None}]
  /\ act \in [Handlers -> Actors \union {None}]
  /\ devices \in [Serials -> Actors \union {None}]
  /\ life \in [Actors -> {"free", "connecting", "running", "ended"}]
  /\ aSerial \in [Actors -> Serials \union {None}]
  /\ aScid \in [Actors -> Scids \union {None}]

LEMMA QuietHandlers ==
  ASSUME LocalTypes, HandlersHold, NEW h \in Handlers,
         \/ Accept(h) \/ Lookup(h) \/ ConnectMutex(h) \/ LockSerial(h)
         \/ Recheck(h) \/ AllocatorExhausted(h) \/ DiscardDuplicate(h)
         \/ Store(h) /\ devices[aSerial[act[h]]] # None
         \/ RemoveDevice(h) /\ devices[serial[h]] = None
  PROVE  OwnersUnmoved
<1> USE DEF OwnersUnmoved, LocalTypes, HandlersHold, Building, Goto, actorVars
<1>1. CASE Accept(h)
  BY <1>1, RegistryAssumption DEF Accept, AllOps
<1>2. CASE Lookup(h)
  BY <1>2 DEF Lookup, Return
<1>3. CASE ConnectMutex(h)
  BY <1>3 DEF ConnectMutex
<1>4. CASE LockSerial(h)
  BY <1>4 DEF LockSerial
<1>5. CASE Recheck(h)
  BY <1>5 DEF Recheck, Return
<1>6. CASE AllocatorExhausted(h)
  BY <1>6 DEF AllocatorExhausted, Return
<1>7. CASE DiscardDuplicate(h)
  BY <1>7 DEF DiscardDuplicate
<1>8. CASE Store(h) /\ devices[aSerial[act[h]]] # None
  BY <1>8 DEF Store
<1>9. CASE RemoveDevice(h) /\ devices[serial[h]] = None
  BY <1>9 DEF RemoveDevice, Return
<1>10. QED
  BY <1>1, <1>2, <1>3, <1>4, <1>5, <1>6, <1>7, <1>8, <1>9

LEMMA QuietOthers ==
  ASSUME HandlersHold,
         \/ \E a \in Actors : \/ Connect(a) \/ ConnectFault(a) \/ Reconnect(a)
                              \/ RecoverPanic(a)
         \/ \E s \in Serials : ServerDies(s)
         \/ Cancel \/ Cleanup \/ UNCHANGED vars
  PROVE  OwnersUnmoved
<1>1. UNCHANGED <<allocVars, devices, life, aSerial, aScid, pc, serial, act>>
  BY DEF Connect, StartServer, Handshake, ConnectFault, Reconnect, RecoverPanic,
         ConnectFrame, ServerDies, Cancel, Cleanup, vars, allocVars, actorVars,
         handlerVars
<1>2. QED
  BY <1>1 DEF OwnersUnmoved, HandlersHold

\* newDeviceActor: a free actor, and a scid with a free port, are leased.
LEMMA NewActorKeepsOwners ==
  ASSUME OwnerInv, LocalTypes, NEW h \in Handlers, NewDeviceActor(h)
  PROVE  OwnerInv'
<1> USE DEF OwnerInv, LocalTypes
<1>1. PICK scid \in Scids, a \in Actors :
        /\ Alloc(scid) /\ FreeActor(a)
        /\ act' = [act EXCEPT ![h] = a]
        /\ life' = [life EXCEPT ![a] = "connecting"]
        /\ aSerial' = [aSerial EXCEPT ![a] = serial[h]]
        /\ aScid' = [aScid EXCEPT ![a] = scid]
  BY DEF NewDeviceActor
<1>2. /\ pc[h] = "alloc" /\ pc' = [pc EXCEPT ![h] = "connect"]
      /\ UNCHANGED <<devices, serial>>
      /\ life[a] = "free" /\ serial[h] \in Serials
  BY <1>1 DEF NewDeviceActor, Goto, FreeActor, HandlersHold
<1>3. /\ \A s \in Serials : devices[s] # a
      /\ \A g \in Handlers : Holding(g) => act[g] # a
      /\ a \notin Leased
  <2>1. \A s \in Serials : devices[s] # a
    BY <1>2, RegistryAssumption DEF MapIsSound, Live
  <2>2. \A g \in Handlers : Holding(g) => act[g] # a
    BY <1>2 DEF HandlersHold, Holding, Live
  <2>3. a \notin Leased
    BY <1>2, LeasedInUse DEF Live
  <2>4. QED
    BY <2>1, <2>2, <2>3
<1>4. HandlersHold'
  BY <1>1, <1>2, <1>3 DEF HandlersHold, Building, Live, Holding
<1>5. HoldersDiffer'
  BY <1>1, <1>2, <1>3 DEF HoldersDiffer, Holding, Building
<1>6. MapIsSound' /\ InUseHasSerial'
  BY <1>1, <1>2, <1>3, RegistryAssumption DEF MapIsSound, InUseHasSerial
<1>7. ScidOwnership'
  <2>1. Leased' = Leased \union {a}
    BY <1>1, <1>2, <1>3 DEF Leased, Removing
  <2>2. aScid'[a] = scid /\ \A b \in Leased : aScid'[b] = aScid[b]
    BY <1>1, <1>3, LeasedInUse
  <2>3. VideoPortsDistinct
    BY DEF ScidOwnership, VideoPortsDistinct
  <2>4. ScidPort(scid) \notin usedPort
    BY <1>1, <2>3, IssuedPortIsFree DEF Alloc
  <2>5. QED
    BY <1>1, <1>3, <2>1, <2>2, <2>4, LeaseKeepsOwnership DEF Alloc
<1>8. QED
  BY <1>4, <1>5, <1>6, <1>7

\* ConnectFailed and ReleaseDuplicate: the actor that a handler was building
\* goes, and its scid with it.
LEMMA DropKeepsOwners ==
  ASSUME OwnerInv, LocalTypes, NEW h \in Handlers, pc[h] \in Building,
         Release(aScid[act[h]]), Forget(act[h]), Return(h), UNCHANGED devices
  PROVE  OwnerInv'
<1> USE DEF OwnerInv, LocalTypes
<1> DEFINE a == act[h]
<1>1. /\ a \in Actors /\ life[a] = "connecting"
      /\ life' = [life EXCEPT ![a] = "free"]
      /\ aSerial' = [aSerial EXCEPT ![a] = None]
      /\ aScid' = [aScid EXCEPT ![a] = None]
      /\ pc' = [pc EXCEPT ![h] = "idle"]
      /\ serial' = [serial EXCEPT ![h] = None]
      /\ act' = [act EXCEPT ![h] = None]
  BY DEF HandlersHold, Forget, Return
<1>2. /\ \A s \in Serials : devices[s] # a
      /\ \A g \in Handlers : g # h /\ Holding(g) => act[g] # a
      /\ a \in Leased
  <2>1. \A s \in Serials : devices[s] # a
    BY <1>1, RegistryAssumption DEF MapIsSound, Live
  <2>2. \A g \in Handlers : g # h /\ Holding(g) => act[g] # a
    BY DEF HoldersDiffer, Holding
  <2>3. a \in Leased
    BY <1>1 DEF Leased
  <2>4. QED
    BY <2>1, <2>2, <2>3
<1> HIDE DEF a
<1>3. HandlersHold'
  BY <1>1, <1>2 DEF HandlersHold, Building, Holding
<1>4. HoldersDiffer'
  BY <1>1 DEF HoldersDiffer, Holding, Building
<1>5. MapIsSound' /\ InUseHasSerial'
  BY <1>1, <1>2, RegistryAssumption DEF MapIsSound, InUseHasSerial
<1>6. ScidOwnership'
  <2>1. Leased' = Leased \ {a}
    BY <1>1, <1>2 DEF Leased, Removing, Building, Holding
  <2>2. \A b \in Leased' : aScid'[b] = aScid[b]
    BY <1>1, <2>1, LeasedInUse
  <2>3. QED
    BY <1>2, <2>1, <2>2, ReturnKeepsOwnership DEF a
<1>7. QED
  BY <1>3, <1>4, <1>5, <1>6

\* Store publishes the actor: it is leased as before, now by the map.
LEMMA PublishKeepsOwners ==
  ASSUME OwnerInv, LocalTypes, NEW h \in Handlers, Store(h),
         devices[aSerial[act[h]]] = None
  PROVE  OwnerInv'
<1> USE DEF OwnerInv, LocalTypes
<1> DEFINE a == act[h]
<1>1. /\ a \in Actors /\ life[a] = "connecting" /\ aSerial[a] \in Serials
      /\ pc[h] = "connect" /\ pc' = [pc EXCEPT ![h] = "idle"]
      /\ devices' = [devices EXCEPT ![aSerial[a]] = a]
      /\ life' = [life EXCEPT ![a] = "running"]
      /\ serial' = [serial EXCEPT ![h] = None]
      /\ act' = [act EXCEPT ![h] = None]
      /\ UNCHANGED <<allocVars, aSerial, aScid>>
  BY DEF Store, HandlersHold, InUseHasSerial, Building, Return
<1>2. /\ \A s \in Serials : devices[s] # a
      /\ \A g \in Handlers : g # h /\ Holding(g) => act[g] # a
      /\ devices[aSerial[a]] = None
  <2>1. \A s \in Serials : devices[s] # a
    BY <1>1, RegistryAssumption DEF MapIsSound, Live
  <2>2. \A g \in Handlers : g # h /\ Holding(g) => act[g] # a
    BY <1>1 DEF HoldersDiffer, Holding, Building
  <2>3. QED
    BY <2>1, <2>2
<1> HIDE DEF a
<1>3. HandlersHold'
  BY <1>1, <1>2 DEF HandlersHold, Building, Holding, Live
<1>4. HoldersDiffer'
  BY <1>1 DEF HoldersDiffer, Holding, Building
<1>5. MapIsSound' /\ InUseHasSerial'
  BY <1>1, <1>2, RegistryAssumption DEF MapIsSound, InUseHasSerial, Live
<1>6. ScidOwnership'
  <2>1. Leased' = Leased
    <3>1. \A b \in Actors : b # a =>
            ((\E s \in Serials : devices'[s] = b) <=> (\E s \in Serials : devices[s] = b))
      BY <1>1, <1>2, RegistryAssumption
    <3>2. \E s \in Serials : devices'[s] = a
      BY <1>1
    <3>3. \A b \in Actors :
            (\E g \in Removing' : act'[g] = b) <=> (\E g \in Removing : act[g] = b)
      BY <1>1 DEF Removing
    <3>4. QED
      BY <1>1, <3>1, <3>2, <3>3 DEF Leased
  <2>2. QED
    BY <1>1, <2>1 DEF ScidOwnership, allocVars, ScidPort, ScidHash
<1>7. QED
  BY <1>3, <1>4, <1>5, <1>6

\* removeDevice takes the actor out of the map: it is leased as before, now
\* by the handler that will stop it.
LEMMA TakeOutKeepsOwners ==
  ASSUME OwnerInv, LocalTypes, NEW h \in Handlers, RemoveDevice(h),
         devices[serial[h]] # None
  PROVE  OwnerInv'
<1> USE DEF OwnerInv, LocalTypes
<1> DEFINE s0 == serial[h]
           a == devices[s0]
<1>1. /\ s0 \in Serials /\ a \in Actors /\ life[a] \in Live /\ aSerial[a] = s0
      /\ pc[h] = "disconnect" /\ pc' = [pc EXCEPT ![h] = "stop"]
      /\ devices' = [devices EXCEPT ![s0] = None]
      /\ act' = [act EXCEPT ![h] = a]
      /\ UNCHANGED <<allocVars, serial, life, aSerial, aScid>>
  BY DEF RemoveDevice, HandlersHold, MapIsSound, Goto, actorVars
<1>2. /\ \A s \in Serials : s # s0 => devices[s] # a
      /\ \A g \in Handlers : Holding(g) => act[g] # a
      /\ devices[s0] = a /\ serial[h] = s0
  <2>1. \A s \in Serials : s # s0 => devices[s] # a
    BY <1>1, RegistryAssumption DEF MapIsSound
  <2>2. \A g \in Handlers : Holding(g) => act[g] # a
    BY <1>1 DEF HandlersHold, Holding, Live
  <2>3. QED
    BY <2>1, <2>2
<1> HIDE DEF a, s0
<1>3. HandlersHold'
  BY <1>1, <1>2, RegistryAssumption DEF HandlersHold, Building, Holding
<1>4. HoldersDiffer'
  BY <1>1, <1>2 DEF HoldersDiffer, Holding, Building
<1>5. MapIsSound' /\ InUseHasSerial'
  BY <1>1, <1>2, RegistryAssumption DEF MapIsSound, InUseHasSerial
<1>6. ScidOwnership'
  <2>1. Leased' = Leased
    <3>1. \A b \in Actors : b # a =>
            ((\E s \in Serials : devices'[s] = b) <=> (\E s \in Serials : devices[s] = b))
      BY <1>1, <1>2, RegistryAssumption
    <3>2. Removing' = Removing \union {h} /\ h \notin Removing
      BY <1>1 DEF Removing
    <3>3. \A b \in Actors : b # a =>
            ((\E g \in Removing' : act'[g] = b) <=> (\E g \in Removing : act[g] = b))
      BY <1>1, <3>2 DEF Removing
    <3>4. (\E g \in Removing' : act'[g] = a) /\ (\E s \in Serials : devices[s] = a)
      BY <1>1, <1>2, <3>2
    <3>5. QED
      BY <1>1, <3>1, <3>3, <3>4 DEF Leased
  <2>2. QED
    BY <1>1, <2>1 DEF ScidOwnership, allocVars, ScidPort, ScidHash
<1>7. QED
  BY <1>3, <1>4, <1>5, <1>6

\* removeDevice cancels the actor and gives its scid back.
LEMMA StopKeepsOwners ==
  ASSUME OwnerInv, LocalTypes, NEW h \in Handlers, StopActor(h)
  PROVE  OwnerInv'
<1> USE DEF OwnerInv, LocalTypes
<1> DEFINE a == act[h]
<1>1. /\ a \in Actors /\ life[a] \in Live /\ pc[h] = "stop"
      /\ pc' = [pc EXCEPT ![h] = "idle"]
      /\ serial' = [serial EXCEPT ![h] = None]
      /\ act' = [act EXCEPT ![h] = None]
      /\ UNCHANGED devices
      /\ \/ /\ life' = [life EXCEPT ![a] = "free"]
            /\ aSerial' = [aSerial EXCEPT ![a] = None]
            /\ aScid' = [aScid EXCEPT ![a] = None]
         \/ UNCHANGED <<life, aSerial, aScid>>
  BY DEF StopActor, HandlersHold, Forget, Return
<1>2. /\ \A s \in Serials : devices[s] # a
      /\ \A g \in Handlers : g # h /\ Holding(g) => act[g] # a
      /\ a \in Leased
      /\ act[h] = a
  <2>1. \A s \in Serials : devices[s] # a
    BY <1>1 DEF HandlersHold
  <2>2. \A g \in Handlers : g # h /\ Holding(g) => act[g] # a
    BY <1>1 DEF HoldersDiffer, Holding
  <2>3. a \in Leased
    BY <1>1 DEF Leased, Removing
  <2>4. QED
    BY <2>1, <2>2, <2>3
<1>3. Release(aScid[a])
  BY DEF StopActor
<1> HIDE DEF a
<1>4. HandlersHold'
  BY <1>1, <1>2 DEF HandlersHold, Building, Holding
<1>5. HoldersDiffer'
  BY <1>1 DEF HoldersDiffer, Holding, Building
<1>6. MapIsSound' /\ InUseHasSerial'
  BY <1>1, <1>2, RegistryAssumption DEF MapIsSound, InUseHasSerial
<1>7. ScidOwnership'
  <2>1. Leased' = Leased \ {a}
    <3>1. \A b \in Actors :
            (\E g \in Removing' : act'[g] = b) <=> (b # a /\ \E g \in Removing : act[g] = b)
      BY <1>1, <1>2, RegistryAssumption DEF Removing, Holding
    <3>2. life[a] # "connecting" /\ life'[a] # "connecting"
      BY <1>1 DEF Live
    <3>3. QED
      BY <1>1, <1>2, <3>1, <3>2 DEF Leased
  <2>2. \A b \in Leased' : aScid'[b] = aScid[b]
    BY <1>1, <2>1, LeasedInUse
  <2>3. QED
    BY <1>2, <1>3, <2>1, <2>2, ReturnKeepsOwnership
<1>8. QED
  BY <1>4, <1>5, <1>6, <1>7

\* The actor's goroutine ends.  Nobody holds it for building; if the map or a
\* handler still has it, it keeps its scid until removeDevice comes.
LEMMA ExitKeepsOwners ==
  ASSUME OwnerInv, LocalTypes, NEW a \in Actors, ActorExit(a)
  PROVE  OwnerInv'
<1> USE DEF OwnerInv, LocalTypes
<1>1. /\ life[a] = "running"
      /\ UNCHANGED <<allocVars, devices, pc, serial, act>>
      /\ \/ life' = [life EXCEPT ![a] = "ended"] /\ UNCHANGED <<aSerial, aScid>>
         \/ /\ ~Referenced(a)
            /\ life' = [life EXCEPT ![a] = "free"]
            /\ aSerial' = [aSerial EXCEPT ![a] = None]
            /\ aScid' = [aScid EXCEPT ![a] = None]
  BY DEF ActorExit, Forget, handlerVars
<1>2. ~Referenced(a) => /\ \A s \in Serials : devices[s] # a
                        /\ \A g \in Handlers : act[g] # a
                        /\ a \notin Leased
  BY <1>1 DEF Referenced, Leased, Removing
<1>3. HandlersHold'
  BY <1>1, <1>2 DEF HandlersHold, Building, Live
<1>4. HoldersDiffer'
  BY <1>1 DEF HoldersDiffer, Holding
<1>5. MapIsSound' /\ InUseHasSerial'
  BY <1>1, <1>2 DEF MapIsSound, InUseHasSerial, Live
<1>6. Leased' = Leased
  BY <1>1 DEF Leased, Removing
<1>7. \A b \in Leased : aScid'[b] = aScid[b]
  BY <1>1, <1>2, LeasedInUse
<1>8. ScidOwnership'
  BY <1>1, <1>6, <1>7 DEF ScidOwnership, allocVars, ScidPort, ScidHash
<1>9. QED
  BY <1>3, <1>4, <1>5, <1>8
-----------------------------------------------------------------------------
RegInv == TypeOK /\ OwnerInv

LEMMA RegInvInit == Init => RegInv
<1> SUFFICES ASSUME Init PROVE RegInv
  OBVIOUS
<1>1. TypeOK
  BY RegistryAssumption DEF Init, AllocInit, TypeOK, AllocTypeOK, HandlerLabels
<1>2. HandlersHold /\ HoldersDiffer /\ MapIsSound /\ InUseHasSerial
  BY DEF Init, HandlersHold, HoldersDiffer, Holding, MapIsSound, InUseHasSerial,
         Building
<1>3. Leased = {}
  BY RegistryAssumption DEF Init, Leased, Removing
<1>4. ScidOwnership
  BY <1>3 DEF Init, AllocInit, ScidOwnership
<1>5. QED
  BY <1>1, <1>2, <1>4 DEF RegInv, OwnerInv

LEMMA RegInvStep == RegInv /\ [Next]_vars => RegInv'
<1> SUFFICES ASSUME RegInv, [Next]_vars PROVE RegInv'
  OBVIOUS
<1>1. TypeOK'
  BY TypeStep DEF RegInv, OwnerInv
<1>2. LocalTypes /\ OwnerInv /\ HandlersHold
  BY DEF RegInv, LocalTypes, TypeOK, OwnerInv
<1>3. ASSUME NEW h \in Handlers, Accept(h) \/ HandlerStep(h)
      PROVE  OwnerInv'
  <2>1. CASE \/ Accept(h) \/ Lookup(h) \/ ConnectMutex(h) \/ LockSerial(h)
             \/ Recheck(h) \/ AllocatorExhausted(h) \/ DiscardDuplicate(h)
             \/ Store(h) /\ devices[aSerial[act[h]]] # None
             \/ RemoveDevice(h) /\ devices[serial[h]] = None
    BY <1>2, <2>1, QuietHandlers, UnmovedKeepsOwners
  <2>2. CASE NewDeviceActor(h)
    BY <1>2, <2>2, NewActorKeepsOwners
  <2>3. CASE ConnectFailed(h) \/ ReleaseDuplicate(h)
    BY <1>2, <2>3, DropKeepsOwners DEF ConnectFailed, ReleaseDuplicate, Building
  <2>4. CASE Store(h) /\ devices[aSerial[act[h]]] = None
    BY <1>2, <2>4, PublishKeepsOwners
  <2>5. CASE RemoveDevice(h) /\ devices[serial[h]] # None
    BY <1>2, <2>5, TakeOutKeepsOwners
  <2>6. CASE StopActor(h)
    BY <1>2, <2>6, StopKeepsOwners
  <2>7. QED
    BY <1>3, <2>1, <2>2, <2>3, <2>4, <2>5, <2>6
       DEF HandlerStep, GetOrCreateActor, Disconnect
<1>4. ASSUME NEW a \in Actors, ActorExit(a)
      PROVE  OwnerInv'
  BY <1>2, <1>4, ExitKeepsOwners
<1>5. ASSUME \/ \E a \in Actors : \/ Connect(a) \/ ConnectFault(a) \/ Reconnect(a)
                                  \/ RecoverPanic(a)
             \/ \E s \in Serials : ServerDies(s)
             \/ Cancel \/ Cleanup \/ UNCHANGED vars
      PROVE  OwnerInv'
  BY <1>2, <1>5, QuietOthers, UnmovedKeepsOwners
<1>6. OwnerInv'
  BY <1>3, <1>4, <1>5 DEF Next, ActorStep, Terminated
<1>7. QED
  BY <1>1, <1>6 DEF RegInv

(***************************************************************************)
(* The registry's state keeps its types, for any number of handlers,       *)
(* serials, actors and mutexes: in particular every scid that getOrCreate- *)
(* Actor hands to a session lies in the window (scid.go:45-81).            *)
(***************************************************************************)
THEOREM RegistryTypeCorrect == Spec => []TypeOK
<1>1. RegInv => TypeOK
  BY DEF RegInv
<1>2. QED
  BY <1>1, RegInvInit, RegInvStep, PTL DEF Spec

(***************************************************************************)
(* Every scid in use has exactly one owner and no two owners share a video *)
(* port, whatever connects, failures, duplicates, disconnects and exits    *)
(* interleave (actor.go:78-106, daemon.go:219-264).                        *)
(***************************************************************************)
THEOREM ScidsHaveOneOwner == Spec => []ScidOwnership
<1>1. RegInv => ScidOwnership
  BY DEF RegInv, OwnerInv
<1>2. QED
  BY <1>1, RegInvInit, RegInvStep, PTL DEF Spec
-----------------------------------------------------------------------------
(* No actor is lost. *)

LEMMA NoLostStep == RegInv /\ NoLostActor /\ [Next]_vars => NoLostActor'
<1> SUFFICES ASSUME RegInv, NoLostActor, [Next]_vars,
                    NEW a \in Actors, life'[a] = "running", ~cancelled'[a]
             PROVE  \/ devices'[aSerial'[a]] = a
                    \/ \E h \in Removing' : act'[h] = a
  BY DEF NoLostActor
<1>1. LocalTypes /\ OwnerInv /\ HandlersHold /\ cancelled \in [Actors -> BOOLEAN]
  BY DEF RegInv, LocalTypes, TypeOK, OwnerInv
<1> DEFINE Kept == \/ devices[aSerial[a]] = a
                   \/ \E h \in Removing : act[h] = a
           Found == \/ devices'[aSerial'[a]] = a
                    \/ \E h \in Removing' : act'[h] = a
<1>2. life[a] = "running" /\ ~cancelled[a] => Kept
  BY DEF NoLostActor
<1>3. ASSUME UNCHANGED cancelled, OwnersUnmoved
      PROVE  Found
  <2>1. UNCHANGED <<life, cancelled, devices, aSerial>>
    BY <1>3 DEF OwnersUnmoved
  <2>2. \A h \in Removing : h \in Removing' /\ act'[h] = act[h]
    BY <1>3 DEF OwnersUnmoved, Removing
  <2>3. QED
    BY <1>2, <2>1, <2>2
<1>4. ASSUME NEW h \in Handlers, Accept(h) \/ HandlerStep(h)
      PROVE  Found
  <2>1. CASE \/ Accept(h) \/ Lookup(h) \/ ConnectMutex(h) \/ LockSerial(h)
             \/ Recheck(h) \/ AllocatorExhausted(h) \/ DiscardDuplicate(h)
             \/ Store(h) /\ devices[aSerial[act[h]]] # None
             \/ RemoveDevice(h) /\ devices[serial[h]] = None
    <3>1. UNCHANGED cancelled
      BY <2>1 DEF Accept, Lookup, ConnectMutex, LockSerial, Recheck, AllocatorExhausted,
                  DiscardDuplicate, Store, RemoveDevice, actorVars
    <3>2. QED
      BY <1>1, <1>3, <2>1, <3>1, QuietHandlers
  <2>2. CASE NewDeviceActor(h)
    <3>1. /\ life[a] = "running" /\ ~cancelled[a]
          /\ UNCHANGED devices /\ aSerial'[a] = aSerial[a]
      BY <1>1, <2>2 DEF NewDeviceActor, LocalTypes, FreeActor
    <3>2. \A g \in Removing : g \in Removing' /\ act'[g] = act[g]
      BY <1>1, <2>2 DEF NewDeviceActor, LocalTypes, Removing, Goto
    <3>3. QED
      BY <1>2, <3>1, <3>2
  <2>3. CASE ConnectFailed(h) \/ ReleaseDuplicate(h)
    <3>1. pc[h] \in Building /\ Forget(act[h]) /\ Return(h) /\ UNCHANGED devices
      BY <2>3 DEF ConnectFailed, ReleaseDuplicate, Building
    <3>2. a # act[h] /\ life[a] = "running" /\ ~cancelled[a] /\ aSerial'[a] = aSerial[a]
      BY <1>1, <3>1 DEF Forget, LocalTypes, HandlersHold
    <3>3. \A g \in Removing : g \in Removing' /\ act'[g] = act[g]
      BY <1>1, <3>1 DEF LocalTypes, Removing, Return, Building
    <3>4. QED
      BY <1>2, <3>1, <3>2, <3>3
  <2>4. CASE Store(h) /\ devices[aSerial[act[h]]] = None
    <3>1. /\ act[h] \in Actors /\ aSerial[act[h]] \in Serials
          /\ pc[h] = "connect"
          /\ devices' = [devices EXCEPT ![aSerial[act[h]]] = act[h]]
          /\ life' = [life EXCEPT ![act[h]] = "running"]
          /\ UNCHANGED <<cancelled, aSerial>> /\ Return(h)
      BY <1>1, <2>4 DEF Store, HandlersHold, OwnerInv, InUseHasSerial, Building
    <3>2. CASE a = act[h]
      BY <1>1, <3>1, <3>2 DEF LocalTypes
    <3>3. CASE a # act[h]
      <4>1. Kept
        BY <1>1, <1>2, <3>1, <3>3 DEF LocalTypes
      <4>2. devices[aSerial[a]] = a => devices'[aSerial[a]] = a
        BY <1>1, <2>4, <3>1, RegistryAssumption DEF LocalTypes
      <4>3. \A g \in Removing : g \in Removing' /\ act'[g] = act[g]
        BY <1>1, <3>1 DEF LocalTypes, Removing, Return
      <4>4. QED
        BY <3>1, <4>1, <4>2, <4>3
    <3>4. QED
      BY <3>2, <3>3
  <2>5. CASE RemoveDevice(h) /\ devices[serial[h]] # None
    <3>1. /\ pc[h] = "disconnect" /\ pc' = [pc EXCEPT ![h] = "stop"]
          /\ serial[h] \in Serials
          /\ devices' = [devices EXCEPT ![serial[h]] = None]
          /\ act' = [act EXCEPT ![h] = devices[serial[h]]]
          /\ UNCHANGED <<life, cancelled, aSerial>>
      BY <1>1, <2>5 DEF RemoveDevice, HandlersHold, Goto, actorVars
    <3>2. Kept
      BY <1>2, <3>1
    <3>3. \A g \in Removing : g \in Removing' /\ act'[g] = act[g]
      BY <1>1, <3>1 DEF LocalTypes, Removing
    <3>4. devices[aSerial[a]] = a => Found
      <4>1. CASE aSerial[a] = serial[h]
        BY <1>1, <3>1, <4>1 DEF LocalTypes, Removing
      <4>2. CASE aSerial[a] # serial[h]
        BY <1>1, <3>1, <4>2 DEF LocalTypes
      <4>3. QED
        BY <4>1, <4>2
    <3>5. QED
      BY <3>2, <3>3, <3>4
  <2>6. CASE StopActor(h)
    <3>1. /\ pc[h] = "stop" /\ act[h] \in Actors /\ Return(h) /\ UNCHANGED devices
          /\ \/ Forget(act[h])
             \/ /\ cancelled' = [cancelled EXCEPT ![act[h]] = TRUE]
                /\ UNCHANGED <<life, aSerial, aScid>>
      BY <1>1, <2>6 DEF StopActor, HandlersHold
    <3>2. a # act[h] /\ life[a] = "running" /\ ~cancelled[a] /\ aSerial'[a] = aSerial[a]
      BY <1>1, <3>1 DEF Forget, LocalTypes
    <3>3. \A g \in Removing : g # h => g \in Removing' /\ act'[g] = act[g]
      BY <1>1, <3>1 DEF LocalTypes, Removing, Return
    <3>4. QED
      BY <1>2, <3>1, <3>2, <3>3
  <2>7. QED
    BY <1>4, <2>1, <2>2, <2>3, <2>4, <2>5, <2>6
       DEF HandlerStep, GetOrCreateActor, Disconnect
<1>5. ASSUME NEW b \in Actors, ActorExit(b)
      PROVE  Found
  <2>1. a # b /\ life[a] = "running" /\ ~cancelled[a] /\ aSerial'[a] = aSerial[a]
    BY <1>1, <1>5 DEF ActorExit, Forget, LocalTypes
  <2>2. UNCHANGED <<devices, pc, act>>
    BY <1>5 DEF ActorExit, handlerVars
  <2>3. QED
    BY <1>2, <2>1, <2>2 DEF Removing
<1>6. ASSUME \/ \E b \in Actors : \/ Connect(b) \/ ConnectFault(b) \/ Reconnect(b)
                                  \/ RecoverPanic(b)
             \/ \E s \in Serials : ServerDies(s)
             \/ Cancel \/ Cleanup \/ UNCHANGED vars
      PROVE  Found
  <2>1. UNCHANGED cancelled
    BY <1>6 DEF Connect, StartServer, Handshake, ConnectFault, Reconnect, RecoverPanic,
                ConnectFrame, ServerDies, Cancel, Cleanup, vars, actorVars
  <2>2. QED
    BY <1>1, <1>3, <1>6, <2>1, QuietOthers
<1>7. QED
  BY <1>4, <1>5, <1>6 DEF Next, ActorStep, Terminated

(***************************************************************************)
(* A running actor that nobody has cancelled is in the map under its       *)
(* serial, or in the hands of the handler that is about to cancel it       *)
(* (daemon.go:216-236, 249-264).                                           *)
(***************************************************************************)
THEOREM NoActorIsLost == Spec => []NoLostActor
<1>1. Init => NoLostActor
  BY DEF Init, NoLostActor
<1>2. QED
  BY <1>1, RegInvInit, RegInvStep, NoLostStep, PTL DEF Spec
-----------------------------------------------------------------------------
(* A stopped daemon leaves no server. *)

\* An actor that connects for the first time is in the hands of the handler
\* that builds it.
BuiltByHandler ==
  \A a \in Actors : life[a] = "connecting" =>
    \E h \in Handlers : pc[h] \in Building /\ act[h] = a

\* A device runs our server only for an actor that has a session on it.
ServersHaveSessions ==
  \A s \in Serials : server[s] # None =>
    aSerial[server[s]] = s /\ sess[server[s]] \in {"handshake", "open"}

\* Nobody leaves a session behind: not an actor that has ended, and not the
\* handler that has discarded a duplicate.
SessionsHaveOwners ==
  /\ \A a \in Actors : life[a] \in {"free", "ended"} => sess[a] = "nil"
  /\ \A h \in Handlers : pc[h] = "discarded" => sess[act[h]] = "nil"

\* What cleanup waited for does not come back.
StoppedIsQuiet ==
  daemon = "stopped" => /\ \A h \in Handlers : pc[h] = "idle"
                        /\ \A a \in Actors : life[a] # "running"

SessionsInv == ServersHaveSessions /\ SessionsHaveOwners

ServerInv == BuiltByHandler /\ SessionsInv /\ StoppedIsQuiet

LEMMA ServerInvSuffices == RegInv /\ ServerInv => StoppedLeavesNoServer
<1> SUFFICES ASSUME RegInv, ServerInv, daemon = "stopped",
                    NEW s \in Serials, server[s] # None
             PROVE  FALSE
  BY DEF StoppedLeavesNoServer
<1>1. server[s] \in Actors /\ sess[server[s]] # "nil"
  BY DEF RegInv, TypeOK, ServerInv, SessionsInv, ServersHaveSessions
<1>2. life[server[s]] = "connecting"
  BY <1>1 DEF RegInv, TypeOK, ServerInv, SessionsInv, SessionsHaveOwners, StoppedIsQuiet
<1>3. QED
  BY <1>1, <1>2 DEF ServerInv, BuiltByHandler, StoppedIsQuiet, Building

LEMMA BuiltStep ==
  ASSUME RegInv, BuiltByHandler, [Next]_vars
  PROVE  BuiltByHandler'
<1>1. LocalTypes /\ OwnerInv /\ HandlersHold
  BY DEF RegInv, LocalTypes, TypeOK, OwnerInv
<1>2. ASSUME OwnersUnmoved
      PROVE  BuiltByHandler'
  BY <1>2 DEF OwnersUnmoved, BuiltByHandler
<1>3. ASSUME NEW h \in Handlers, pc[h] \notin Building,
             \A g \in Handlers : g # h => pc'[g] = pc[g] /\ act'[g] = act[g],
             \A a \in Actors : life'[a] = "connecting" => life[a] = "connecting"
      PROVE  BuiltByHandler'
  BY <1>3 DEF BuiltByHandler
<1>4. ASSUME NEW h \in Handlers, Accept(h) \/ HandlerStep(h)
      PROVE  BuiltByHandler'
  <2>1. CASE \/ Accept(h) \/ Lookup(h) \/ ConnectMutex(h) \/ LockSerial(h)
             \/ Recheck(h) \/ AllocatorExhausted(h) \/ DiscardDuplicate(h)
             \/ Store(h) /\ devices[aSerial[act[h]]] # None
             \/ RemoveDevice(h) /\ devices[serial[h]] = None
    BY <1>1, <1>2, <2>1, QuietHandlers
  <2>2. CASE NewDeviceActor(h)
    <3>1. PICK a \in Actors : /\ act' = [act EXCEPT ![h] = a]
                              /\ life' = [life EXCEPT ![a] = "connecting"]
      BY <2>2 DEF NewDeviceActor
    <3>2. pc[h] = "alloc" /\ pc' = [pc EXCEPT ![h] = "connect"]
      BY <2>2 DEF NewDeviceActor, Goto
    <3>3. QED
      BY <1>1, <3>1, <3>2 DEF BuiltByHandler, Building, LocalTypes
  <2>3. CASE \/ ConnectFailed(h) \/ ReleaseDuplicate(h)
             \/ Store(h) /\ devices[aSerial[act[h]]] = None
    <3>1. /\ act[h] \in Actors /\ Return(h)
          /\ \E new \in {"free", "running"} : life' = [life EXCEPT ![act[h]] = new]
      BY <1>1, <2>3 DEF ConnectFailed, ReleaseDuplicate, Store, Forget, HandlersHold,
                        Building
    <3>2. QED
      BY <1>1, <3>1 DEF BuiltByHandler, Return, LocalTypes
  <2>4. CASE RemoveDevice(h) /\ devices[serial[h]] # None
    BY <1>1, <1>3, <2>4 DEF RemoveDevice, Building, Goto, LocalTypes, actorVars
  <2>5. CASE StopActor(h)
    <3>1. \A a \in Actors : life'[a] = "connecting" => life[a] = "connecting"
      BY <1>1, <2>5 DEF StopActor, Forget, LocalTypes
    <3>2. QED
      BY <1>1, <1>3, <2>5, <3>1 DEF StopActor, Building, Return, LocalTypes
  <2>6. QED
    BY <1>4, <2>1, <2>2, <2>3, <2>4, <2>5 DEF HandlerStep, GetOrCreateActor, Disconnect
<1>5. ASSUME NEW a \in Actors, ActorExit(a)
      PROVE  BuiltByHandler'
  BY <1>1, <1>5 DEF ActorExit, Forget, handlerVars, LocalTypes, BuiltByHandler
<1>6. ASSUME \/ \E a \in Actors : \/ Connect(a) \/ ConnectFault(a) \/ Reconnect(a)
                                  \/ RecoverPanic(a)
             \/ \E s \in Serials : ServerDies(s)
             \/ Cancel \/ Cleanup \/ UNCHANGED vars
      PROVE  BuiltByHandler'
  BY <1>1, <1>2, <1>6, QuietOthers
<1>7. QED
  BY <1>4, <1>5, <1>6 DEF Next, ActorStep, Terminated

\* Steps that leave every session and server alone.
LEMMA SessionsLeftAlone ==
  ASSUME SessionsInv, UNCHANGED <<aSerial, sess, server>>,
         \A a \in Actors : life'[a] \in {"free", "ended"} => life[a] \in {"free", "ended"},
         \A h \in Handlers : pc'[h] = "discarded" =>
                               pc[h] = "discarded" /\ act'[h] = act[h]
  PROVE  SessionsInv'
BY DEF SessionsInv, ServersHaveSessions, SessionsHaveOwners

(***************************************************************************)
(* Every other step is about one actor.  It is enough that its session is  *)
(* gone when it is, and that no device is left with a server of an actor   *)
(* that has no session on it.                                              *)
(***************************************************************************)
LEMMA OneSessionMoves ==
  ASSUME SessionsInv, HandlersHold, TypeOK, NEW a \in Actors,
         \A b \in Actors : b # a =>
           /\ sess'[b] = sess[b] /\ aSerial'[b] = aSerial[b]
           /\ life'[b] \in {"free", "ended"} => life[b] \in {"free", "ended"},
         life'[a] \in {"free", "ended"} => sess'[a] = "nil",
         \A s \in Serials :
           \/ server'[s] = None
           \/ server'[s] = server[s] /\ server[s] # a
           \/ server'[s] = a /\ aSerial'[a] = s /\ sess'[a] \in {"handshake", "open"},
         \A h \in Handlers : pc'[h] = "discarded" =>
           \/ act'[h] = a /\ sess'[a] = "nil"
           \/ pc[h] = "discarded" /\ act'[h] = act[h] /\ act[h] # a
  PROVE  SessionsInv'
<1>1. ServersHaveSessions'
  BY DEF SessionsInv, ServersHaveSessions, TypeOK
<1>2. SessionsHaveOwners'
  BY DEF SessionsInv, SessionsHaveOwners, HandlersHold, Building
<1>3. QED
  BY <1>1, <1>2 DEF SessionsInv

LEMMA SessionsStep ==
  ASSUME RegInv, SessionsInv, [Next]_vars
  PROVE  SessionsInv'
<1>1. TypeOK /\ HandlersHold /\ HoldersDiffer /\ InUseHasSerial
  BY DEF RegInv, OwnerInv
<1>2. ASSUME NEW a \in Actors, sess[a] \notin {"handshake", "open"}
      PROVE  \A s \in Serials : server[s] # a
  BY <1>2, RegistryAssumption DEF SessionsInv, ServersHaveSessions
<1>3. ASSUME NEW a \in Actors, NEW s \in Serials, server[s] = a
      PROVE  s = aSerial[a]
  BY <1>3, RegistryAssumption DEF SessionsInv, ServersHaveSessions
<1>4. ASSUME NEW h \in Handlers, Accept(h) \/ HandlerStep(h)
      PROVE  SessionsInv'
  <2>1. CASE \/ Accept(h) \/ Lookup(h) \/ ConnectMutex(h) \/ LockSerial(h)
             \/ Recheck(h) \/ AllocatorExhausted(h) \/ RemoveDevice(h)
    <3>1. UNCHANGED <<life, aSerial, sess, server>>
      BY <2>1 DEF Accept, Lookup, ConnectMutex, LockSerial, Recheck, AllocatorExhausted,
                  RemoveDevice, actorVars, deviceVars
    <3>2. \A g \in Handlers : pc'[g] = "discarded" =>
                                pc[g] = "discarded" /\ act'[g] = act[g]
      BY <1>1, <2>1, RegistryAssumption DEF Accept, Lookup, ConnectMutex, LockSerial, Recheck, AllOps,
                        AllocatorExhausted, RemoveDevice, Return, Goto, TypeOK
    <3>3. QED
      BY <3>1, <3>2, SessionsLeftAlone
  <2>2. CASE NewDeviceActor(h)
    <3>1. PICK a \in Actors : /\ life[a] = "free"
                              /\ life' = [life EXCEPT ![a] = "connecting"]
                              /\ aSerial' = [aSerial EXCEPT ![a] = serial[h]]
                              /\ sess' = [sess EXCEPT ![a] = "dial"]
                              /\ act' = [act EXCEPT ![h] = a]
      BY <2>2 DEF NewDeviceActor, FreeActor
    <3>2. UNCHANGED server /\ pc' = [pc EXCEPT ![h] = "connect"]
      BY <2>2 DEF NewDeviceActor, Goto
    <3>3. sess[a] = "nil"
      BY <3>1 DEF SessionsInv, SessionsHaveOwners
    <3>4. \A s \in Serials : server'[s] = server[s] /\ server[s] # a
      BY <1>2, <3>2, <3>3
    <3>5. \A g \in Handlers : pc'[g] = "discarded" =>
                                pc[g] = "discarded" /\ act'[g] = act[g] /\ act[g] # a
      BY <1>1, <3>1, <3>2 DEF TypeOK, HandlersHold, Building
    <3>6. QED
      BY <1>1, <3>1, <3>4, <3>5, OneSessionMoves DEF TypeOK
  <2>3. CASE Store(h)
    <3>1. /\ act[h] \in Actors /\ UNCHANGED <<aSerial, sess, server>>
          /\ UNCHANGED life \/ life' = [life EXCEPT ![act[h]] = "running"]
      BY <1>1, <2>3 DEF Store, HandlersHold, Building, deviceVars
    <3>2. \A g \in Handlers : pc'[g] = "discarded" =>
                                pc[g] = "discarded" /\ act'[g] = act[g]
      BY <1>1, <2>3 DEF Store, Return, Goto, TypeOK
    <3>3. QED
      BY <1>1, <3>1, <3>2, SessionsLeftAlone DEF TypeOK
  <2>4. CASE DiscardDuplicate(h)
    <3> DEFINE a == act[h]
    <3>1. /\ a \in Actors /\ life[a] = "connecting" /\ pc[h] = "discard"
          /\ CloseSession(a) /\ pc' = [pc EXCEPT ![h] = "discarded"]
          /\ UNCHANGED <<life, aSerial, act>> /\ act[h] = a
      BY <1>1, <2>4 DEF DiscardDuplicate, HandlersHold, Building, Goto, actorVars
    <3> HIDE DEF a
    <3>2. \A s \in Serials : \/ server'[s] = None
                             \/ server'[s] = server[s] /\ server[s] # a
      BY <1>1, <1>3, <3>1 DEF CloseSession, TypeOK
    <3>3. \A g \in Handlers : pc'[g] = "discarded" =>
             \/ act'[g] = a /\ sess'[a] = "nil"
             \/ pc[g] = "discarded" /\ act'[g] = act[g] /\ act[g] # a
      BY <1>1, <3>1 DEF CloseSession, TypeOK, HoldersDiffer, Holding, Building
    <3>4. QED
      BY <1>1, <3>1, <3>2, <3>3, OneSessionMoves DEF CloseSession, TypeOK
  <2>5. CASE \/ ConnectFailed(h) \/ ReleaseDuplicate(h)
             \/ StopActor(h) /\ life[act[h]] = "ended"
    <3> DEFINE a == act[h]
    <3>1. /\ a \in Actors /\ sess[a] = "nil" /\ Holding(h)
          /\ Forget(a) /\ Return(h) /\ UNCHANGED <<sess, server>> /\ act[h] = a
      BY <1>1, <2>5 DEF ConnectFailed, ReleaseDuplicate, StopActor, HandlersHold, Holding,
                        Building, SessionsInv, SessionsHaveOwners, deviceVars
    <3> HIDE DEF a
    <3>2. \A s \in Serials : server'[s] = server[s] /\ server[s] # a
      BY <1>2, <3>1
    <3>3. \A g \in Handlers : pc'[g] = "discarded" =>
             pc[g] = "discarded" /\ act'[g] = act[g] /\ act[g] # a
      BY <1>1, <3>1 DEF Return, TypeOK, HoldersDiffer, Holding, Building
    <3>4. QED
      BY <1>1, <3>1, <3>2, <3>3, OneSessionMoves DEF Forget, TypeOK
  <2>6. CASE StopActor(h) /\ life[act[h]] # "ended"
    <3>1. UNCHANGED <<life, aSerial, sess, server>>
      BY <2>6 DEF StopActor, deviceVars
    <3>2. \A g \in Handlers : pc'[g] = "discarded" =>
                                pc[g] = "discarded" /\ act'[g] = act[g]
      BY <1>1, <2>6 DEF StopActor, Return, TypeOK
    <3>3. QED
      BY <3>1, <3>2, SessionsLeftAlone
  <2>7. QED
    BY <1>4, <2>1, <2>2, <2>3, <2>4, <2>5, <2>6 DEF HandlerStep, GetOrCreateActor, Disconnect
<1>5. ASSUME NEW a \in Actors,
             Connect(a) \/ ConnectFault(a) \/ ActorStep(a) \/ RecoverPanic(a)
      PROVE  SessionsInv'
  <2>1. sess[a] # "nil" \/ life[a] = "running"
    BY <1>5 DEF Connect, StartServer, Handshake, ConnectFault, ActorStep, Reconnect,
                ActorExit, RecoverPanic
  <2>2. /\ \A g \in Handlers : pc[g] = "discarded" => act[g] # a
        /\ life[a] \notin {"free", "ended"} /\ aSerial[a] \in Serials
    BY <1>1, <2>1 DEF SessionsInv, SessionsHaveOwners, HandlersHold, Building,
                      InUseHasSerial
  <2>3. UNCHANGED <<pc, act>>
    BY <1>5 DEF Connect, StartServer, Handshake, ConnectFault, ActorStep, Reconnect,
                ActorExit, RecoverPanic, ConnectFrame, handlerVars
  <2>4. CASE StartServer(a)
    <3>1. /\ sess' = [sess EXCEPT ![a] = "handshake"]
          /\ server' = [server EXCEPT ![aSerial[a]] = a]
          /\ UNCHANGED <<life, aSerial>> /\ sess[a] = "dial"
      BY <2>4 DEF StartServer, ConnectFrame, actorVars
    <3>2. \A s \in Serials : \/ server'[s] = server[s] /\ server[s] # a
                             \/ server'[s] = a /\ aSerial'[a] = s
      BY <1>1, <1>2, <3>1 DEF TypeOK
    <3>3. QED
      BY <1>1, <2>2, <2>3, <3>1, <3>2, OneSessionMoves DEF TypeOK
  <2>5. CASE Handshake(a) /\ server[aSerial[a]] = a
    <3>1. /\ sess' = [sess EXCEPT ![a] = "open"]
          /\ UNCHANGED <<life, aSerial, server>>
      BY <2>5 DEF Handshake, ConnectFrame, actorVars
    <3>2. \A s \in Serials : \/ server'[s] = server[s] /\ server[s] # a
                             \/ server'[s] = a /\ aSerial'[a] = s
      BY <1>3, <3>1
    <3>3. QED
      BY <1>1, <2>2, <2>3, <3>1, <3>2, OneSessionMoves DEF TypeOK
  <2>6. CASE Reconnect(a)
    <3>1. /\ sess' = [sess EXCEPT ![a] = "dial"] /\ UNCHANGED <<life, aSerial>>
      BY <2>6 DEF Reconnect, ConnectFrame, actorVars
    <3>2. \A s \in Serials : \/ server'[s] = None
                             \/ server'[s] = server[s] /\ server[s] # a
      <4>1. CASE sess[a] = "open"
        BY <1>1, <1>3, <2>6, <4>1 DEF Reconnect, TypeOK
      <4>2. CASE sess[a] # "open"
        BY <1>2, <2>6, <4>2 DEF Reconnect
      <4>3. QED
        BY <4>1, <4>2
    <3>3. QED
      BY <1>1, <2>2, <2>3, <3>1, <3>2, OneSessionMoves DEF TypeOK
  <2>7. CASE \/ Handshake(a) /\ server[aSerial[a]] # a
             \/ ConnectFault(a) \/ ActorExit(a) \/ RecoverPanic(a)
    <3>1. /\ sess'[a] = "nil"
          /\ \A b \in Actors : b # a => /\ sess'[b] = sess[b] /\ aSerial'[b] = aSerial[b]
                                        /\ life'[b] = life[b]
      BY <1>1, <2>7 DEF Handshake, ConnectFault, ActorExit, RecoverPanic, CloseSession,
                        Forget, ConnectFrame, actorVars, deviceVars, TypeOK
    <3>2. \A s \in Serials : \/ server'[s] = None
                             \/ server'[s] = server[s] /\ server[s] # a
      <4>1. CASE CloseSession(a)
        BY <1>1, <1>3, <4>1 DEF CloseSession, TypeOK
      <4>2. CASE UNCHANGED server /\ sess[a] \notin {"handshake", "open"}
        BY <1>2, <4>2
      <4>3. QED
        BY <2>7, <4>1, <4>2 DEF Handshake, ConnectFault, ActorExit, RecoverPanic,
                                deviceVars
    <3>3. QED
      BY <1>1, <2>2, <2>3, <3>1, <3>2, OneSessionMoves
  <2>8. QED
    BY <1>5, <2>4, <2>5, <2>6, <2>7 DEF Connect, ActorStep, Handshake
<1>6. ASSUME NEW s \in Serials, ServerDies(s)
      PROVE  SessionsInv'
  BY <1>1, <1>6 DEF ServerDies, SessionsInv, ServersHaveSessions, SessionsHaveOwners,
                    handlerVars, actorVars, TypeOK
<1>7. ASSUME Cancel \/ Cleanup \/ UNCHANGED vars
      PROVE  SessionsInv'
  BY <1>7, SessionsLeftAlone DEF Cancel, Cleanup, vars, handlerVars, actorVars, deviceVars
<1>8. QED
  BY <1>4, <1>5, <1>6, <1>7 DEF Next, Terminated

LEMMA QuietStep ==
  ASSUME RegInv, BuiltByHandler, StoppedIsQuiet, [Next]_vars
  PROVE  StoppedIsQuiet'
<1>1. CASE Cleanup
  BY <1>1 DEF Cleanup, StoppedIsQuiet, handlerVars, actorVars
<1>2. CASE UNCHANGED vars
  BY <1>2 DEF vars, StoppedIsQuiet
<1>3. CASE daemon = "stopped" /\ Next
  <2>1. /\ \A h \in Handlers : pc[h] = "idle"
        /\ \A a \in Actors : life[a] # "running"
    BY <1>3 DEF StoppedIsQuiet
  <2>2. \A h \in Handlers : ~(Accept(h) \/ HandlerStep(h))
    BY <1>3, <2>1 DEF Accept, HandlerStep, GetOrCreateActor, Disconnect, Lookup,
       ConnectMutex, LockSerial, Recheck, NewDeviceActor, AllocatorExhausted,
       ConnectFailed, Store, DiscardDuplicate, ReleaseDuplicate, RemoveDevice, StopActor
  <2>3. UNCHANGED <<pc, life>>
    BY <1>3, <2>1, <2>2 DEF Next, Connect, StartServer, Handshake, ConnectFault,
       ActorStep, Reconnect, ActorExit, RecoverPanic, ConnectFrame, ServerDies, Cancel,
       Cleanup, Terminated, vars, handlerVars, actorVars
  <2>4. QED
    BY <2>1, <2>3 DEF StoppedIsQuiet
<1>4. CASE daemon # "stopped" /\ Next /\ ~Cleanup
  <2>1. daemon' # "stopped"
    BY <1>4 DEF Next, Accept, HandlerStep, GetOrCreateActor, Disconnect, Lookup,
       ConnectMutex, LockSerial, Recheck, NewDeviceActor, AllocatorExhausted,
       ConnectFailed, Store, DiscardDuplicate, ReleaseDuplicate, RemoveDevice, StopActor,
       Connect, StartServer, Handshake, ConnectFault, ActorStep, Reconnect, ActorExit,
       RecoverPanic, ConnectFrame, ServerDies, Cancel, Terminated, vars
  <2>2. QED
    BY <2>1 DEF StoppedIsQuiet
<1>5. QED
  BY <1>1, <1>2, <1>3, <1>4

(***************************************************************************)
(* When Start has returned, no device runs a server of ours, whichever     *)
(* connects, reconnects, discards and disconnects the cancel met: a server *)
(* belongs to an actor with a session, such an actor is running or in the  *)
(* hands of a handler, and cleanup waits for both (daemon.go:459-469).     *)
(***************************************************************************)
THEOREM StopLeavesNoServer == Spec => []StoppedLeavesNoServer
<1>1. Init => ServerInv
  BY DEF Init, ServerInv, BuiltByHandler, SessionsInv, ServersHaveSessions,
         SessionsHaveOwners, StoppedIsQuiet
<1>2. RegInv /\ ServerInv /\ [Next]_vars => ServerInv'
  BY BuiltStep, SessionsStep, QuietStep DEF ServerInv
<1>3. QED
  BY <1>1, <1>2, RegInvInit, RegInvStep, ServerInvSuffices, PTL DEF Spec
-----------------------------------------------------------------------------
(* The registry is a client of the allocator that keeps its rule. *)

\* The scid that a handler releases is in use: its actor is leased.
LEMMA ReleasedIsInUse ==
  ASSUME RegInv, NEW h \in Handlers, Holding(h)
  PROVE  aScid[act[h]] \in usedScid
<1>1. act[h] \in Leased
  BY DEF RegInv, OwnerInv, HandlersHold, Holding, Leased, Removing
<1>2. QED
  BY <1>1 DEF RegInv, OwnerInv, ScidOwnership

(***************************************************************************)
(* Every step of the registry is, for the allocator, an Alloc, the Release *)
(* of a scid in use, or nothing.  AllocNext may release only such a scid   *)
(* because this holds of its one client: Release itself does not ask       *)
(* (scid.go:85-91; actor.go:78-106, daemon.go:219-264).                    *)
(***************************************************************************)
LEMMA RegistryStepsAllocate ==
  ASSUME RegInv, [Next]_vars
  PROVE  [AllocNext]_allocVars
<1>1. ASSUME NEW h \in Handlers, Accept(h) \/ HandlerStep(h)
      PROVE  [AllocNext]_allocVars
  <2>1. CASE \/ Accept(h) \/ Lookup(h) \/ ConnectMutex(h) \/ LockSerial(h)
             \/ Recheck(h) \/ AllocatorExhausted(h) \/ Store(h)
             \/ DiscardDuplicate(h) \/ RemoveDevice(h)
    BY <2>1 DEF Accept, Lookup, ConnectMutex, LockSerial, Recheck, AllocatorExhausted,
                Store, DiscardDuplicate, RemoveDevice, allocVars
  <2>2. CASE NewDeviceActor(h)
    BY <2>2 DEF NewDeviceActor, AllocNext
  <2>3. CASE ConnectFailed(h) \/ ReleaseDuplicate(h) \/ StopActor(h)
    <3>1. Holding(h) /\ Release(aScid[act[h]])
      BY <2>3 DEF ConnectFailed, ReleaseDuplicate, StopActor, Holding, Building
    <3>2. QED
      BY <3>1, ReleasedIsInUse DEF AllocNext
  <2>4. QED
    BY <1>1, <2>1, <2>2, <2>3 DEF HandlerStep, GetOrCreateActor, Disconnect
<1>2. ASSUME \/ \E a \in Actors : \/ Connect(a) \/ ConnectFault(a) \/ ActorStep(a)
                                  \/ RecoverPanic(a)
             \/ \E s \in Serials : ServerDies(s)
             \/ Cancel \/ Cleanup \/ UNCHANGED vars
      PROVE  UNCHANGED allocVars
  BY <1>2 DEF Connect, StartServer, Handshake, ConnectFault, ActorStep, Reconnect,
              ActorExit, RecoverPanic, ConnectFrame, ServerDies, Cancel, Cleanup, vars,
              allocVars
<1>3. QED
  BY <1>1, <1>2 DEF Next, Terminated

(***************************************************************************)
(* The registry implements the allocator's specification: the scids and    *)
(* ports of the daemon behave as AllocSpec says, whatever the handlers and *)
(* actors do, so that what holds of every behaviour of AllocSpec holds in  *)
(* the daemon.                                                             *)
(***************************************************************************)
THEOREM RegistryImplementsAllocator == Spec => AllocSpec
<1>1. Init => AllocInit
  BY DEF Init
<1>2. QED
  BY <1>1, RegInvInit, RegInvStep, RegistryStepsAllocate, PTL DEF Spec, AllocSpec

(***************************************************************************)
(* In the daemon, "no free port" means that every port belongs to a device *)
(* that is connected, connecting or being disconnected, whatever has come  *)
(* and gone before (scid.go:80, daemon.go:183-264).                        *)
(***************************************************************************)
THEOREM RegistryLosesNoPort ==
  ASSUME HashMulInvertible, HashMod < Window
  PROVE  Spec => []NoPortLost
BY RegistryImplementsAllocator, AllocLosesNoPort, PTL
-----------------------------------------------------------------------------
(* Locks are held by those who will unlock them. *)

LEMMA LocksStep ==
  ASSUME TypeOK, LocksAreHeld, [Next]_vars
  PROVE  LocksAreHeld'
<1>1. ASSUME UNCHANGED holder,
             \A h \in Handlers : /\ pc'[h] \in Locked <=> pc[h] \in Locked
                                 /\ pc[h] \in Locked => mu'[h] = mu[h]
      PROVE  LocksAreHeld'
  BY <1>1 DEF LocksAreHeld
<1>2. ASSUME NEW h \in Handlers, Accept(h) \/ HandlerStep(h)
      PROVE  LocksAreHeld'
  <2>1. CASE Accept(h) \/ Lookup(h) \/ ConnectMutex(h) \/ RemoveDevice(h) \/ StopActor(h)
    <3>1. /\ pc[h] \notin Locked /\ UNCHANGED holder
          /\ \E label \in HandlerLabels \ Locked : pc' = [pc EXCEPT ![h] = label]
          /\ \A g \in Handlers : g # h => mu'[g] = mu[g]
      BY <2>1, RegistryAssumption
         DEF Accept, Lookup, ConnectMutex, RemoveDevice, StopActor, Return, Goto,
             Locked, HandlerLabels, AllOps, mutexVars, TypeOK
    <3>2. QED
      BY <1>1, <3>1 DEF TypeOK
  <2>2. CASE LockSerial(h)
    <3>1. /\ pc[h] \notin Locked /\ holder[mu[h]] = None
          /\ holder' = [holder EXCEPT ![mu[h]] = h]
          /\ pc' = [pc EXCEPT ![h] = "recheck"] /\ UNCHANGED mu
      BY <2>2 DEF LockSerial, Goto, Locked
    <3>2. QED
      BY <3>1, RegistryAssumption DEF LocksAreHeld, Locked, TypeOK
  <2>3. CASE /\ pc[h] \in Locked /\ UNCHANGED <<mu, holder>>
             /\ \E label \in Locked : Goto(h, label)
    BY <1>1, <2>3 DEF Goto, TypeOK
  <2>4. CASE pc[h] \in Locked /\ Return(h) /\ Unlock(h)
    <3>1. /\ holder' = [holder EXCEPT ![mu[h]] = None]
          /\ pc' = [pc EXCEPT ![h] = "idle"] /\ mu' = [mu EXCEPT ![h] = None]
      BY <2>4 DEF Return, Unlock
    <3>2. \A m \in Mutexes : holder[m] = h <=> mu[h] = m
      BY <2>4 DEF LocksAreHeld
    <3>3. QED
      BY <3>1, <3>2, RegistryAssumption DEF LocksAreHeld, Locked, TypeOK
  <2>5. CASE \/ Recheck(h) \/ NewDeviceActor(h) \/ AllocatorExhausted(h)
             \/ ConnectFailed(h) \/ Store(h) \/ DiscardDuplicate(h)
             \/ ReleaseDuplicate(h)
    <3>1. /\ pc[h] \in Locked
          /\ \/ UNCHANGED <<mu, holder>> /\ \E label \in Locked : Goto(h, label)
             \/ Return(h) /\ Unlock(h)
      BY <2>5 DEF Recheck, NewDeviceActor, AllocatorExhausted, ConnectFailed, Store,
                  DiscardDuplicate, ReleaseDuplicate, Locked, mutexVars
    <3>2. QED
      BY <2>3, <2>4, <3>1
  <2>6. QED
    BY <1>2, <2>1, <2>2, <2>5 DEF HandlerStep, GetOrCreateActor, Disconnect
<1>3. ASSUME \/ \E a \in Actors : \/ Connect(a) \/ ConnectFault(a) \/ ActorStep(a)
                                  \/ RecoverPanic(a)
             \/ \E s \in Serials : ServerDies(s)
             \/ Cancel \/ Cleanup \/ UNCHANGED vars
      PROVE  UNCHANGED <<pc, mu, holder>>
  BY <1>3 DEF Connect, StartServer, Handshake, ConnectFault, ActorStep, Reconnect,
              ActorExit, RecoverPanic, ConnectFrame, ServerDies, Cancel, Cleanup, vars,
              handlerVars, mutexVars
<1>4. QED
  BY <1>1, <1>2, <1>3 DEF Next, Terminated

(***************************************************************************)
(* Whoever disconnects, a mutex is locked exactly while its one holder is  *)
(* inside getOrCreateActor's critical section: no request waits for a lock *)
(* that nobody will drop (daemon.go:196-198, 256-257).  This is the safety *)
(* half of EveryRequestReturns.                                            *)
(***************************************************************************)
THEOREM LocksHaveHolders == Spec => []LocksAreHeld
<1>1. Init => LocksAreHeld
  BY RegistryAssumption DEF Init, LocksAreHeld, Locked
<1>2. RegInv => TypeOK
  BY DEF RegInv
<1>3. QED
  BY <1>1, <1>2, RegInvInit, RegInvStep, LocksStep, PTL DEF Spec
-----------------------------------------------------------------------------
(* What the mutex of a serial is worth when nobody disconnects. *)

MutexInv ==
  \A h \in Handlers :
    /\ pc[h] \notin {"disconnect", "stop"}
    /\ pc[h] \in Locked \union {"lock"} => /\ mu[h] \in Mutexes
                                         /\ connectMu[serial[h]] = mu[h]
    /\ pc[h] \in Locked => holder[mu[h]] = h

LEMMA MutexInvSuffices == MutexInv => OneConnectPerSerial
BY DEF MutexInv, OneConnectPerSerial, Locked

\* Steps in which no handler moves and no mutex changes.
LEMMA MutexesLeftAlone ==
  ASSUME MutexInv, UNCHANGED <<pc, serial, mu, connectMu, holder>>
  PROVE  MutexInv'
BY DEF MutexInv, Locked

\* A handler moves on with the mutex it holds.
LEMMA MutexKept ==
  ASSUME MutexInv, TypeOK, NEW h \in Handlers, pc[h] \in Locked,
         NEW label \in Locked, Goto(h, label),
         UNCHANGED <<serial, mu, connectMu, holder>>
  PROVE  MutexInv'
BY DEF MutexInv, TypeOK, Locked, Goto

\* A handler returns, and unlocks the mutex if it holds it.
LEMMA MutexDropped ==
  ASSUME MutexInv, TypeOK, NEW h \in Handlers, Return(h), UNCHANGED connectMu,
         \/ pc[h] \notin Locked /\ UNCHANGED holder
         \/ pc[h] \in Locked /\ Unlock(h)
  PROVE  MutexInv'
<1>. SUFFICES ASSUME NEW g \in Handlers
              PROVE  /\ pc'[g] \notin {"disconnect", "stop"}
                     /\ pc'[g] \in Locked \union {"lock"} =>
                          /\ mu'[g] \in Mutexes
                          /\ connectMu'[serial'[g]] = mu'[g]
                     /\ pc'[g] \in Locked => holder'[mu'[g]] = g
  BY DEF MutexInv, Locked
<1>1. CASE g = h
  BY <1>1 DEF Return, TypeOK, Locked
<1>2. CASE g # h
  <2>1. pc'[g] = pc[g] /\ mu'[g] = mu[g] /\ serial'[g] = serial[g]
    BY <1>2 DEF Return, TypeOK
  <2>2. pc[g] \in Locked => holder'[mu[g]] = g
    <3>1. CASE UNCHANGED holder
      BY <3>1 DEF MutexInv
    <3>2. CASE pc[h] \in Locked /\ Unlock(h)
      <4>1. pc[g] \in Locked => mu[g] # mu[h] /\ mu[g] \in Mutexes
        BY <1>2, <3>2 DEF MutexInv
      <4>2. QED
        BY <3>2, <4>1 DEF MutexInv, Unlock, TypeOK
    <3>3. QED
      BY <3>1, <3>2
  <2>3. QED
    BY <2>1, <2>2 DEF MutexInv
<1>3. QED
  BY <1>1, <1>2

LEMMA MutexStep ==
  ASSUME "disconnect" \notin Ops, TypeOK, HandlersHold, MutexInv, [Next]_vars
  PROVE  MutexInv'
<1>1. ASSUME NEW h \in Handlers, Accept(h) \/ HandlerStep(h)
      PROVE  MutexInv'
  <2>0. pc[h] # "idle" => serial[h] \in Serials
    BY DEF HandlersHold
  <2>1. CASE Accept(h)
    BY <2>1, RegistryAssumption
       DEF Accept, MutexInv, Locked, TypeOK, Goto, mutexVars, AllOps
  <2>2. CASE Lookup(h)
    <3>1. CASE Return(h)
      BY <2>2, <3>1, MutexDropped DEF Lookup, Locked, mutexVars
    <3>2. CASE Goto(h, "mutex") /\ UNCHANGED <<serial, mu>>
      BY <2>2, <3>2 DEF Lookup, MutexInv, Locked, TypeOK, Goto, mutexVars
    <3>3. QED
      BY <2>2, <3>1, <3>2 DEF Lookup
  <2>3. CASE ConnectMutex(h)
    <3>1. /\ pc[h] = "mutex" /\ pc' = [pc EXCEPT ![h] = "lock"]
          /\ serial[h] \in Serials /\ UNCHANGED <<serial, holder>>
      BY <2>0, <2>3 DEF ConnectMutex, Goto
    <3>2. PICK m \in Mutexes : /\ mu' = [mu EXCEPT ![h] = m]
                               /\ connectMu'[serial[h]] = m
                               /\ \A g \in Handlers : pc[g] \in Locked \union {"lock"}
                                    => connectMu'[serial[g]] = connectMu[serial[g]]
      <4>1. CASE connectMu[serial[h]] # None
        BY <2>3, <3>1, <4>1 DEF ConnectMutex, TypeOK
      <4>2. CASE connectMu[serial[h]] = None
        <5>1. PICK m \in Mutexes : /\ mu' = [mu EXCEPT ![h] = m]
                                   /\ connectMu' = [connectMu EXCEPT ![serial[h]] = m]
          BY <2>3, <4>2 DEF ConnectMutex
        <5>2. \A g \in Handlers : pc[g] \in Locked \union {"lock"} => serial[g] # serial[h]
          BY <4>2, RegistryAssumption DEF MutexInv
        <5>3. QED
          BY <3>1, <5>1, <5>2 DEF TypeOK, HandlersHold, Locked
      <4>3. QED
        BY <4>1, <4>2
    <3>3. QED
      BY <3>1, <3>2 DEF MutexInv, Locked, TypeOK
  <2>4. CASE LockSerial(h)
    BY <2>4, RegistryAssumption DEF LockSerial, MutexInv, Locked, TypeOK, Goto
  <2>5. CASE Recheck(h)
    <3>1. CASE Return(h) /\ Unlock(h)
      BY <2>5, <3>1, MutexDropped DEF Recheck, Locked
    <3>2. CASE Goto(h, "alloc") /\ UNCHANGED <<serial, mu, holder>>
      BY <2>5, <3>2, MutexKept DEF Recheck, Locked
    <3>3. QED
      BY <2>5, <3>1, <3>2 DEF Recheck
  <2>6. CASE NewDeviceActor(h)
    BY <2>6, MutexKept DEF NewDeviceActor, Locked, mutexVars
  <2>7. CASE AllocatorExhausted(h) \/ ConnectFailed(h) \/ ReleaseDuplicate(h)
    BY <2>7, MutexDropped DEF AllocatorExhausted, ConnectFailed, ReleaseDuplicate, Locked
  <2>8. CASE Store(h)
    <3>1. CASE Return(h) /\ Unlock(h)
      BY <2>8, <3>1, MutexDropped DEF Store, Locked
    <3>2. CASE Goto(h, "discard") /\ UNCHANGED <<serial, mu, holder>>
      BY <2>8, <3>2, MutexKept DEF Store, Locked
    <3>3. QED
      BY <2>8, <3>1, <3>2 DEF Store
  <2>9. CASE DiscardDuplicate(h)
    BY <2>9, MutexKept DEF DiscardDuplicate, Locked, mutexVars
  <2>10. ~RemoveDevice(h) /\ ~StopActor(h)
    BY DEF MutexInv, RemoveDevice, StopActor
  <2>11. QED
    BY <1>1, <2>1, <2>2, <2>3, <2>4, <2>5, <2>6, <2>7, <2>8, <2>9, <2>10
       DEF HandlerStep, GetOrCreateActor, Disconnect
<1>2. ASSUME \/ \E a \in Actors : \/ Connect(a) \/ ConnectFault(a) \/ Reconnect(a)
                                  \/ RecoverPanic(a) \/ ActorExit(a)
             \/ \E s \in Serials : ServerDies(s)
             \/ Cancel \/ Cleanup \/ UNCHANGED vars
      PROVE  UNCHANGED <<pc, serial, mu, connectMu, holder>>
  BY <1>2 DEF Connect, StartServer, Handshake, ConnectFault, Reconnect, RecoverPanic,
              ActorExit, ConnectFrame, ServerDies, Cancel, Cleanup, vars, handlerVars,
              mutexVars
<1>3. QED
  BY <1>1, <1>2, MutexesLeftAlone DEF Next, ActorStep, Terminated

(***************************************************************************)
(* As long as nobody disconnects, the per-serial mutex guarantees that     *)
(* only one newDeviceActor runs for a serial at a time (daemon.go:172-     *)
(* 173), whatever fails and however many devices there are.                *)
(***************************************************************************)
THEOREM MutexKeepsConnectsApart ==
  ASSUME "disconnect" \notin Ops
  PROVE  Spec => []OneConnectPerSerial
<1>1. Init => MutexInv
  BY DEF Init, MutexInv, Locked
<1>2. RegInv /\ MutexInv /\ [Next]_vars => MutexInv'
  BY MutexStep DEF RegInv, OwnerInv
<1>3. QED
  BY <1>1, <1>2, RegInvInit, RegInvStep, MutexInvSuffices, PTL DEF Spec
-----------------------------------------------------------------------------
(* What the connects' being apart is for. *)

\* No fault so far, and the daemon has not been cancelled.
Calm == daemon = "running" /\ faults = 0

\* The actor a handler builds is for the serial it was asked for.
BuildsForItsSerial ==
  \A h \in Handlers : pc[h] \in Building => aSerial[act[h]] = serial[h]

\* Every actor is on its way to, or has, a session whose server is its own.
CalmActors ==
  \A a \in Actors :
    /\ ~cancelled[a] /\ life[a] # "ended"
    /\ life[a] = "running" => /\ devices[aSerial[a]] = a
                              /\ sess[a] = "open" /\ server[aSerial[a]] = a
    /\ life[a] = "connecting" => /\ sess[a] # "nil"
                                 /\ sess[a] # "dial" => server[aSerial[a]] = a

\* Whoever is about to connect is the first, and remains it.
CalmHandlers ==
  \A h \in Handlers :
    /\ pc[h] \notin {"discard", "discarded"}
    /\ pc[h] \in {"alloc", "connect"} => devices[serial[h]] = None

CalmInv == BuildsForItsSerial /\ (Calm => CalmActors /\ CalmHandlers)

LEMMA CalmInvSuffices == RegInv /\ CalmInv => RegisteredStaysConnected
<1> SUFFICES ASSUME RegInv, CalmInv, Calm, NEW s \in Serials, devices[s] # None
             PROVE  server[s] = devices[s]
  BY DEF RegisteredStaysConnected, Calm
<1>1. devices[s] \in Actors /\ life[devices[s]] \in Live /\ aSerial[devices[s]] = s
  BY DEF RegInv, TypeOK, OwnerInv, MapIsSound
<1>2. QED
  BY <1>1 DEF CalmInv, CalmActors, Live

LEMMA BuildsStep ==
  ASSUME RegInv, BuildsForItsSerial, [Next]_vars
  PROVE  BuildsForItsSerial'
<1>1. LocalTypes /\ HandlersHold /\ HoldersDiffer
  BY DEF RegInv, LocalTypes, TypeOK, OwnerInv
<1>2. ASSUME \A h \in Handlers : pc'[h] \in Building =>
               /\ pc[h] \in Building /\ act'[h] = act[h] /\ serial'[h] = serial[h]
               /\ aSerial'[act[h]] = aSerial[act[h]]
      PROVE  BuildsForItsSerial'
  BY <1>2 DEF BuildsForItsSerial
<1>3. ASSUME NEW h \in Handlers, Accept(h) \/ HandlerStep(h)
      PROVE  BuildsForItsSerial'
  <2>1. CASE \/ Accept(h) \/ Lookup(h) \/ ConnectMutex(h) \/ LockSerial(h)
             \/ Recheck(h) \/ AllocatorExhausted(h) \/ Store(h)
             \/ DiscardDuplicate(h) \/ RemoveDevice(h)
    <3>1. UNCHANGED aSerial
      BY <2>1 DEF Accept, Lookup, ConnectMutex, LockSerial, Recheck, AllocatorExhausted,
                  Store, DiscardDuplicate, RemoveDevice, actorVars
    <3>2. \A g \in Handlers : pc'[g] \in Building =>
            pc[g] \in Building /\ act'[g] = act[g] /\ serial'[g] = serial[g]
      BY <1>1, <2>1, RegistryAssumption
         DEF Accept, Lookup, ConnectMutex, LockSerial, Recheck, AllocatorExhausted,
             Store, DiscardDuplicate, RemoveDevice, Return, Goto, AllOps, LocalTypes,
             Building
    <3>3. QED
      BY <1>2, <3>1, <3>2
  <2>2. CASE NewDeviceActor(h)
    <3>1. PICK a \in Actors : /\ life[a] = "free"
                              /\ act' = [act EXCEPT ![h] = a]
                              /\ aSerial' = [aSerial EXCEPT ![a] = serial[h]]
      BY <2>2 DEF NewDeviceActor, FreeActor
    <3>2. pc' = [pc EXCEPT ![h] = "connect"] /\ UNCHANGED serial
      BY <2>2 DEF NewDeviceActor, Goto
    <3>3. QED
      BY <1>1, <3>1, <3>2 DEF BuildsForItsSerial, LocalTypes, HandlersHold, Building
  <2>3. CASE ConnectFailed(h) \/ ReleaseDuplicate(h) \/ StopActor(h)
    <3>1. /\ Holding(h) /\ Return(h) /\ act[h] \in Actors
          /\ UNCHANGED aSerial \/ aSerial' = [aSerial EXCEPT ![act[h]] = None]
      BY <1>1, <2>3 DEF ConnectFailed, ReleaseDuplicate, StopActor, Holding, Building,
                        HandlersHold, Forget
    <3>2. \A g \in Handlers : pc'[g] \in Building =>
            /\ g # h /\ pc[g] = pc'[g] /\ act'[g] = act[g] /\ serial'[g] = serial[g]
      BY <1>1, <3>1 DEF Return, LocalTypes, Building
    <3>3. \A g \in Handlers : pc'[g] \in Building => act[g] \in Actors /\ act[g] # act[h]
      BY <1>1, <3>1, <3>2 DEF HoldersDiffer, HandlersHold, Holding
    <3>4. QED
      BY <1>1, <1>2, <3>1, <3>2, <3>3 DEF LocalTypes
  <2>4. QED
    BY <1>3, <2>1, <2>2, <2>3 DEF HandlerStep, GetOrCreateActor, Disconnect
<1>4. ASSUME NEW a \in Actors, ActorExit(a)
      PROVE  BuildsForItsSerial'
  BY <1>1, <1>2, <1>4 DEF ActorExit, Forget, handlerVars, LocalTypes, HandlersHold, Building
<1>5. ASSUME \/ \E a \in Actors : \/ Connect(a) \/ ConnectFault(a) \/ Reconnect(a)
                                  \/ RecoverPanic(a)
             \/ \E s \in Serials : ServerDies(s)
             \/ Cancel \/ Cleanup \/ UNCHANGED vars
      PROVE  UNCHANGED <<pc, serial, act, aSerial>>
  BY <1>5 DEF Connect, StartServer, Handshake, ConnectFault, Reconnect, RecoverPanic,
              ConnectFrame, ServerDies, Cancel, Cleanup, vars, handlerVars, actorVars
<1>6. QED
  BY <1>2, <1>3, <1>4, <1>5 DEF Next, ActorStep, Terminated

\* Faults are not forgotten and a cancelled daemon does not run again.
LEMMA CalmBefore ==
  ASSUME TypeOK, [Next]_vars, Calm'
  PROVE  /\ Calm
         /\ ~Cancel /\ ~Cleanup
         /\ \A a \in Actors : ~ConnectFault(a) /\ ~RecoverPanic(a)
         /\ \A s \in Serials : ~ServerDies(s)
<1>1. ~Fault /\ ~Cancel /\ ~Cleanup
  BY DEF Calm, Fault, TypeOK, Cancel, Cleanup
<1>2. ~Terminated \/ UNCHANGED vars
  BY DEF Terminated
<1>3. UNCHANGED <<daemon, faults>>
  BY <1>1, <1>2 DEF Next, vars, Accept, HandlerStep, GetOrCreateActor, Disconnect, Lookup,
     ConnectMutex, LockSerial, Recheck, NewDeviceActor, AllocatorExhausted, ConnectFailed,
     Store, DiscardDuplicate, ReleaseDuplicate, RemoveDevice, StopActor, Connect,
     StartServer, Handshake, ConnectFault, ActorStep, Reconnect, ActorExit, RecoverPanic,
     ConnectFrame, ServerDies
<1>4. QED
  BY <1>1, <1>3 DEF Calm, ConnectFault, RecoverPanic, ServerDies

(***************************************************************************)
(* While an actor connects, no other actor has or wants the device: one    *)
(* that was registered would have been found, and one that connects too    *)
(* would hold the same mutex.                                              *)
(***************************************************************************)
LEMMA ConnectsAlone ==
  ASSUME RegInv, BuiltByHandler, OneConnectPerSerial, BuildsForItsSerial,
         CalmActors, CalmHandlers,
         NEW a \in Actors, life[a] = "connecting",
         NEW b \in Actors, b # a, life[b] \in {"connecting", "running"}
  PROVE  aSerial[b] # aSerial[a]
<1>1. PICK h \in Handlers : pc[h] = "connect" /\ act[h] = a
  BY DEF BuiltByHandler, CalmHandlers, Building
<1>2. devices[aSerial[a]] = None
  BY <1>1 DEF CalmHandlers, BuildsForItsSerial, Building
<1>3. CASE life[b] = "running"
  BY <1>2, <1>3, RegistryAssumption DEF CalmActors
<1>4. CASE life[b] = "connecting"
  <2>1. PICK g \in Handlers : pc[g] = "connect" /\ act[g] = b
    BY <1>4 DEF BuiltByHandler, CalmHandlers, Building
  <2>2. QED
    BY <1>1, <2>1 DEF OneConnectPerSerial, BuildsForItsSerial, Building
<1>5. QED
  BY <1>3, <1>4

LEMMA CalmStep ==
  ASSUME RegInv, ServerInv, MutexInv, CalmInv, [Next]_vars, Calm'
  PROVE  CalmActors' /\ CalmHandlers'
<1>1. /\ TypeOK /\ HandlersHold /\ InUseHasSerial /\ BuiltByHandler /\ SessionsHaveOwners
      /\ BuildsForItsSerial /\ OneConnectPerSerial
  BY MutexInvSuffices DEF RegInv, OwnerInv, ServerInv, SessionsInv, CalmInv
<1>2. CalmActors /\ CalmHandlers
  BY <1>1, CalmBefore DEF CalmInv
<1>3. ASSUME UNCHANGED <<devices, life, cancelled, aSerial, sess, server>>
      PROVE  CalmActors'
  BY <1>2, <1>3 DEF CalmActors
<1>4. ASSUME NEW h \in Handlers, Accept(h) \/ HandlerStep(h)
      PROVE  CalmActors' /\ CalmHandlers'
  <2>1. CASE \/ Accept(h) \/ Lookup(h) \/ ConnectMutex(h) \/ LockSerial(h)
             \/ Recheck(h) \/ AllocatorExhausted(h)
    <3>1. UNCHANGED <<devices, life, cancelled, aSerial, sess, server>>
      BY <2>1 DEF Accept, Lookup, ConnectMutex, LockSerial, Recheck, AllocatorExhausted,
                  actorVars, deviceVars
    <3>2. \A g \in Handlers : g # h => pc'[g] = pc[g] /\ serial'[g] = serial[g]
      BY <1>1, <2>1 DEF Accept, Lookup, ConnectMutex, LockSerial, Recheck,
                        AllocatorExhausted, Return, Goto, TypeOK
    <3>3. \/ pc'[h] \in {"idle", "bind", "disconnect", "mutex", "lock", "recheck"}
          \/ pc'[h] = "alloc" /\ serial'[h] = serial[h] /\ devices[serial[h]] = None
      BY <1>1, <2>1, RegistryAssumption
         DEF Accept, Lookup, ConnectMutex, LockSerial, Recheck, AllocatorExhausted,
             Return, Goto, TypeOK, AllOps
    <3>4. CalmHandlers'
      BY <1>2, <3>1, <3>2, <3>3 DEF CalmHandlers
    <3>5. QED
      BY <1>3, <3>1, <3>4
  <2>2. CASE NewDeviceActor(h)
    <3>1. PICK a \in Actors : /\ life[a] = "free"
                              /\ life' = [life EXCEPT ![a] = "connecting"]
                              /\ aSerial' = [aSerial EXCEPT ![a] = serial[h]]
                              /\ sess' = [sess EXCEPT ![a] = "dial"]
      BY <2>2 DEF NewDeviceActor, FreeActor
    <3>2. /\ pc[h] = "alloc" /\ pc' = [pc EXCEPT ![h] = "connect"]
          /\ UNCHANGED <<devices, serial, cancelled, server>>
      BY <2>2 DEF NewDeviceActor, Goto
    <3>3. CalmActors'
      BY <1>1, <1>2, <3>1, <3>2 DEF CalmActors, TypeOK
    <3>4. CalmHandlers'
      BY <1>1, <1>2, <3>2 DEF CalmHandlers, TypeOK
    <3>5. QED
      BY <3>3, <3>4
  <2>3. ~ConnectFailed(h)
    BY <1>1, <1>2 DEF ConnectFailed, HandlersHold, Building, CalmActors
  <2>4. CASE Store(h)
    <3> DEFINE a == act[h]
    <3>1. /\ a \in Actors /\ life[a] = "connecting" /\ sess[a] = "open" /\ pc[h] = "connect"
          /\ aSerial[a] = serial[h] /\ serial[h] \in Serials /\ devices[aSerial[a]] = None
      BY <1>1, <1>2, <2>4 DEF Store, HandlersHold, Building, BuildsForItsSerial,
                              CalmHandlers
    <3>2. /\ devices' = [devices EXCEPT ![serial[h]] = a]
          /\ life' = [life EXCEPT ![a] = "running"]
          /\ UNCHANGED <<cancelled, aSerial, sess, server>> /\ Return(h)
      BY <2>4, <3>1 DEF Store, deviceVars
    <3> HIDE DEF a
    <3>3. CalmActors'
      <4>1. ASSUME NEW b \in Actors, b # a, life[b] = "running"
            PROVE  devices'[aSerial[b]] = b
        <5>1. devices[aSerial[b]] = b /\ aSerial[b] \in Serials
          BY <1>1, <1>2, <4>1 DEF CalmActors, InUseHasSerial
        <5>2. aSerial[b] # serial[h]
          BY <3>1, <5>1, RegistryAssumption
        <5>3. QED
          BY <1>1, <3>2, <5>1, <5>2 DEF TypeOK
      <4>2. devices'[aSerial[a]] = a /\ server[aSerial[a]] = a
        BY <1>1, <1>2, <3>1, <3>2 DEF CalmActors, TypeOK
      <4>3. QED
        BY <1>1, <1>2, <3>1, <3>2, <4>1, <4>2 DEF CalmActors, TypeOK
    <3>4. CalmHandlers'
      <4>1. ASSUME NEW g \in Handlers, g # h, pc[g] \in {"alloc", "connect"}
            PROVE  serial[g] # serial[h]
        BY <3>1, <4>1 DEF MutexInv, Locked
      <4>2. QED
        BY <1>1, <1>2, <3>1, <3>2, <4>1 DEF CalmHandlers, Return, TypeOK, HandlersHold
    <3>5. QED
      BY <3>3, <3>4
  <2>5. ~DiscardDuplicate(h) /\ ~ReleaseDuplicate(h) /\ ~RemoveDevice(h) /\ ~StopActor(h)
    BY <1>2 DEF CalmHandlers, MutexInv, DiscardDuplicate, ReleaseDuplicate, RemoveDevice,
                StopActor
  <2>6. QED
    BY <1>4, <2>1, <2>2, <2>3, <2>4, <2>5 DEF HandlerStep, GetOrCreateActor, Disconnect
<1>5. ASSUME NEW a \in Actors, Connect(a)
      PROVE  CalmActors' /\ CalmHandlers'
  <2>1. sess[a] \in {"dial", "handshake"}
    BY <1>5 DEF Connect, StartServer, Handshake
  <2>2. life[a] = "connecting" /\ aSerial[a] \in Serials
    BY <1>1, <1>2, <2>1 DEF SessionsHaveOwners, CalmActors, TypeOK, InUseHasSerial
  <2>3. UNCHANGED <<devices, pc, serial, life, cancelled, aSerial>>
    BY <1>5 DEF Connect, StartServer, Handshake, ConnectFrame, handlerVars, actorVars
  <2>4. /\ sess' = [sess EXCEPT ![a] = "handshake"] \/ sess' = [sess EXCEPT ![a] = "open"]
        /\ server'[aSerial[a]] = a
        /\ \A s \in Serials : s # aSerial[a] => server'[s] = server[s]
    <3>1. CASE StartServer(a)
      BY <1>1, <2>2, <3>1 DEF StartServer, TypeOK
    <3>2. CASE Handshake(a)
      BY <1>2, <2>2, <3>2 DEF Handshake, CalmActors
    <3>3. QED
      BY <1>5, <3>1, <3>2 DEF Connect
  <2>5. \A b \in Actors : b # a /\ life[b] \in {"connecting", "running"} =>
          /\ sess'[b] = sess[b] /\ server'[aSerial[b]] = server[aSerial[b]]
    BY <1>1, <1>2, <2>2, <2>4, ConnectsAlone DEF TypeOK, InUseHasSerial
  <2>6. CalmActors'
    BY <1>1, <1>2, <2>2, <2>3, <2>4, <2>5 DEF CalmActors, TypeOK
  <2>7. CalmHandlers'
    BY <1>2, <2>3 DEF CalmHandlers
  <2>8. QED
    BY <2>6, <2>7
<1>6. \A a \in Actors : ~Reconnect(a) /\ ~ActorExit(a)
  BY <1>1, <1>2, CalmBefore DEF Reconnect, ActorExit, Alive, CalmActors, Calm
<1>7. CASE UNCHANGED vars
  BY <1>2, <1>3, <1>7 DEF vars, CalmHandlers
<1>8. QED
  BY <1>1, <1>4, <1>5, <1>6, <1>7, CalmBefore DEF Next, ActorStep, Terminated

(***************************************************************************)
(* As long as nobody disconnects and no device fails, every registered     *)
(* device runs the server of its registered actor: no request's connect    *)
(* ever kills the server of another (daemon.go:34-39).                     *)
(***************************************************************************)
THEOREM RegisteredKeepsItsServer ==
  ASSUME "disconnect" \notin Ops
  PROVE  Spec => []RegisteredStaysConnected
<1>1. Init => ServerInv /\ MutexInv /\ CalmInv
  BY DEF Init, ServerInv, BuiltByHandler, SessionsInv, ServersHaveSessions,
         SessionsHaveOwners, StoppedIsQuiet, MutexInv, Locked, CalmInv,
         BuildsForItsSerial, CalmActors, CalmHandlers, Building
<1>2. RegInv /\ ServerInv /\ MutexInv /\ CalmInv /\ [Next]_vars
        => ServerInv' /\ MutexInv' /\ CalmInv'
  <2> SUFFICES ASSUME RegInv, ServerInv, MutexInv, CalmInv, [Next]_vars
               PROVE  ServerInv' /\ MutexInv' /\ CalmInv'
    OBVIOUS
  <2>1. ServerInv' /\ MutexInv'
    BY BuiltStep, SessionsStep, QuietStep, MutexStep DEF ServerInv, RegInv, OwnerInv
  <2>2. BuildsForItsSerial'
    BY BuildsStep DEF CalmInv
  <2>3. QED
    BY <2>1, <2>2, CalmStep DEF CalmInv
<1>3. QED
  BY <1>1, <1>2, RegInvInit, RegInvStep, CalmInvSuffices, PTL DEF Spec
=============================================================================

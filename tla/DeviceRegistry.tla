--------------------------- MODULE DeviceRegistry ---------------------------
(***************************************************************************)
(* The daemon's registry of device actors (internal/daemon/daemon.go) and  *)
(* the life of an actor around it (internal/daemon/actor.go): one handler  *)
(* goroutine per client connection asks getOrCreateActor for the actor of  *)
(* a serial, or removeDevice to disconnect it; one goroutine per actor     *)
(* keeps the session of its device open; and Daemon.cancel ends them all.  *)
(*                                                                         *)
(* Three locks interleave here: d.mu, held for single steps; the mutex of  *)
(* a serial, held across a whole connect and looked up in a map of its     *)
(* own; and the allocator's.  The device is modelled by what the program   *)
(* relies on: it runs at most one scrcpy server of ours, and StopServer    *)
(* kills it whoever started it (pkill by serial, deploy.go:313-339).  That  *)
(* takes two things on trust that the code does not look at: pkill works    *)
(* (deploy.go:320 drops its errors), and an adb shell that reports an error  *)
(* has launched nothing (session.go:163 returns without Close).             *)
(***************************************************************************)
EXTENDS ScidAllocator

CONSTANTS
  Handlers,   \* handleConn goroutines
  Serials,    \* device serials
  Actors,     \* DeviceActor objects; the pool bounds how many exist at once
  Mutexes,    \* sync.Mutex objects of connectMu, numbered
  Ops,        \* what the environment asks for, a subset of AllOps
  MaxFaults,  \* failed connects, dead servers and panics in a behaviour
  None

\* A request for a device or a disconnect, by a client; a signal to stop.
AllOps == {"bind", "disconnect", "cancel"}

ASSUME RegistryAssumption ==
  /\ Ops \subseteq AllOps
  /\ MaxFaults \in Nat
  /\ Mutexes \subseteq Nat
  /\ None \notin Actors \union Mutexes \union Handlers \union Serials

VARIABLES
  devices,    \* Daemon.devices: serial -> actor
  connectMu,  \* Daemon.connectMu: serial -> mutex
  holder,     \* the handler that holds each mutex
  pc, serial, mu, act,  \* of each handler: where it is, its locals
  life,       \* of each actor: "free", "connecting", "running" or "ended"
  cancelled,  \* DeviceActor.cancel was called
  aSerial, aScid,       \* DeviceActor.serial and .scid
  sess,       \* the actor's session: "nil", a stage of Connect, or "open"
  server,     \* the actor whose scrcpy server the device of a serial runs
  daemon,     \* "running", "cancelled" or "stopped"
  faults      \* faults so far, at most MaxFaults

handlerVars == <<pc, serial, mu, act>>
mutexVars   == <<connectMu, holder>>
actorVars   == <<life, cancelled, aSerial, aScid>>
deviceVars  == <<sess, server>>

vars == <<usedScid, usedPort, devices, connectMu, holder, pc, serial, mu, act,
          life, cancelled, aSerial, aScid, sess, server, daemon, faults>>
-----------------------------------------------------------------------------
Init ==
  /\ AllocInit
  /\ devices = [s \in Serials |-> None]
  /\ connectMu = [s \in Serials |-> None]
  /\ holder = [m \in Mutexes |-> None]
  /\ pc = [h \in Handlers |-> "idle"]
  /\ serial = [h \in Handlers |-> None]
  /\ mu = [h \in Handlers |-> None]
  /\ act = [h \in Handlers |-> None]
  /\ life = [a \in Actors |-> "free"]
  /\ cancelled = [a \in Actors |-> FALSE]
  /\ aSerial = [a \in Actors |-> None]
  /\ aScid = [a \in Actors |-> None]
  /\ sess = [a \in Actors |-> "nil"]
  /\ server = [s \in Serials |-> None]
  /\ daemon = "running"
  /\ faults = 0

\* Objects are reused once no pointer reaches them: an actor object is in
\* use from newDeviceActor until its goroutine has ended, it has left the
\* map, and no handler holds it.
FreeActor(a) == life[a] = "free"

Referenced(a) ==
  \/ \E h \in Handlers : act[h] = a
  \/ \E s \in Serials : devices[s] = a

FreeMutex(m) ==
  /\ holder[m] = None
  /\ \A h \in Handlers : mu[h] # m
  /\ \A s \in Serials : connectMu[s] # m

\* Free objects are alike: a new mutex is the lowest of them.
NewMutex(m) == FreeMutex(m) /\ \A k \in Mutexes : FreeMutex(k) => m <= k

Goto(h, label) == pc' = [pc EXCEPT ![h] = label]

\* The handler answers its client and ends; another connection may reuse h.
Return(h) ==
  /\ pc' = [pc EXCEPT ![h] = "idle"]
  /\ serial' = [serial EXCEPT ![h] = None]
  /\ mu' = [mu EXCEPT ![h] = None]
  /\ act' = [act EXCEPT ![h] = None]

Unlock(h) == holder' = [holder EXCEPT ![mu[h]] = None]

Forget(a) ==
  /\ life' = [life EXCEPT ![a] = "free"]
  /\ cancelled' = [cancelled EXCEPT ![a] = FALSE]
  /\ aSerial' = [aSerial EXCEPT ![a] = None]
  /\ aScid' = [aScid EXCEPT ![a] = None]

\* Session.Close: StopServer kills whatever server the device runs.
CloseSession(a) ==
  /\ sess' = [sess EXCEPT ![a] = "nil"]
  /\ server' = [server EXCEPT ![aSerial[a]] = None]

Fault == faults < MaxFaults /\ faults' = faults + 1
-----------------------------------------------------------------------------
(* The handler: handleConn and the registry calls it makes. *)

\* A request arrives and names its device.
Accept(h) ==
  /\ daemon = "running" /\ pc[h] = "idle"
  /\ \E op \in Ops \ {"cancel"}, s \in Serials :
       /\ Goto(h, op)
       /\ serial' = [serial EXCEPT ![h] = s]
  /\ UNCHANGED <<allocVars, devices, mutexVars, mu, act, actorVars, deviceVars,
                 daemon, faults>>

\* getOrCreateActor: the fast path, under d.mu.
Lookup(h) ==
  /\ pc[h] = "bind"
  /\ IF devices[serial[h]] # None
     THEN Return(h)
     ELSE Goto(h, "mutex") /\ UNCHANGED <<serial, mu, act>>
  /\ UNCHANGED <<allocVars, devices, mutexVars, actorVars, deviceVars, daemon,
                 faults>>

\* Mutant: every caller gets a mutex of its own.
ConnectMutex_Fresh(h) ==
  /\ pc[h] = "mutex"
  /\ Goto(h, "lock")
  /\ \E m \in Mutexes :
       /\ NewMutex(m)
       /\ mu' = [mu EXCEPT ![h] = m]
       /\ connectMu' = [connectMu EXCEPT ![serial[h]] = m]
  /\ UNCHANGED <<allocVars, devices, holder, serial, act, actorVars,
                 deviceVars, daemon, faults>>

\* connectMutex: the serial's mutex, made on first use.
ConnectMutex(h) ==
  /\ pc[h] = "mutex"
  /\ Goto(h, "lock")
  /\ \/ /\ connectMu[serial[h]] # None
        /\ mu' = [mu EXCEPT ![h] = connectMu[serial[h]]]
        /\ UNCHANGED connectMu
     \/ /\ connectMu[serial[h]] = None
        /\ \E m \in Mutexes :
             /\ NewMutex(m)
             /\ mu' = [mu EXCEPT ![h] = m]
             /\ connectMu' = [connectMu EXCEPT ![serial[h]] = m]
  /\ UNCHANGED <<allocVars, devices, holder, serial, act, actorVars,
                 deviceVars, daemon, faults>>

LockSerial(h) ==
  /\ pc[h] = "lock" /\ holder[mu[h]] = None
  /\ holder' = [holder EXCEPT ![mu[h]] = h]
  /\ Goto(h, "recheck")
  /\ UNCHANGED <<allocVars, devices, connectMu, serial, mu, act, actorVars,
                 deviceVars, daemon, faults>>

\* Mutant: no second look at the map.
Recheck_Skipped(h) ==
  /\ pc[h] = "recheck"
  /\ Goto(h, "alloc")
  /\ UNCHANGED <<allocVars, devices, mutexVars, serial, mu, act, actorVars,
                 deviceVars, daemon, faults>>

\* The second look at the map, now that the serial's mutex is held.
Recheck(h) ==
  /\ pc[h] = "recheck"
  /\ IF devices[serial[h]] # None
     THEN Return(h) /\ Unlock(h)
     ELSE Goto(h, "alloc") /\ UNCHANGED <<serial, mu, act, holder>>
  /\ UNCHANGED <<allocVars, devices, connectMu, actorVars, deviceVars, daemon,
                 faults>>

\* newDeviceActor: allocate a scid, then connect (the steps of Connect below).
NewDeviceActor(h) ==
  /\ pc[h] = "alloc"
  /\ \E scid \in Scids, a \in Actors :
       /\ Alloc(scid) /\ FreeActor(a)
       /\ act' = [act EXCEPT ![h] = a]
       /\ life' = [life EXCEPT ![a] = "connecting"]
       /\ aSerial' = [aSerial EXCEPT ![a] = serial[h]]
       /\ aScid' = [aScid EXCEPT ![a] = scid]
       /\ sess' = [sess EXCEPT ![a] = "dial"]
  /\ Goto(h, "connect")
  /\ UNCHANGED <<devices, mutexVars, serial, mu, cancelled, server, daemon,
                 faults>>

AllocatorExhausted(h) ==
  /\ pc[h] = "alloc" /\ Exhausted
  /\ Return(h) /\ Unlock(h)
  /\ UNCHANGED <<allocVars, devices, connectMu, actorVars, deviceVars, daemon,
                 faults>>

\* Mutants: the failed connect keeps its scid, or keeps the mutex locked.
ConnectFailed_KeepsScid(h) ==
  /\ pc[h] = "connect" /\ sess[act[h]] = "nil"
  /\ Forget(act[h])
  /\ Return(h) /\ Unlock(h)
  /\ UNCHANGED <<allocVars, devices, connectMu, deviceVars, daemon, faults>>

ConnectFailed_KeepsLock(h) ==
  /\ pc[h] = "connect" /\ sess[act[h]] = "nil"
  /\ Release(aScid[act[h]])
  /\ Forget(act[h])
  /\ Return(h)
  /\ UNCHANGED <<devices, mutexVars, deviceVars, daemon, faults>>

\* connectFn failed: newDeviceActor releases the scid itself.
ConnectFailed(h) ==
  /\ pc[h] = "connect" /\ sess[act[h]] = "nil"
  /\ Release(aScid[act[h]])
  /\ Forget(act[h])
  /\ Return(h) /\ Unlock(h)
  /\ UNCHANGED <<devices, connectMu, deviceVars, daemon, faults>>

\* Mutant: the duplicate overwrites the actor already in the map.
Store_Overwrites(h) ==
  LET a == act[h] IN
  /\ pc[h] = "connect" /\ sess[a] = "open"
  /\ devices' = [devices EXCEPT ![aSerial[a]] = a]
  /\ life' = [life EXCEPT ![a] = "running"]
  /\ Return(h) /\ Unlock(h)
  /\ UNCHANGED <<allocVars, connectMu, cancelled, aSerial, aScid, deviceVars,
                 daemon, faults>>

\* connectFn succeeded: under d.mu, publish the actor and count it in d.wg,
\* then start its goroutine and drop the mutex; or find that another handler
\* has published one, and discard the duplicate.
Store(h) ==
  LET a == act[h] IN
  /\ pc[h] = "connect" /\ sess[a] = "open"
  /\ IF devices[aSerial[a]] # None
     THEN /\ Goto(h, "discard")
          /\ UNCHANGED <<devices, life, serial, mu, act, holder>>
     ELSE /\ devices' = [devices EXCEPT ![aSerial[a]] = a]
          /\ life' = [life EXCEPT ![a] = "running"]
          /\ Return(h) /\ Unlock(h)
  /\ UNCHANGED <<allocVars, connectMu, cancelled, aSerial, aScid, deviceVars,
                 daemon, faults>>

DiscardDuplicate(h) ==
  /\ pc[h] = "discard"
  /\ CloseSession(act[h])
  /\ Goto(h, "discarded")
  /\ UNCHANGED <<allocVars, devices, mutexVars, serial, mu, act, actorVars,
                 daemon, faults>>

ReleaseDuplicate(h) ==
  /\ pc[h] = "discarded"
  /\ Release(aScid[act[h]])
  /\ Forget(act[h])
  /\ Return(h) /\ Unlock(h)
  /\ UNCHANGED <<devices, connectMu, deviceVars, daemon, faults>>

\* removeDevice: take the actor out of the map, and the serial's mutex out
\* of its own map, under d.mu; then cancel the actor; then release its scid.
RemoveDevice(h) ==
  /\ pc[h] = "disconnect"
  /\ IF devices[serial[h]] = None
     THEN Return(h) /\ UNCHANGED <<devices, connectMu>>
     ELSE /\ act' = [act EXCEPT ![h] = devices[serial[h]]]
          /\ devices' = [devices EXCEPT ![serial[h]] = None]
          /\ connectMu' = [connectMu EXCEPT ![serial[h]] = None]
          /\ Goto(h, "stop") /\ UNCHANGED <<serial, mu>>
  /\ UNCHANGED <<allocVars, holder, actorVars, deviceVars, daemon, faults>>

StopActor(h) ==
  /\ pc[h] = "stop"
  /\ IF life[act[h]] = "ended"
     THEN Forget(act[h])
     ELSE /\ cancelled' = [cancelled EXCEPT ![act[h]] = TRUE]
          /\ UNCHANGED <<life, aSerial, aScid>>
  /\ Release(aScid[act[h]])
  /\ Return(h)
  /\ UNCHANGED <<devices, mutexVars, deviceVars, daemon, faults>>
-----------------------------------------------------------------------------
(* session.Connect, run by a handler for a new actor (pc = "connect") and by *)
(* the actor's own goroutine when it reconnects.  A stage that fails leaves  *)
(* the actor without a session; after StartServer the error paths close the  *)
(* half-made session first.  An error of StartServer itself does not, and is  *)
(* taken for one from before the launch.                                     *)

ConnectFrame == UNCHANGED <<allocVars, devices, mutexVars, handlerVars,
                            actorVars, daemon>>

\* StopServer, then StartServer: the device now runs this session's server.
StartServer(a) ==
  /\ sess[a] = "dial"
  /\ sess' = [sess EXCEPT ![a] = "handshake"]
  /\ server' = [server EXCEPT ![aSerial[a]] = a]
  /\ ConnectFrame /\ UNCHANGED faults

\* Sockets and header: they need the server that this session started.
Handshake(a) ==
  /\ sess[a] = "handshake"
  /\ IF server[aSerial[a]] = a
     THEN sess' = [sess EXCEPT ![a] = "open"] /\ UNCHANGED server
     ELSE CloseSession(a)
  /\ ConnectFrame /\ UNCHANGED faults

ConnectFault(a) ==
  /\ Fault
  /\ \/ sess[a] = "dial" /\ sess' = [sess EXCEPT ![a] = "nil"]
        /\ UNCHANGED server
     \/ sess[a] \in {"dial", "handshake"} /\ CloseSession(a)
  /\ ConnectFrame

Connect(a) == StartServer(a) \/ Handshake(a)
-----------------------------------------------------------------------------
(* The actor's goroutine: run, runLoop and reconnect. *)

Alive(a) == sess[a] = "open" /\ server[aSerial[a]] = a

\* Mutant: only a missing session is replaced, never a dead one.
Reconnect_NilOnly(a) ==
  /\ life[a] = "running" /\ sess[a] = "nil"
  /\ sess' = [sess EXCEPT ![a] = "dial"]
  /\ ConnectFrame /\ UNCHANGED <<server, faults>>

\* A request or the health tick finds the session dead or missing: close it
\* and connect again, under the same scid.  The select of runLoop may take
\* this branch although the actor has been cancelled.
Reconnect(a) ==
  /\ life[a] = "running" /\ sess[a] \in {"open", "nil"} /\ ~Alive(a)
  /\ sess' = [sess EXCEPT ![a] = "dial"]
  /\ server' = IF sess[a] = "open"
               THEN [server EXCEPT ![aSerial[a]] = None] ELSE server
  /\ ConnectFrame /\ UNCHANGED faults

\* A panic in a handler: run closes the session and, after its back-off,
\* enters the loop again with none.
RecoverPanic(a) ==
  /\ life[a] = "running" /\ sess[a] = "open" /\ Fault
  /\ CloseSession(a)
  /\ ConnectFrame

\* Mutant: the actor's context is not derived from the daemon's.
ActorExit_OwnContext(a) ==
  /\ life[a] = "running" /\ sess[a] \in {"open", "nil"}
  /\ cancelled[a]
  /\ IF sess[a] = "open" THEN CloseSession(a) ELSE UNCHANGED deviceVars
  /\ IF Referenced(a)
     THEN life' = [life EXCEPT ![a] = "ended"]
          /\ UNCHANGED <<cancelled, aSerial, aScid>>
     ELSE Forget(a)
  /\ UNCHANGED <<allocVars, devices, mutexVars, handlerVars, daemon, faults>>

\* ctx.Done: the deferred functions of run close the session and count down
\* d.wg.  The actor's context ends with its own cancel or with the daemon's.
ActorExit(a) ==
  /\ life[a] = "running" /\ sess[a] \in {"open", "nil"}
  /\ cancelled[a] \/ daemon # "running"
  /\ IF sess[a] = "open" THEN CloseSession(a) ELSE UNCHANGED deviceVars
  /\ IF Referenced(a)
     THEN life' = [life EXCEPT ![a] = "ended"]
          /\ UNCHANGED <<cancelled, aSerial, aScid>>
     ELSE Forget(a)
  /\ UNCHANGED <<allocVars, devices, mutexVars, handlerVars, daemon, faults>>

\* The device is unplugged, or its server crashes.
ServerDies(s) ==
  /\ server[s] # None /\ Fault
  /\ server' = [server EXCEPT ![s] = None]
  /\ UNCHANGED <<allocVars, devices, mutexVars, handlerVars, actorVars, sess,
                 daemon>>
-----------------------------------------------------------------------------
(* Shutdown: cancel, then cleanup waits on d.wg for every handler and actor. *)

Cancel ==
  /\ "cancel" \in Ops
  /\ daemon = "running" /\ daemon' = "cancelled"
  /\ UNCHANGED <<allocVars, devices, mutexVars, handlerVars, actorVars,
                 deviceVars, faults>>

\* Mutant: the actors are not counted in d.wg.
Cleanup_HandlersOnly ==
  /\ daemon = "cancelled"
  /\ \A h \in Handlers : pc[h] = "idle"
  /\ daemon' = "stopped"
  /\ UNCHANGED <<allocVars, devices, mutexVars, handlerVars, actorVars,
                 deviceVars, faults>>

Cleanup ==
  /\ daemon = "cancelled"
  /\ \A h \in Handlers : pc[h] = "idle"
  /\ \A a \in Actors : life[a] # "running"
  /\ daemon' = "stopped"
  /\ UNCHANGED <<allocVars, devices, mutexVars, handlerVars, actorVars,
                 deviceVars, faults>>

\* The process has returned from Start.
Terminated == daemon = "stopped" /\ UNCHANGED vars

GetOrCreateActor(h) ==
  \/ Lookup(h) \/ ConnectMutex(h) \/ LockSerial(h) \/ Recheck(h)
  \/ NewDeviceActor(h) \/ AllocatorExhausted(h) \/ ConnectFailed(h)
  \/ Store(h) \/ DiscardDuplicate(h) \/ ReleaseDuplicate(h)

Disconnect(h) == RemoveDevice(h) \/ StopActor(h)

HandlerStep(h) == GetOrCreateActor(h) \/ Disconnect(h)

ActorStep(a) == Reconnect(a) \/ ActorExit(a)

Next ==
  \/ \E h \in Handlers : Accept(h) \/ HandlerStep(h)
  \/ \E a \in Actors : Connect(a) \/ ConnectFault(a) \/ ActorStep(a)
                       \/ RecoverPanic(a)
  \/ \E s \in Serials : ServerDies(s)
  \/ Cancel \/ Cleanup \/ Terminated

Spec == Init /\ [][Next]_vars
-----------------------------------------------------------------------------
(* Fairness: goroutines are scheduled; sync.Mutex does not starve a waiter,  *)
(* so that a handler's steps are strongly fair; and select picks at random   *)
(* among ready cases, so that a cancelled actor cannot prefer requests for   *)
(* ever.  Nothing is assumed of the environment's actions.                   *)
Fairness ==
  /\ \A h \in Handlers : SF_vars(HandlerStep(h))
  /\ \A a \in Actors : WF_vars(Connect(a) \/ Reconnect(a)) /\ SF_vars(ActorExit(a))
  /\ WF_vars(Cleanup)

FairSpec == Spec /\ Fairness
-----------------------------------------------------------------------------
HandlerLabels == {"idle", "bind", "mutex", "lock", "recheck", "alloc",
                  "connect", "discard", "discarded",
                  "disconnect", "stop"}

TypeOK ==
  /\ AllocTypeOK
  /\ devices \in [Serials -> Actors \union {None}]
  /\ connectMu \in [Serials -> Mutexes \union {None}]
  /\ holder \in [Mutexes -> Handlers \union {None}]
  /\ pc \in [Handlers -> HandlerLabels]
  /\ serial \in [Handlers -> Serials \union {None}]
  /\ mu \in [Handlers -> Mutexes \union {None}]
  /\ act \in [Handlers -> Actors \union {None}]
  /\ life \in [Actors -> {"free", "connecting", "running", "ended"}]
  /\ cancelled \in [Actors -> BOOLEAN]
  /\ aSerial \in [Actors -> Serials \union {None}]
  /\ aScid \in [Actors -> Scids \union {None}]
  /\ sess \in [Actors -> {"nil", "dial", "handshake", "open"}]
  /\ server \in [Serials -> Actors \union {None}]
  /\ daemon \in {"running", "cancelled", "stopped"}
  /\ faults \in 0 .. MaxFaults

\* Handlers that will release the scid of the actor they removed.
Removing == {h \in Handlers : pc[h] = "stop"}

\* The actors whose scid is out: connecting, registered, or being removed.
Leased ==
  {a \in Actors : life[a] = "connecting"}
    \union {a \in Actors : \E s \in Serials : devices[s] = a}
    \union {a \in Actors : \E h \in Removing : act[h] = a}

(***************************************************************************)
(* Every scid in use has exactly one owner, which will release it, and two *)
(* owners never share a video port: no path of getOrCreateActor or         *)
(* removeDevice (failed connect, discarded duplicate, disconnect racing a  *)
(* connect) leaks a scid, releases one twice, or releases somebody else's  *)
(* (actor.go:78-86, daemon.go:219-233, 249-264).                           *)
(***************************************************************************)
ScidOwnership ==
  /\ usedScid = {aScid[a] : a \in Leased}
  /\ usedPort = {ScidPort(scid) : scid \in usedScid}
  /\ \A a, b \in Leased : a # b => ScidPort(aScid[a]) # ScidPort(aScid[b])

(***************************************************************************)
(* No actor is lost: one whose goroutine runs and that nobody has          *)
(* cancelled can be reached through the map, or a handler is about to      *)
(* cancel it.  An actor overwritten in the map would hold its device until *)
(* the daemon dies (daemon.go:216-236).                                    *)
(***************************************************************************)
NoLostActor ==
  \A a \in Actors :
    life[a] = "running" /\ ~cancelled[a] =>
      \/ devices[aSerial[a]] = a
      \/ \E h \in Removing : act[h] = a

(***************************************************************************)
(* When the daemon has stopped, no scrcpy server of ours is left on any    *)
(* device, whichever connects, reconnects and disconnects were in flight   *)
(* when it was cancelled (daemon.go:466-469).                              *)
(***************************************************************************)
StoppedLeavesNoServer ==
  daemon = "stopped" => \A s \in Serials : server[s] = None

\* Where getOrCreateActor holds the mutex of its serial.
Locked == {"recheck", "alloc", "connect", "discard", "discarded"}

(***************************************************************************)
(* A mutex is locked exactly while one handler is between its Lock and its *)
(* Unlock: no return of getOrCreateActor forgets it, and although           *)
(* removeDevice drops the mutex from the map while handlers hold it or     *)
(* wait for it, none is locked by two or left locked by nobody             *)
(* (daemon.go:196-198, 256-257).                                           *)
(***************************************************************************)
LocksAreHeld ==
  \A h \in Handlers, m \in Mutexes :
    holder[m] = h <=> pc[h] \in Locked /\ mu[h] = m

(***************************************************************************)
(* daemon.go:172-173: "a per-serial mutex guarantees only one              *)
(* newDeviceActor runs for a given serial at a time".                      *)
(***************************************************************************)
OneConnectPerSerial ==
  \A g, h \in Handlers :
    g # h /\ pc[g] = "connect" /\ pc[h] = "connect" => serial[g] # serial[h]

(***************************************************************************)
(* What that mutex is for: as long as the device does not fail, the server *)
(* of a registered actor is never torn down by another request's connect   *)
(* (daemon.go:34-39).                                                      *)
(***************************************************************************)
RegisteredStaysConnected ==
  daemon = "running" /\ faults = 0 =>
    \A s \in Serials : devices[s] # None => server[s] = devices[s]

(***************************************************************************)
(* scid.go:29-30, "their forwarded TCP ports never collide", read for the  *)
(* sessions that are open at one time.  The code does not keep this        *)
(* (README.md, "Divergences").                                             *)
(***************************************************************************)
OpenSessionsHaveDistinctPorts ==
  \A a, b \in Actors :
    a # b /\ sess[a] = "open" /\ sess[b] = "open"
      => ScidPort(aScid[a]) # ScidPort(aScid[b])

(***************************************************************************)
(* Every request to the registry comes back: connects behind a mutex,      *)
(* duplicates, and requests caught by the shutdown (daemon.go:183-264).    *)
(***************************************************************************)
EveryRequestReturns ==
  \A h \in Handlers : pc[h] # "idle" ~> pc[h] = "idle"

(***************************************************************************)
(* However many times other goroutines have killed its server, an actor    *)
(* that stays registered ends up with a live session of its own, once the  *)
(* faults are over (actor.go:205-287).                                     *)
(***************************************************************************)
RegisteredActorHeals ==
  \A a \in Actors, s \in Serials :
    <>[](devices[s] = a /\ daemon = "running") => <>[](server[s] = a)

(***************************************************************************)
(* Cancelling the daemon leads to a finished cleanup: no handler and no    *)
(* actor can keep d.wg from reaching zero (daemon.go:459-469).             *)
(***************************************************************************)
ShutdownCompletes == daemon = "cancelled" ~> daemon = "stopped"
=============================================================================

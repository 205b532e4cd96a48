--------------------------- MODULE ScidAllocator ---------------------------
(***************************************************************************)
(* The allocator of scrcpy connection ids (internal/daemon/scid.go) and    *)
(* the id-to-port hash it shares with the session (pkg/protocol/scid.go).  *)
(* Every device actor owns one scid; the scid determines the TCP ports     *)
(* that adb forwards on the host, so two owners must not get scids whose   *)
(* hashes coincide.                                                        *)
(*                                                                         *)
(* The numbers of the program are parameters, so that the small instances  *)
(* can wrap the hash: the program has DefaultScid = 63, Window = 256,      *)
(* HashMul = 31, HashMod = 100, PortBase = 27183 and UiOffset = 10.        *)
(***************************************************************************)
EXTENDS Integers, FiniteSets

CONSTANTS
  DefaultScid,  \* scrcpy's own scid, given to the first device
  Window,       \* Alloc scans DefaultScid + 1 .. DefaultScid + Window - 1
  HashMul,      \* multiplier of ScidHash
  HashMod,      \* number of distinct video ports
  PortBase,     \* first video port
  UiOffset      \* distance from a session's video port to its UI port

ASSUME AllocatorAssumption ==
  /\ DefaultScid \in Nat /\ Window \in Nat \ {0}
  /\ HashMul \in Nat /\ HashMod \in Nat \ {0}
  /\ PortBase \in Nat /\ UiOffset \in Nat

VARIABLES
  usedScid,  \* scids handed out and not yet released
  usedPort   \* their video ports, kept by the code as a set of its own

allocVars == <<usedScid, usedPort>>

ScidHash(scid) == (scid * HashMul) % HashMod

ScidPort(scid) == PortBase + ScidHash(scid)

\* Mutant of Scids: a window that ends one scid short.
Scids_OneShort == DefaultScid .. (DefaultScid + Window - 2)

\* The scids the program can ever issue.
Scids == DefaultScid .. (DefaultScid + Window - 1)

\* Mutant of Candidates: a scan that does not look at the ports.
Candidates_PortUnchecked ==
  {scid \in Scids \ {DefaultScid} : scid \notin usedScid}

\* What the scan of Alloc accepts: a scid above the default that is not in
\* use and whose port is not in use either.
Candidates ==
  {scid \in Scids \ {DefaultScid} :
     scid \notin usedScid /\ ScidPort(scid) \notin usedPort}

\* Alloc looks at the default only while nothing at all is in use; otherwise
\* it takes the lowest candidate.
CanIssue(scid) ==
  IF usedScid = {}
  THEN scid = DefaultScid
  ELSE scid \in Candidates /\ \A c \in Candidates : scid <= c

Exhausted == usedScid # {} /\ Candidates = {}

Reserve(scid) ==
  /\ usedScid' = usedScid \union {scid}
  /\ usedPort' = usedPort \union {ScidPort(scid)}

Alloc(scid) == CanIssue(scid) /\ Reserve(scid)

\* Release does not ask whether the scid is in use: releasing one that is
\* not would drop a port that may belong to another owner.
Release(scid) ==
  /\ usedScid' = usedScid \ {scid}
  /\ usedPort' = usedPort \ {ScidPort(scid)}

AllocInit == usedScid = {} /\ usedPort = {}

\* The allocator under clients that release only what they hold (that the
\* daemon is such a client is a theorem of DeviceRegistry).
AllocNext ==
  \/ \E scid \in Scids : Alloc(scid)
  \/ \E scid \in usedScid : Release(scid)

AllocSpec == AllocInit /\ [][AllocNext]_allocVars
-----------------------------------------------------------------------------
\* The two TCP ports that a session with this scid forwards on the host.
UiPort(scid) == ScidPort(scid) + UiOffset

ForwardedPorts(scid) == {ScidPort(scid), UiPort(scid)}

AllocTypeOK ==
  /\ usedScid \subseteq Scids
  /\ usedPort \subseteq PortBase .. (PortBase + HashMod - 1)

(***************************************************************************)
(* The set of ports never drifts from the set of scids, although Release   *)
(* edits the two independently, and no two scids in use share a video port *)
(* (scid.go:29-30, "so their forwarded TCP ports never collide").          *)
(***************************************************************************)
VideoPortsDistinct ==
  /\ usedPort = {ScidPort(s) : s \in usedScid}
  /\ \A s, t \in usedScid : s # t => ScidPort(s) # ScidPort(t)

(***************************************************************************)
(* Alloc reports "no free port" only when every port of the hash is taken: *)
(* whatever was released, in whatever order, and although the default scid *)
(* is never re-issued while another is in use, no port is lost for good    *)
(* (scid.go:80).                                                           *)
(***************************************************************************)
NoPortLost == Exhausted => Cardinality(usedPort) = HashMod

(***************************************************************************)
(* What scid.go:29-30 says of the allocator, read for all the TCP ports a  *)
(* session forwards: its video port and its UI port (session.go:157-158).  *)
(***************************************************************************)
ForwardedPortsNeverCollide ==
  \A s, t \in usedScid :
    s # t => ForwardedPorts(s) \intersect ForwardedPorts(t) = {}
=============================================================================

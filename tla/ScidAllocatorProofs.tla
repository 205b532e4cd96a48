------------------------ MODULE ScidAllocatorProofs ------------------------
(***************************************************************************)
(* Proofs about ScidAllocator, for every default scid, window, hash and    *)
(* port base.  The lemmas on Reserve and Release need no assumption on the *)
(* hash; that no port is lost needs one, which the program's numbers meet. *)
(***************************************************************************)
EXTENDS ScidAllocator, FiniteSetTheorems, TLAPS

(***************************************************************************)
(* Reserving a scid whose port is free keeps the ports in step with the    *)
(* scids and distinct: the step of Alloc at scid.go:67-79.                 *)
(***************************************************************************)
LEMMA ReserveKeepsPorts ==
  ASSUME VideoPortsDistinct, NEW scid, ScidPort(scid) \notin usedPort,
         Reserve(scid)
  PROVE  VideoPortsDistinct'
<1>1. /\ usedScid' = usedScid \union {scid}
      /\ usedPort' = usedPort \union {ScidPort(scid)}
  BY DEF Reserve
<1>2. usedPort' = {ScidPort(s) : s \in usedScid'}
  BY <1>1 DEF VideoPortsDistinct
<1>3. ASSUME NEW s \in usedScid', NEW t \in usedScid', s # t
      PROVE  ScidPort(s) # ScidPort(t)
  BY <1>1, <1>3 DEF VideoPortsDistinct
<1>4. QED
  BY <1>2, <1>3 DEF VideoPortsDistinct, ScidPort, ScidHash

(***************************************************************************)
(* Releasing a scid that is in use frees its port and no other: the step   *)
(* of Release at scid.go:85-91.                                            *)
(***************************************************************************)
LEMMA ReleaseKeepsPorts ==
  ASSUME VideoPortsDistinct, NEW scid \in usedScid, Release(scid)
  PROVE  VideoPortsDistinct'
<1>1. /\ usedScid' = usedScid \ {scid}
      /\ usedPort' = usedPort \ {ScidPort(scid)}
  BY DEF Release
<1>2. usedPort' = {ScidPort(s) : s \in usedScid'}
  BY <1>1 DEF VideoPortsDistinct
<1>3. ASSUME NEW s \in usedScid', NEW t \in usedScid', s # t
      PROVE  ScidPort(s) # ScidPort(t)
  BY <1>1, <1>3 DEF VideoPortsDistinct
<1>4. QED
  BY <1>2, <1>3 DEF VideoPortsDistinct, ScidPort, ScidHash

(***************************************************************************)
(* Alloc only ever hands out a scid whose port is free: on its first       *)
(* branch because nothing is in use, on the second because it looked.      *)
(***************************************************************************)
LEMMA IssuedPortIsFree ==
  ASSUME VideoPortsDistinct, NEW scid, CanIssue(scid)
  PROVE  scid \notin usedScid /\ ScidPort(scid) \notin usedPort
BY DEF VideoPortsDistinct, CanIssue, Candidates

(***************************************************************************)
(* Alloc, whoever calls it, keeps the ports distinct.                      *)
(***************************************************************************)
LEMMA AllocKeepsPorts ==
  ASSUME VideoPortsDistinct, NEW scid, Alloc(scid)
  PROVE  VideoPortsDistinct'
BY IssuedPortIsFree, ReserveKeepsPorts DEF Alloc

(***************************************************************************)
(* Every scid of the window hashes to one of the HashMod video ports       *)
(* (pkg/protocol/scid.go:11-23).                                           *)
(***************************************************************************)
LEMMA PortInRange ==
  ASSUME NEW scid \in Scids
  PROVE  ScidPort(scid) \in PortBase .. (PortBase + HashMod - 1)
<1>1. scid * HashMul \in Nat
  BY AllocatorAssumption DEF Scids
<1>2. ScidHash(scid) \in 0 .. (HashMod - 1)
  <2> DEFINE n == scid * HashMul
  <2>1. n \in Nat /\ HashMod \in Nat \ {0}
    BY <1>1, AllocatorAssumption
  <2> HIDE DEF n
  <2>2. n % HashMod \in 0 .. (HashMod - 1)
    BY <2>1
  <2>3. QED
    BY <2>2 DEF ScidHash, n
<1>3. QED
  BY <1>2, AllocatorAssumption DEF ScidPort

(***************************************************************************)
(* The scids handed out lie in the window, the ports in the hash's range.  *)
(***************************************************************************)
THEOREM AllocTypeCorrect == AllocSpec => []AllocTypeOK
<1>1. AllocInit => AllocTypeOK
  BY DEF AllocInit, AllocTypeOK
<1>2. AllocTypeOK /\ [AllocNext]_allocVars => AllocTypeOK'
  <2> SUFFICES ASSUME AllocTypeOK, [AllocNext]_allocVars
               PROVE  AllocTypeOK'
    OBVIOUS
  <2>1. CASE \E scid \in Scids : Alloc(scid)
    BY PortInRange, <2>1 DEF AllocTypeOK, Alloc, Reserve
  <2>2. CASE \E scid \in usedScid : Release(scid)
    BY <2>2 DEF AllocTypeOK, Release
  <2>3. CASE UNCHANGED allocVars
    BY <2>3 DEF AllocTypeOK, allocVars
  <2>4. QED
    BY <2>1, <2>2, <2>3 DEF AllocNext
<1>3. QED
  BY <1>1, <1>2, PTL DEF AllocSpec

(***************************************************************************)
(* No two scids in use share a video port, for every hash: the sentence    *)
(* "their forwarded TCP ports never collide" of scid.go:29-30, read for    *)
(* the video ports.                                                        *)
(***************************************************************************)
THEOREM VideoPortsNeverCollide == AllocSpec => []VideoPortsDistinct
<1>1. AllocInit => VideoPortsDistinct
  BY DEF AllocInit, VideoPortsDistinct
<1>2. VideoPortsDistinct /\ [AllocNext]_allocVars => VideoPortsDistinct'
  <2> SUFFICES ASSUME VideoPortsDistinct, [AllocNext]_allocVars
               PROVE  VideoPortsDistinct'
    OBVIOUS
  <2>1. CASE \E scid \in Scids : Alloc(scid)
    BY <2>1, AllocKeepsPorts
  <2>2. CASE \E scid \in usedScid : Release(scid)
    BY <2>2, ReleaseKeepsPorts
  <2>3. CASE UNCHANGED allocVars
    BY <2>3 DEF VideoPortsDistinct, allocVars, ScidPort, ScidHash
  <2>4. QED
    BY <2>1, <2>2, <2>3 DEF AllocNext
<1>3. QED
  BY <1>1, <1>2, PTL DEF AllocSpec

-----------------------------------------------------------------------------
(* No port is lost. *)

(***************************************************************************)
(* A number has one remainder: the one that a quotient with a remainder in *)
(* range shows.                                                            *)
(***************************************************************************)
LEMMA RemainderIsUnique ==
  ASSUME NEW m \in Nat \ {0}, NEW a \in Int, NEW q \in Int, NEW r \in 0 .. (m - 1),
         a = m * q + r
  PROVE  a % m = r
<1> DEFINE q1 == a \div m
           r1 == a % m
<1>1. q1 \in Int /\ r1 \in 0 .. (m - 1) /\ a = m * q1 + r1
  OBVIOUS
<1> HIDE DEF q1, r1
<1>2. m * (q - q1) = r1 - r
  BY <1>1
<1>3. CASE q - q1 >= 1
  <2>1. m * (q - q1) >= m
    BY <1>1, <1>3
  <2>2. QED
    BY <1>1, <1>2, <2>1
<1>4. CASE q - q1 <= -1
  <2>1. m * (q - q1) <= -m
    BY <1>1, <1>4
  <2>2. QED
    BY <1>1, <1>2, <2>1
<1>5. CASE q = q1
  BY <1>1, <1>5 DEF r1
<1>6. QED
  BY <1>1, <1>3, <1>4, <1>5

(***************************************************************************)
(* What the program's hash has and NoPortLost needs: the multiplier has an *)
(* inverse modulo the number of ports (31 and 100 have no common factor),  *)
(* so that scids that follow each other reach every port.                  *)
(***************************************************************************)
HashMulInvertible == \E i \in Nat : (HashMul * i) % HashMod = 1 % HashMod

(***************************************************************************)
(* Among the HashMod scids after the default there is one for every port:  *)
(* the one i * r steps away, for i the inverse and r the port's number     *)
(* (pkg/protocol/scid.go:11-23).                                           *)
(***************************************************************************)
LEMMA EveryPortIsHashed ==
  ASSUME HashMulInvertible, NEW r \in 0 .. (HashMod - 1)
  PROVE  \E scid \in (DefaultScid + 1) .. (DefaultScid + HashMod) : ScidHash(scid) = r
<1>1. /\ HashMod \in Nat \ {0} /\ HashMul \in Nat /\ DefaultScid \in Nat
      /\ r \in Nat /\ r < HashMod
  BY AllocatorAssumption
<1>2. PICK i \in Nat : (HashMul * i) % HashMod = 1 % HashMod
  BY DEF HashMulInvertible
<1> DEFINE d == DefaultScid + 1
           p == (HashMul * i) \div HashMod
           q == (i * r - d) \div HashMod
           t == (i * r - d) % HashMod
           scid == d + t
<1>3. HashMul * i \in Int /\ i * r - d \in Int
  BY <1>1
<1>4. /\ p \in Int /\ HashMul * i = HashMod * p + (1 % HashMod)
      /\ q \in Int /\ t \in 0 .. (HashMod - 1) /\ i * r - d = HashMod * q + t
  <2> DEFINE a == HashMul * i
             b == i * r - d
  <2>1. a \in Int /\ b \in Int /\ a % HashMod = 1 % HashMod
    BY <1>2, <1>3
  <2> HIDE DEF a, b
  <2>2. /\ a \div HashMod \in Int /\ a = HashMod * (a \div HashMod) + (a % HashMod)
        /\ b \div HashMod \in Int /\ b % HashMod \in 0 .. (HashMod - 1)
        /\ b = HashMod * (b \div HashMod) + (b % HashMod)
    BY <1>1, <2>1
  <2>3. QED
    BY <2>1, <2>2 DEF a, b
<1> HIDE DEF p, q, t
<1>5. scid \in (DefaultScid + 1) .. (DefaultScid + HashMod) /\ scid * HashMul \in Int
  BY <1>1, <1>4
<1>6. CASE HashMod = 1
  <2>1. scid * HashMul = 1 * (scid * HashMul) + r
    BY <1>1, <1>5, <1>6
  <2>2. (scid * HashMul) % HashMod = r
    BY <1>1, <1>5, <1>6, <2>1, RemainderIsUnique
  <2>3. QED
    BY <1>5, <2>2 DEF ScidHash
<1>7. CASE HashMod > 1
  <2>1. 1 % HashMod = 1
    BY <1>1, <1>7, 1 = HashMod * 0 + 1, RemainderIsUnique
  <2>2. scid = i * r - HashMod * q
    BY <1>1, <1>4
  <2>3. scid * HashMul = (HashMul * i) * r - HashMod * (q * HashMul)
    BY <1>1, <1>4, <2>2
  <2>4. (HashMul * i) * r = HashMod * (p * r) + r
    BY <1>1, <1>4, <2>1
  <2>5. scid * HashMul = HashMod * (p * r - q * HashMul) + r
    BY <1>1, <1>4, <2>3, <2>4
  <2>6. p * r - q * HashMul \in Int
    BY <1>1, <1>4
  <2>7. (scid * HashMul) % HashMod = r
    BY <1>1, <1>5, <2>5, <2>6, RemainderIsUnique
  <2>8. QED
    BY <1>5, <2>7 DEF ScidHash
<1>8. QED
  BY <1>1, <1>6, <1>7

(***************************************************************************)
(* A scan that accepts nothing has seen every port taken: the scid of a    *)
(* port is refused because it is in use, or because its port is.           *)
(***************************************************************************)
LEMMA ExhaustedMeansAllTaken ==
  ASSUME HashMulInvertible, HashMod < Window, AllocTypeOK, VideoPortsDistinct
  PROVE  NoPortLost
<1> SUFFICES ASSUME Exhausted PROVE Cardinality(usedPort) = HashMod
  BY DEF NoPortLost
<1>1. HashMod \in Nat \ {0} /\ PortBase \in Nat /\ Window \in Nat /\ DefaultScid \in Nat
  BY AllocatorAssumption
<1>2. ASSUME NEW port \in PortBase .. (PortBase + HashMod - 1)
      PROVE  port \in usedPort
  <2>1. port - PortBase \in 0 .. (HashMod - 1)
    BY <1>1
  <2>2. PICK scid \in (DefaultScid + 1) .. (DefaultScid + HashMod) :
               ScidHash(scid) = port - PortBase
    BY <2>1, EveryPortIsHashed
  <2>3. scid \in Scids \ {DefaultScid} /\ ScidPort(scid) = port
    BY <1>1, <2>1, <2>2 DEF Scids, ScidPort
  <2>4. CASE scid \in usedScid
    BY <2>3, <2>4 DEF VideoPortsDistinct
  <2>5. CASE scid \notin usedScid
    BY <2>3, <2>5 DEF Exhausted, Candidates
  <2>6. QED
    BY <2>4, <2>5
<1>3. usedPort = PortBase .. (PortBase + HashMod - 1)
  BY <1>2 DEF AllocTypeOK
<1>4. QED
  BY <1>1, <1>3, FS_Interval

(***************************************************************************)
(* Alloc fails only when every port of the hash is taken, whatever was     *)
(* released in whatever order, for every hash with an invertible           *)
(* multiplier and a window that runs past its period (scid.go:45-81).      *)
(***************************************************************************)
THEOREM AllocLosesNoPort ==
  ASSUME HashMulInvertible, HashMod < Window
  PROVE  AllocSpec => []NoPortLost
BY ExhaustedMeansAllTaken, AllocTypeCorrect, VideoPortsNeverCollide, PTL

(***************************************************************************)
(* The program's own numbers (scid.go:26, 67; pkg/protocol/scid.go:8-23): 71  *)
(* is the inverse of 31 modulo 100, so a hundred devices can be connected  *)
(* before an Alloc fails.                                                  *)
(***************************************************************************)
THEOREM ProgramLosesNoPort ==
  ASSUME HashMul = 31, HashMod = 100, Window = 256
  PROVE  AllocSpec => []NoPortLost
<1>1. (HashMul * 71) % HashMod = 1 % HashMod
  OBVIOUS
<1>2. HashMulInvertible /\ HashMod < Window
  BY <1>1 DEF HashMulInvertible
<1>3. QED
  BY <1>2, AllocLosesNoPort
=============================================================================

------------------------- MODULE FileHandle_proofs -------------------------
(***************************************************************************)
(* Serialized and OneStream of a file, for any uses, sizes and bounds.     *)
(*                                                                         *)
(* A call holds the lease from the moment it is granted to its return, and *)
(* what it does in between takes several steps of the owner, a worker and  *)
(* the kernel.  OrderInv says where every other call is meanwhile; with it *)
(* the holder alone can close the file under its own transfer (OpenInv),   *)
(* and the cursor is where the last call that moved bytes left it, whether *)
(* or not the script has been told of that (StreamInv).                    *)
(***************************************************************************)
EXTENDS FileHandle, SequenceTheorems, TLAPS

(* The types.                                                              *)

Lives == {"unopened", "opening", "prepared", "failed", "open", "closed"}
CallPlaces == {"free", "queued", "granted", "pool", "work", "worked", "io", "moved", "done"}
Outcomes == {"none", "ok", "error", "cancelled"}

FileTypes ==
  /\ fileUse \in FileUses
  /\ file \in [life : Lives, asio : BOOLEAN, cursor : Nat] /\ content \in Seq(Nat)
  /\ lease \in [leased : BOOLEAN, waiters : Seq(FileCalls)]
  /\ fileOp \in [FileCalls -> [at : CallPlaces, pos : Nat, got : Nat, out : Outcomes]]

-----------------------------------------------------------------------------
(* The inductive invariant.                                                *)

Queued(i) == fileOp[i].at = "queued"

(* Who waits is queued, once and in the order of the calls.                *)
WaitersInv ==
  /\ \A k \in DOMAIN lease.waiters : Queued(lease.waiters[k])
  /\ \A i \in FileCalls : Queued(i) => \E k \in DOMAIN lease.waiters : lease.waiters[k] = i
  /\ \A k, l \in DOMAIN lease.waiters : k < l => lease.waiters[k] < lease.waiters[l]

(* The calls in the order in which they come to the lease: what returned   *)
(* from it, its holder, who waits, who has not called.  A call that was    *)
(* cancelled while it waited, or called after the stop, never held it.     *)
OrderInv ==
  /\ \A i, j \in FileCalls : i < j /\ fileOp[i].at = "free" => fileOp[j].at = "free"
  /\ \A i, j \in FileCalls : HoldsLease(i) /\ HoldsLease(j) => i = j
  /\ \A i, j \in FileCalls : HoldsLease(i) /\ Queued(j) => i < j
  /\ \A i, j \in FileCalls : i < j /\ fileOp[j].at = "done" /\ fileOp[j].out = "ok" => fileOp[i].at = "done"
  /\ lease.leased <=> \E i \in FileCalls : HoldsLease(i)
  /\ ~lease.leased => lease.waiters = <<>>

(* Bytes move through the descriptors of an open file, and nobody but the  *)
(* holder of the lease closes it.                                          *)
OpenInv ==
  /\ \A i \in FileCalls : fileOp[i].at \in {"work", "io", "moved"} => file.life = "open"
  /\ fds # {} => file.life \in {"prepared", "open"}
  /\ file.life = "open" => fds = {"data", "control"} \/ (~file.asio /\ fds \in {{"data"}, {"control"}})

(* e is where the sequential calls before j that moved anything ended.     *)
EndsAt(j, e) ==
  \/ e = 0 /\ \A i \in FileCalls : i < j => ~Moved(i)
  \/ \E i \in FileCalls : /\ i < j /\ Moved(i) /\ e = fileOp[i].pos + fileOp[i].got
                          /\ \A k \in FileCalls : k < j /\ Moved(k) => k <= i

(* A worker has moved the cursor, and its caller has not heard of it.      *)
Unheard(i) == /\ fileOp[i].at = "worked" /\ Sequential(i)
               /\ fileOp[i].out = "ok" /\ fileOp[i].got > 0

(* What a call moves begins where the one before it ended, and so does the *)
(* cursor, until a stop hides from the script what a worker has moved.     *)
StreamInv ==
  /\ \A i \in FileCalls : fileOp[i].at \in {"free", "queued", "granted", "pool"} => fileOp[i].got = 0
  /\ ~Appends(fileUse.mode) =>
       /\ \A j \in FileCalls :
            Moved(j) \/ (fileOp[j].at \in {"work", "io", "moved"} /\ Sequential(j)) \/ Unheard(j)
            => EndsAt(j, fileOp[j].pos)
       /\ ~fileStop =>
            /\ \A i \in FileCalls : Unheard(i) => file.cursor = fileOp[i].pos + fileOp[i].got
            /\ (\A i \in FileCalls : ~Unheard(i)) => EndsAt(Len(fileUse.calls) + 1, file.cursor)

FileInv == FileTypes /\ WaitersInv /\ OrderInv /\ OpenInv /\ StreamInv

-----------------------------------------------------------------------------
(* Types.                                                                  *)

CallRec == [at : CallPlaces, pos : Nat, got : Nat, out : Outcomes]
Held == {"granted", "pool", "work", "worked", "io", "moved"}

LEMMA UseTypes ==
  ASSUME FileConstantsOK, fileUse \in FileUses
  PROVE  /\ Len(fileUse.calls) \in Nat /\ FileCalls = 1 .. Len(fileUse.calls)
         /\ \A i \in FileCalls : Called(i) \in FileCall
         /\ fileUse.size \in Nat \cup {Default}
<1>1. fileUse \in FileUse
  BY DEF FileConstantsOK
<1>2. fileUse.calls \in Seq(FileCall) /\ fileUse.size \in Nat \cup {Default}
  BY <1>1 DEF FileUse
<1> QED BY <1>2 DEF FileCalls, Called

LEMMA CallTypes ==
  ASSUME FileConstantsOK, FileTypes, NEW i \in FileCalls
  PROVE  /\ i \in Nat /\ fileOp[i] \in CallRec
         /\ Called(i).op \in Methods /\ Called(i).at \in Nat /\ Called(i).n \in Int
         /\ ByteCount(i) \in Int /\ Base(i) \in Nat
<1>1. i \in Nat /\ Called(i) \in FileCall
  BY UseTypes DEF FileTypes
<1>2. Called(i).op \in Methods /\ Called(i).at \in Nat /\ Called(i).n \in Int
  BY <1>1 DEF FileCall, Default
<1>3. ByteCount(i) \in Int
  BY <1>2 DEF ByteCount, ReadMax, FileConstantsOK
<1>4. Base(i) \in Nat
  BY <1>2 DEF Base, FileTypes
<1> QED BY <1>1, <1>2, <1>3, <1>4 DEF FileTypes, CallRec

-----------------------------------------------------------------------------
(* The lease.                                                              *)

(* A waiter that is cancelled leaves the others in their order.            *)
LEMMA Removed ==
  ASSUME NEW S, NEW s \in Seq(S), NEW k \in DOMAIN s,
         \A m \in DOMAIN s : s[m] = s[k] => m = k
  PROVE  /\ RemoveFirst(s, s[k]) \in Seq(S) /\ Len(RemoveFirst(s, s[k])) = Len(s) - 1
         /\ \A m \in 1 .. Len(s) - 1 : RemoveFirst(s, s[k])[m] = IF m < k THEN s[m] ELSE s[m + 1]
<1> DEFINE I == {m \in 1 .. Len(s) : s[m] = s[k]}
<1>1. Len(s) \in Nat /\ DOMAIN s = 1 .. Len(s) /\ k \in 1 .. Len(s)
  OBVIOUS
<1>2. I = {k}
  BY <1>1
<1>3. SelectInSeq(s, LAMBDA v : v = s[k]) = k
  BY <1>2 DEF SelectInSeq, Min
<1>4. RemoveFirst(s, s[k]) = RemoveAt(s, k)
  BY <1>1, <1>3 DEF RemoveFirst
<1> DEFINE a == SubSeq(s, 1, k - 1)
           b == SubSeq(s, k + 1, Len(s))
<1>5. a \in Seq(S) /\ Len(a) = k - 1 /\ \A m \in 1 .. k - 1 : a[m] = s[m]
  <2>1. /\ a \in Seq(S) /\ Len(a) = IF 1 <= k - 1 THEN k - 1 - 1 + 1 ELSE 0
        /\ \A m \in 1 .. k - 1 - 1 + 1 : a[m] = s[1 + m - 1]
    BY <1>1, SubSeqProperties
  <2> HIDE DEF a
  <2> QED BY <1>1, <2>1
<1>6. b \in Seq(S) /\ Len(b) = Len(s) - k /\ \A m \in 1 .. Len(s) - k : b[m] = s[m + k]
  <2>1. /\ b \in Seq(S) /\ Len(b) = IF k + 1 <= Len(s) THEN Len(s) - (k + 1) + 1 ELSE 0
        /\ \A m \in 1 .. Len(s) - (k + 1) + 1 : b[m] = s[k + 1 + m - 1]
    BY <1>1, SubSeqProperties
  <2> HIDE DEF b
  <2>2. Len(b) = Len(s) - k
    BY <1>1, <2>1
  <2>3. ASSUME NEW m \in 1 .. Len(s) - k PROVE b[m] = s[m + k]
    <3>1. m \in 1 .. Len(s) - (k + 1) + 1 /\ k + 1 + m - 1 = m + k
      BY <1>1
    <3> QED BY <2>1, <3>1
  <2> QED BY <2>1, <2>2, <2>3
<1>7. RemoveAt(s, k) = a \o b
  BY DEF RemoveAt
<1> HIDE DEF a, b
<1>8. /\ a \o b \in Seq(S) /\ Len(a \o b) = Len(s) - 1
      /\ \A m \in 1 .. Len(s) - 1 : (a \o b)[m] = IF m < k THEN s[m] ELSE s[m + 1]
  <2>1. /\ a \o b \in Seq(S) /\ Len(a \o b) = Len(a) + Len(b)
        /\ \A m \in 1 .. Len(a) + Len(b) : (a \o b)[m] = IF m <= Len(a) THEN a[m] ELSE b[m - Len(a)]
    BY <1>5, <1>6, ConcatProperties
  <2>2. Len(a) + Len(b) = Len(s) - 1
    BY <1>1, <1>5, <1>6
  <2>3. ASSUME NEW m \in 1 .. Len(s) - 1
        PROVE  (a \o b)[m] = IF m < k THEN s[m] ELSE s[m + 1]
    <3>1. CASE m < k
      BY <1>1, <1>5, <2>1, <2>2, <3>1
    <3>2. CASE ~(m < k)
      <4>1. (a \o b)[m] = b[m - (k - 1)] /\ m - (k - 1) \in 1 .. Len(s) - k
        BY <1>1, <1>5, <2>1, <2>2, <3>2
      <4> QED BY <1>1, <1>6, <3>2, <4>1
    <3> QED BY <3>1, <3>2
  <2> QED BY <2>1, <2>2, <2>3
<1> QED BY <1>4, <1>7, <1>8

(* The first to wait is the first of those that wait.                      *)
LEMMA FirstWaits ==
  ASSUME FileConstantsOK, FileTypes, WaitersInv, lease.waiters # <<>>
  PROVE  /\ Head(lease.waiters) \in FileCalls /\ Queued(Head(lease.waiters))
         /\ Tail(lease.waiters) \in Seq(FileCalls)
         /\ \A j \in FileCalls : Queued(j) => Head(lease.waiters) <= j
<1> DEFINE s == lease.waiters
<1>1. s \in Seq(FileCalls) /\ DOMAIN s = 1 .. Len(s) /\ Len(s) \in Nat \ {0} /\ Head(s) = s[1]
  BY DEF FileTypes
<1>2. s[1] \in FileCalls /\ Queued(s[1])
  BY <1>1 DEF WaitersInv
<1>3. ASSUME NEW j \in FileCalls, Queued(j)
      PROVE  s[1] <= j
  <2>1. PICK k \in DOMAIN s : s[k] = j
    BY <1>3 DEF WaitersInv
  <2>2. k = 1 \/ s[1] < s[k]
    BY <1>1, <2>1 DEF WaitersInv
  <2>3. j \in Nat /\ s[1] \in Nat
    BY <1>2, CallTypes
  <2> QED BY <2>1, <2>2, <2>3
<1> QED BY <1>1, <1>2, <1>3

(* Nothing else changes for the other calls.                               *)
OnlyCall(i) == \A j \in FileCalls \ {i} : fileOp'[j] = fileOp[j]

(* The holder i of the lease goes on.                                      *)
GoesOn(i) == /\ HoldsLease(i) /\ HoldsLease(i)' /\ OnlyCall(i)
             /\ lease' = lease /\ fileUse' = fileUse

LEMMA GoesOnInOrder ==
  ASSUME FileConstantsOK, FileTypes, WaitersInv, OrderInv, NEW i \in FileCalls, GoesOn(i)
  PROVE  WaitersInv' /\ OrderInv'
<1>1. FileCalls' = FileCalls
  BY DEF GoesOn, FileCalls
<1>2. \A j \in FileCalls \ {i} : fileOp'[j] = fileOp[j]
  BY DEF GoesOn, OnlyCall
<1>3. fileOp[i].at \in Held /\ fileOp'[i].at \in Held /\ lease' = lease
  BY DEF GoesOn, HoldsLease, Held
<1>4. \A j \in FileCalls : /\ (fileOp'[j].at = "queued") = (fileOp[j].at = "queued")
                           /\ (fileOp'[j].at = "free") = (fileOp[j].at = "free")
                           /\ (fileOp'[j].at = "done") = (fileOp[j].at = "done")
                           /\ (fileOp'[j].at \in Held) = (fileOp[j].at \in Held)
  BY <1>2, <1>3 DEF Held
<1>5. WaitersInv'
  <2>1. \A k \in DOMAIN lease.waiters : lease.waiters[k] \in FileCalls
    BY DEF FileTypes
  <2> QED BY <1>1, <1>3, <1>4, <2>1 DEF WaitersInv, Queued
<1>6. OrderInv'
  <2>1. \A j \in FileCalls : fileOp'[j].at = "done" => fileOp'[j] = fileOp[j]
    BY <1>2, <1>3 DEF Held
  <2>2. \A j \in FileCalls : (HoldsLease(j)' <=> HoldsLease(j)) /\ (Queued(j)' <=> Queued(j))
    BY <1>4 DEF HoldsLease, Queued, Held
  <2> QED BY <1>1, <1>3, <1>4, <2>1, <2>2 DEF OrderInv
<1> QED BY <1>5, <1>6

(* The holder i returns: it is done, and the first who waits takes over.   *)
HandsOver(i, out) ==
  /\ fileOp'[i] = [fileOp[i] EXCEPT !.at = "done", !.out = out]
  /\ IF lease.waiters = <<>>
     THEN OnlyCall(i) /\ lease' = [leased |-> FALSE, waiters |-> <<>>]
     ELSE LET w == Head(lease.waiters) IN
          /\ w # i /\ fileOp'[w] = [fileOp[w] EXCEPT !.at = "granted"]
          /\ \A j \in FileCalls \ {i, w} : fileOp'[j] = fileOp[j]
          /\ lease' = [leased |-> TRUE, waiters |-> Tail(lease.waiters)]

LEMMA ReturnsHandsOver ==
  ASSUME FileConstantsOK, FileTypes, WaitersInv, NEW i \in FileCalls, HoldsLease(i),
         NEW out \in Outcomes, Returns(i, out)
  PROVE  /\ HandsOver(i, out)
         /\ fileOp' \in [FileCalls -> CallRec]
         /\ lease' \in [leased : BOOLEAN, waiters : Seq(FileCalls)]
<1> DEFINE f == Done(fileOp, i, out)
           w == Head(lease.waiters)
<1>1. f = [fileOp EXCEPT ![i] = [fileOp[i] EXCEPT !.at = "done", !.out = out]]
  BY DEF Done, FileTypes
<1>2. fileOp \in [FileCalls -> CallRec]
  BY DEF FileTypes, CallRec
<1>3. f \in [FileCalls -> CallRec]
  BY <1>1, <1>2 DEF CallRec, CallPlaces
<1> HIDE DEF f
<1>4. CASE lease.waiters = <<>>
  <2>1. fileOp' = f /\ lease' = [leased |-> FALSE, waiters |-> <<>>]
    BY <1>4 DEF Returns, Release, f
  <2>2. <<>> \in Seq(FileCalls)
    OBVIOUS
  <2>3. HandsOver(i, out)
    BY <1>1, <1>2, <1>4, <2>1 DEF HandsOver, OnlyCall
  <2> QED BY <1>3, <2>1, <2>2, <2>3
<1>5. CASE lease.waiters # <<>>
  <2>1. fileOp' = Granted(f, w) /\ lease' = [leased |-> TRUE, waiters |-> Tail(lease.waiters)]
    BY <1>5 DEF Returns, Release, f
  <2>2. w \in FileCalls /\ Queued(w) /\ Tail(lease.waiters) \in Seq(FileCalls)
    BY <1>5, FirstWaits
  <2>3. w # i
    BY <2>2 DEF Queued, HoldsLease
  <2> HIDE DEF w
  <2>4. fileOp' = [f EXCEPT ![w] = [f[w] EXCEPT !.at = "granted"]]
    BY <1>3, <2>1 DEF Granted
  <2>5. fileOp' \in [FileCalls -> CallRec]
    BY <1>3, <2>2, <2>4 DEF CallRec, CallPlaces
  <2>6. f[w] = fileOp[w] /\ f[i] = [fileOp[i] EXCEPT !.at = "done", !.out = out]
    BY <1>1, <1>2, <2>2, <2>3
  <2>7. HandsOver(i, out)
    BY <1>1, <1>2, <1>3, <1>5, <2>1, <2>2, <2>3, <2>4, <2>6 DEF HandsOver, w
  <2> QED BY <2>1, <2>2, <2>5, <2>7
<1> QED BY <1>4, <1>5

LEMMA HandsOverInOrder ==
  ASSUME FileConstantsOK, FileTypes, WaitersInv, OrderInv, NEW i \in FileCalls, HoldsLease(i),
         NEW out \in Outcomes, HandsOver(i, out), fileUse' = fileUse
  PROVE  WaitersInv' /\ OrderInv'
<1>1. FileCalls' = FileCalls
  BY DEF FileCalls
<1>2. fileOp'[i].at = "done" /\ fileOp'[i].out = out /\ i \in Nat
  <2>1. fileOp[i] \in CallRec /\ i \in Nat
    BY CallTypes
  <2> QED BY <2>1 DEF HandsOver, CallRec
<1>3. \A j \in FileCalls : j < i => fileOp[j].at = "done"
  <2> SUFFICES ASSUME NEW j \in FileCalls, j < i PROVE fileOp[j].at = "done"
    OBVIOUS
  <2>1. fileOp[j] \in CallRec /\ j \in Nat
    BY CallTypes
  <2>2. fileOp[j].at # "free"
    BY DEF OrderInv, HoldsLease
  <2>3. ~HoldsLease(j)
    BY <1>2, <2>1 DEF OrderInv
  <2>4. ~Queued(j)
    BY <1>2, <2>1 DEF OrderInv
  <2> QED BY <2>1, <2>2, <2>3, <2>4 DEF CallRec, CallPlaces, HoldsLease, Queued
<1>4. \A j \in FileCalls : HoldsLease(j) => j = i
  BY DEF OrderInv
<1>5. \A j \in FileCalls : j \in Nat
  BY CallTypes
<1>6. CASE lease.waiters = <<>>
  <2>1. /\ \A j \in FileCalls \ {i} : fileOp'[j] = fileOp[j]
        /\ lease' = [leased |-> FALSE, waiters |-> <<>>]
    BY <1>6 DEF HandsOver, OnlyCall
  <2>2. \A j \in FileCalls : ~Queued(j)
    BY <1>6 DEF WaitersInv
  <2>3. \A j \in FileCalls : ~Queued(j)' /\ ~HoldsLease(j)'
    BY <1>2, <1>4, <2>1, <2>2 DEF Queued, HoldsLease
  <2>4. WaitersInv'
    BY <1>1, <2>1, <2>3 DEF WaitersInv
  <2>5. \A j, k \in FileCalls : j < k /\ fileOp'[j].at = "free" => fileOp'[k].at = "free"
    <3> SUFFICES ASSUME NEW j \in FileCalls, NEW k \in FileCalls, j < k, fileOp'[j].at = "free"
                 PROVE  fileOp'[k].at = "free"
      OBVIOUS
    <3>1. j # i /\ fileOp[j].at = "free"
      BY <1>2, <2>1
    <3>2. fileOp[k].at = "free"
      BY <3>1 DEF OrderInv
    <3>3. k # i
      BY <3>2 DEF HoldsLease
    <3> QED BY <2>1, <3>2, <3>3
  <2>6. \A j, k \in FileCalls : j < k /\ fileOp'[k].at = "done" /\ fileOp'[k].out = "ok" => fileOp'[j].at = "done"
    <3> SUFFICES ASSUME NEW j \in FileCalls, NEW k \in FileCalls, j < k,
                        fileOp'[k].at = "done", fileOp'[k].out = "ok"
                 PROVE  fileOp'[j].at = "done"
      OBVIOUS
    <3>1. fileOp[j].at = "done"
      <4>1. CASE k = i
        BY <1>3, <4>1
      <4>2. CASE k # i
        BY <2>1, <4>2 DEF OrderInv
      <4> QED BY <4>1, <4>2
    <3> QED BY <1>2, <2>1, <3>1
  <2>7. OrderInv'
    BY <1>1, <2>1, <2>3, <2>5, <2>6 DEF OrderInv
  <2> QED BY <2>4, <2>7
<1>7. CASE lease.waiters # <<>>
  <2> DEFINE w == Head(lease.waiters)
             s == lease.waiters
  <2>1. w \in FileCalls /\ Queued(w) /\ \A j \in FileCalls : Queued(j) => w <= j
    BY <1>7, FirstWaits
  <2>2. /\ w # i /\ fileOp'[w] = [fileOp[w] EXCEPT !.at = "granted"]
        /\ \A j \in FileCalls \ {i, w} : fileOp'[j] = fileOp[j]
        /\ lease' = [leased |-> TRUE, waiters |-> Tail(lease.waiters)]
    BY <1>7 DEF HandsOver
  <2>3. /\ s \in Seq(FileCalls) /\ s # <<>> /\ Len(s) \in Nat \ {0} /\ DOMAIN s = 1 .. Len(s) /\ w = s[1]
        /\ Tail(s) \in Seq(FileCalls) /\ DOMAIN Tail(s) = 1 .. Len(s) - 1
        /\ \A k \in 1 .. Len(s) - 1 : Tail(s)[k] = s[k + 1]
    BY <1>7 DEF FileTypes
  <2>4. fileOp'[w].at = "granted"
    <3>1. fileOp[w] \in CallRec
      BY <2>1, CallTypes
    <3> HIDE DEF w
    <3> QED BY <2>2, <3>1 DEF CallRec
  <2>5. lease'.leased = TRUE /\ lease'.waiters = Tail(s)
    BY <2>2
  <2>6. \A k, l \in 1 .. Len(s) : k < l => s[k] < s[l]
    BY <2>3 DEF WaitersInv
  <2>7. \A k \in 1 .. Len(s) : s[k] \in FileCalls /\ Queued(s[k])
    BY <2>3 DEF WaitersInv
  <2>8. \A j \in FileCalls : Queued(j) => \E k \in 1 .. Len(s) : s[k] = j
    BY <2>3 DEF WaitersInv
  <2>9. ~Queued(i)
    BY DEF Queued, HoldsLease
  <2> HIDE DEF w, s
  <2>10. \A j \in FileCalls : Queued(j)' <=> Queued(j) /\ j # w
    BY <1>2, <2>2, <2>4, <2>9 DEF Queued
  <2>11. \A j \in FileCalls : HoldsLease(j)' <=> j = w
    BY <1>2, <1>4, <2>1, <2>2, <2>4 DEF HoldsLease
  <2>12. WaitersInv'
    <3>1. ASSUME NEW k \in 1 .. Len(s) - 1
          PROVE  fileOp'[Tail(s)[k]].at = "queued"
      <4>1. Tail(s)[k] = s[k + 1] /\ s[1] < s[k + 1] /\ k + 1 \in 1 .. Len(s)
        BY <2>3, <2>6
      <4>2. s[k + 1] \in FileCalls /\ Queued(s[k + 1]) /\ s[k + 1] # w
        BY <1>5, <2>3, <2>7, <4>1
      <4>3. PICK j \in FileCalls : j = s[k + 1]
        BY <4>2
      <4>4. fileOp'[j].at = "queued"
        BY <2>10, <4>2, <4>3 DEF Queued
      <4> QED BY <4>1, <4>3, <4>4
    <3>2. ASSUME NEW j \in FileCalls, Queued(j)'
          PROVE  \E k \in 1 .. Len(s) - 1 : Tail(s)[k] = j
      <4>1. Queued(j) /\ j # w
        BY <2>10, <3>2
      <4>2. PICK k \in 1 .. Len(s) : s[k] = j
        BY <2>8, <4>1
      <4>3. k # 1
        BY <2>3, <4>1, <4>2
      <4>4. k - 1 \in 1 .. Len(s) - 1 /\ Tail(s)[k - 1] = j
        BY <2>3, <4>2, <4>3
      <4> QED BY <4>4
    <3>3. \A k, l \in 1 .. Len(s) - 1 : k < l => Tail(s)[k] < Tail(s)[l]
      BY <2>3, <2>6
    <3>4. DOMAIN lease'.waiters = 1 .. Len(s) - 1 /\ \A k \in 1 .. Len(s) - 1 : lease'.waiters[k] = Tail(s)[k]
      BY <2>3, <2>5
    <3>5. \A k \in DOMAIN lease'.waiters : fileOp'[lease'.waiters[k]].at = "queued"
      BY <3>1, <3>4
    <3>6. \A j \in FileCalls : fileOp'[j].at = "queued" => \E k \in DOMAIN lease'.waiters : lease'.waiters[k] = j
      BY <3>2, <3>4 DEF Queued
    <3>7. \A k, l \in DOMAIN lease'.waiters : k < l => lease'.waiters[k] < lease'.waiters[l]
      <4> SUFFICES ASSUME NEW k \in 1 .. Len(s) - 1, NEW l \in 1 .. Len(s) - 1, k < l
                   PROVE  lease'.waiters[k] < lease'.waiters[l]
        BY <3>4
      <4>1. lease'.waiters[k] = Tail(s)[k] /\ lease'.waiters[l] = Tail(s)[l]
        BY <3>4
      <4> QED BY <3>3, <4>1
    <3> QED BY <1>1, <3>5, <3>6, <3>7 DEF WaitersInv, Queued
  <2>13. \A j, k \in FileCalls : j < k /\ fileOp'[j].at = "free" => fileOp'[k].at = "free"
    <3> SUFFICES ASSUME NEW j \in FileCalls, NEW k \in FileCalls, j < k, fileOp'[j].at = "free"
                 PROVE  fileOp'[k].at = "free"
      OBVIOUS
    <3>1. j # i /\ j # w /\ fileOp[j].at = "free"
      BY <1>2, <2>2, <2>4
    <3>2. fileOp[k].at = "free"
      BY <3>1 DEF OrderInv
    <3>3. k # i /\ k # w
      BY <2>1, <3>2 DEF Queued, HoldsLease
    <3> QED BY <2>2, <3>2, <3>3
  <2>14. \A j, k \in FileCalls : j < k /\ fileOp'[k].at = "done" /\ fileOp'[k].out = "ok" => fileOp'[j].at = "done"
    <3> SUFFICES ASSUME NEW j \in FileCalls, NEW k \in FileCalls, j < k,
                        fileOp'[k].at = "done", fileOp'[k].out = "ok"
                 PROVE  fileOp'[j].at = "done"
      OBVIOUS
    <3>1. fileOp[j].at = "done"
      <4>1. CASE k = i
        BY <1>3, <4>1
      <4>2. CASE k # i
        BY <2>2, <2>4, <4>2 DEF OrderInv
      <4> QED BY <4>1, <4>2
    <3> QED BY <1>2, <2>1, <2>2, <3>1 DEF Queued
  <2>15. \A j, k \in FileCalls : HoldsLease(j)' /\ Queued(k)' => j < k
    BY <1>5, <2>1, <2>10, <2>11
  <2>16. OrderInv'
    BY <1>1, <2>1, <2>5, <2>11, <2>13, <2>14, <2>15 DEF OrderInv
  <2> QED BY <2>12, <2>16
<1> QED BY <1>6, <1>7

(* A call joins behind all who called before it.                           *)
LEMMA CallInOrder ==
  ASSUME FileConstantsOK, FileTypes, WaitersInv, OrderInv, NEW i \in FileCalls, CallFile(i)
  PROVE  /\ FileTypes' /\ WaitersInv' /\ OrderInv' /\ OnlyCall(i)
         /\ fileOp[i].at = "free" /\ fileOp'[i].at \in {"queued", "granted", "done"}
         /\ fileOp'[i].out # "ok" \/ fileOp'[i].at # "done"
         /\ fileOp'[i].got = fileOp[i].got
<1>1. /\ fileOp[i].at = "free" /\ \A j \in 1 .. i - 1 : fileOp[j].at # "free"
      /\ file' = file /\ fds' = fds /\ content' = content /\ fileStop' = fileStop /\ fileUse' = fileUse
  BY DEF CallFile
<1>2. FileCalls' = FileCalls /\ fileOp \in [FileCalls -> CallRec] /\ fileOp[i] \in CallRec
  BY <1>1 DEF FileCalls, FileTypes, CallRec
<1>3. \A j \in FileCalls : j \in Nat /\ (j < i => fileOp[j].at # "free")
  <2>1. FileCalls = 1 .. Len(fileUse.calls) /\ Len(fileUse.calls) \in Nat
    BY UseTypes DEF FileTypes
  <2> QED BY <1>1, <2>1
<1>4. \A j \in FileCalls : i < j => fileOp[j].at = "free"
  BY <1>1 DEF OrderInv
<1>5. ASSUME NEW r \in CallRec, fileOp' = [fileOp EXCEPT ![i] = r]
      PROVE  fileOp' \in [FileCalls -> CallRec] /\ fileOp'[i] = r /\ OnlyCall(i)
  BY <1>2, <1>5 DEF OnlyCall
<1>6. ASSUME OnlyCall(i), fileOp'[i].at \in {"queued", "granted", "done"},
             fileOp'[i].out # "ok" \/ fileOp'[i].at # "done"
      PROVE  /\ \A j, k \in FileCalls : j < k /\ fileOp'[j].at = "free" => fileOp'[k].at = "free"
             /\ \A j, k \in FileCalls : j < k /\ fileOp'[k].at = "done" /\ fileOp'[k].out = "ok" => fileOp'[j].at = "done"
  <2>1. \A j \in FileCalls \ {i} : fileOp'[j] = fileOp[j]
    BY <1>6 DEF OnlyCall
  <2>2. \A j, k \in FileCalls : j < k /\ fileOp'[j].at = "free" => fileOp'[k].at = "free"
    BY <1>3, <1>6, <2>1 DEF OrderInv
  <2>3. \A j, k \in FileCalls : j < k /\ fileOp'[k].at = "done" /\ fileOp'[k].out = "ok" => fileOp'[j].at = "done"
    BY <1>1, <1>6, <2>1 DEF OrderInv
  <2> QED BY <2>2, <2>3
<1>7. CASE fileStop
  <2> DEFINE r == [fileOp[i] EXCEPT !.at = "done", !.out = "cancelled"]
  <2>1. r \in CallRec /\ r.at = "done" /\ r.out = "cancelled" /\ r.got = fileOp[i].got
    BY <1>2 DEF CallRec, CallPlaces, Outcomes
  <2>2. fileOp' = [fileOp EXCEPT ![i] = r] /\ lease' = lease
    BY <1>7, <1>2 DEF CallFile, Done
  <2> HIDE DEF r
  <2>3. fileOp' \in [FileCalls -> CallRec] /\ fileOp'[i] = r /\ OnlyCall(i)
    BY <1>5, <2>1, <2>2
  <2>4. \A j \in FileCalls : /\ (fileOp'[j].at = "queued") = (fileOp[j].at = "queued")
                             /\ (fileOp'[j].at \in Held) = (fileOp[j].at \in Held)
    BY <1>1, <2>1, <2>3 DEF Held, OnlyCall
  <2>5. FileTypes'
    BY <1>1, <1>2, <2>2, <2>3 DEF FileTypes, CallRec
  <2>6. WaitersInv'
    <3>1. \A k \in DOMAIN lease.waiters : lease.waiters[k] \in FileCalls
      BY DEF FileTypes
    <3> QED BY <1>2, <2>2, <2>4, <3>1 DEF WaitersInv, Queued
  <2>7. OrderInv'
    <3>1. \A j \in FileCalls : (HoldsLease(j)' <=> HoldsLease(j)) /\ (Queued(j)' <=> Queued(j))
      BY <2>4 DEF HoldsLease, Queued, Held
    <3> QED BY <1>2, <1>6, <2>1, <2>2, <2>3, <3>1 DEF OrderInv
  <2> QED BY <1>1, <2>1, <2>3, <2>5, <2>6, <2>7
<1>8. CASE ~fileStop /\ lease.leased
  <2> DEFINE r == [fileOp[i] EXCEPT !.at = "queued"]
             s == lease.waiters
  <2>1. r \in CallRec /\ r.at = "queued" /\ r.got = fileOp[i].got
    BY <1>2 DEF CallRec, CallPlaces
  <2>2. fileOp' = [fileOp EXCEPT ![i] = r] /\ lease' = [lease EXCEPT !.waiters = Append(s, i)]
    BY <1>8, <1>2 DEF CallFile
  <2> HIDE DEF r
  <2>3. fileOp' \in [FileCalls -> CallRec] /\ fileOp'[i] = r /\ OnlyCall(i)
    BY <1>5, <2>1, <2>2
  <2>4. s \in Seq(FileCalls) /\ Len(s) \in Nat /\ DOMAIN s = 1 .. Len(s) /\ lease.leased \in BOOLEAN
    BY DEF FileTypes
  <2>5. lease' = [leased |-> TRUE, waiters |-> Append(s, i)]
    BY <1>8, <2>2 DEF FileTypes
  <2>6. \A k \in 1 .. Len(s) : s[k] \in FileCalls /\ fileOp[s[k]].at = "queued" /\ s[k] # i
    BY <1>1, <2>4 DEF WaitersInv, Queued
  <2>7. \A k \in 1 .. Len(s) : s[k] < i
    BY <1>3, <1>4, <2>6
  <2>8. \A k, l \in 1 .. Len(s) : k < l => s[k] < s[l]
    BY <2>4 DEF WaitersInv
  <2>9. \A j \in FileCalls : fileOp[j].at = "queued" => \E k \in 1 .. Len(s) : s[k] = j
    BY <2>4 DEF WaitersInv, Queued
  <2>10. /\ Append(s, i) \in Seq(FileCalls) /\ DOMAIN Append(s, i) = 1 .. Len(s) + 1
         /\ Append(s, i)[Len(s) + 1] = i /\ \A k \in 1 .. Len(s) : Append(s, i)[k] = s[k]
    BY <2>4
  <2>11. \A j \in FileCalls \ {i} : fileOp'[j] = fileOp[j]
    BY <2>3 DEF OnlyCall
  <2> DEFINE t == Append(s, i)
  <2> HIDE DEF s, t
  <2>12. FileTypes'
    BY <1>1, <1>2, <2>3, <2>5, <2>10 DEF FileTypes, CallRec, t
  <2>13. lease'.waiters = t /\ DOMAIN t = 1 .. Len(s) + 1 /\ t[Len(s) + 1] = i /\ \A k \in 1 .. Len(s) : t[k] = s[k]
    BY <2>5, <2>10 DEF t
  <2>14. WaitersInv'
    <3>1. \A k \in DOMAIN t : fileOp'[t[k]].at = "queued"
      <4> SUFFICES ASSUME NEW k \in 1 .. Len(s) + 1 PROVE fileOp'[t[k]].at = "queued"
        BY <2>13
      <4>1. CASE k = Len(s) + 1
        BY <2>1, <2>3, <2>13, <4>1
      <4>2. CASE k \in 1 .. Len(s)
        <5>1. t[k] = s[k] /\ s[k] \in FileCalls \ {i} /\ fileOp[s[k]].at = "queued"
          BY <2>6, <2>13, <4>2
        <5> QED BY <2>11, <5>1
      <4> QED BY <2>4, <4>1, <4>2
    <3>2. \A j \in FileCalls : fileOp'[j].at = "queued" => \E k \in DOMAIN t : t[k] = j
      <4> SUFFICES ASSUME NEW j \in FileCalls, fileOp'[j].at = "queued"
                   PROVE  \E k \in 1 .. Len(s) + 1 : t[k] = j
        BY <2>13
      <4>1. CASE j = i
        BY <2>4, <2>13, <4>1
      <4>2. CASE j # i
        <5>1. PICK k \in 1 .. Len(s) : s[k] = j
          BY <2>9, <2>11, <4>2
        <5>2. k \in 1 .. Len(s) + 1 /\ t[k] = j
          BY <2>4, <2>13, <5>1
        <5> QED BY <5>2
      <4> QED BY <4>1, <4>2
    <3>3. \A k, l \in DOMAIN t : k < l => t[k] < t[l]
      <4> SUFFICES ASSUME NEW k \in 1 .. Len(s) + 1, NEW l \in 1 .. Len(s) + 1, k < l
                   PROVE  t[k] < t[l]
        BY <2>13
      <4>1. k \in 1 .. Len(s) /\ t[k] = s[k]
        BY <2>4, <2>13
      <4>2. CASE l = Len(s) + 1
        BY <2>7, <2>13, <4>1, <4>2
      <4>3. CASE l \in 1 .. Len(s)
        BY <2>8, <2>13, <4>1, <4>3
      <4> QED BY <2>4, <4>2, <4>3
    <3> QED BY <1>2, <2>13, <3>1, <3>2, <3>3 DEF WaitersInv, Queued
  <2>15. OrderInv'
    <3>1. \A j \in FileCalls : HoldsLease(j)' <=> HoldsLease(j)
      BY <1>1, <2>1, <2>3, <2>11 DEF HoldsLease
    <3>2. \A j \in FileCalls : Queued(j)' <=> Queued(j) \/ j = i
      BY <2>1, <2>3, <2>11 DEF Queued
    <3>3. \A j \in FileCalls : HoldsLease(j) => j < i
      BY <1>1, <1>3, <1>4 DEF HoldsLease
    <3>4. \A j, k \in FileCalls : HoldsLease(j)' /\ Queued(k)' => j < k
      BY <3>1, <3>2, <3>3 DEF OrderInv
    <3>5. lease'.leased = TRUE /\ \E j \in FileCalls : HoldsLease(j)'
      BY <1>8, <2>5, <3>1 DEF OrderInv
    <3>6. \A j, k \in FileCalls : HoldsLease(j)' /\ HoldsLease(k)' => j = k
      BY <3>1 DEF OrderInv
    <3> QED BY <1>2, <1>6, <2>1, <2>3, <3>4, <3>5, <3>6 DEF OrderInv
  <2> QED BY <1>1, <2>1, <2>3, <2>12, <2>14, <2>15
<1>9. CASE ~fileStop /\ ~lease.leased
  <2> DEFINE r == [fileOp[i] EXCEPT !.at = "granted"]
  <2>1. r \in CallRec /\ r.at = "granted" /\ r.got = fileOp[i].got
    BY <1>2 DEF CallRec, CallPlaces
  <2>2. fileOp' = [fileOp EXCEPT ![i] = r] /\ lease' = [lease EXCEPT !.leased = TRUE]
    BY <1>9, <1>2 DEF CallFile, Granted
  <2> HIDE DEF r
  <2>3. fileOp' \in [FileCalls -> CallRec] /\ fileOp'[i] = r /\ OnlyCall(i)
    BY <1>5, <2>1, <2>2
  <2>4. lease' = [leased |-> TRUE, waiters |-> <<>>] /\ lease.waiters = <<>>
    BY <1>9, <2>2 DEF FileTypes, OrderInv
  <2>5. \A j \in FileCalls : ~HoldsLease(j) /\ ~Queued(j)
    BY <1>9, <2>4 DEF OrderInv, WaitersInv
  <2>6. \A j \in FileCalls : ~Queued(j)' /\ (HoldsLease(j)' <=> j = i)
    BY <2>1, <2>3, <2>5 DEF Queued, HoldsLease, OnlyCall
  <2>7. FileTypes'
    <3>1. <<>> \in Seq(FileCalls)
      OBVIOUS
    <3> QED BY <1>1, <1>2, <2>3, <2>4, <3>1 DEF FileTypes, CallRec
  <2>8. WaitersInv'
    BY <1>2, <2>4, <2>6 DEF WaitersInv
  <2>9. OrderInv'
    BY <1>2, <1>6, <2>1, <2>3, <2>4, <2>6 DEF OrderInv
  <2> QED BY <1>1, <2>1, <2>3, <2>7, <2>8, <2>9
<1> QED BY <1>7, <1>8, <1>9 DEF FileTypes

LEMMA CancelInOrder ==
  ASSUME FileConstantsOK, FileTypes, WaitersInv, OrderInv, NEW i \in FileCalls, CancelWaiter(i)
  PROVE  /\ FileTypes' /\ WaitersInv' /\ OrderInv' /\ OnlyCall(i)
         /\ fileOp[i].at = "queued" /\ fileOp'[i].at = "done" /\ fileOp'[i].out = "cancelled"
<1> DEFINE s == lease.waiters
           t == RemoveFirst(s, i)
           r == [fileOp[i] EXCEPT !.at = "done", !.out = "cancelled"]
<1>1. /\ fileOp[i].at = "queued" /\ fileOp' = Done(fileOp, i, "cancelled")
      /\ lease' = [lease EXCEPT !.waiters = t]
      /\ file' = file /\ fds' = fds /\ content' = content /\ fileStop' = fileStop /\ fileUse' = fileUse
  BY DEF CancelWaiter
<1>2. FileCalls' = FileCalls /\ fileOp \in [FileCalls -> CallRec] /\ fileOp[i] \in CallRec
  BY <1>1 DEF FileCalls, FileTypes, CallRec
<1>3. r \in CallRec /\ r.at = "done" /\ r.out = "cancelled"
  BY <1>2 DEF CallRec, CallPlaces, Outcomes
<1>4. fileOp' = [fileOp EXCEPT ![i] = r]
  BY <1>1, <1>2 DEF Done
<1> HIDE DEF r
<1>5. /\ fileOp' \in [FileCalls -> CallRec] /\ fileOp'[i] = r
      /\ \A j \in FileCalls \ {i} : fileOp'[j] = fileOp[j]
  BY <1>2, <1>3, <1>4
<1> HIDE DEF t
<1>6. /\ s \in Seq(FileCalls) /\ Len(s) \in Nat /\ DOMAIN s = 1 .. Len(s)
      /\ lease.leased \in BOOLEAN /\ lease' = [leased |-> lease.leased, waiters |-> t]
  <2>1. lease \in [leased : BOOLEAN, waiters : Seq(FileCalls)]
    BY DEF FileTypes
  <2>2. lease' = [leased |-> lease.leased, waiters |-> t]
    BY <1>1, <2>1
  <2>3. s \in Seq(FileCalls) /\ lease.leased \in BOOLEAN
    BY <2>1
  <2> HIDE DEF s
  <2> QED BY <2>2, <2>3
<1>7. \A k, l \in 1 .. Len(s) : k < l => s[k] < s[l]
  BY <1>6 DEF WaitersInv
<1>8. \A k \in 1 .. Len(s) : s[k] \in FileCalls /\ fileOp[s[k]].at = "queued" /\ s[k] \in Nat
  <2>1. \A j \in FileCalls : j \in Nat
    BY CallTypes
  <2>2. \A k \in 1 .. Len(s) : s[k] \in FileCalls /\ fileOp[s[k]].at = "queued"
    BY <1>6 DEF WaitersInv, Queued
  <2> QED BY <2>1, <2>2
<1>9. PICK p \in 1 .. Len(s) : s[p] = i
  BY <1>1, <1>6 DEF WaitersInv, Queued
<1> HIDE DEF s, t
<1>10. \A k \in 1 .. Len(s) : s[k] = i => k = p
  BY <1>7, <1>8, <1>9
<1>11. /\ t \in Seq(FileCalls) /\ Len(t) = Len(s) - 1
       /\ \A k \in 1 .. Len(s) - 1 : t[k] = IF k < p THEN s[k] ELSE s[k + 1]
  BY <1>6, <1>9, <1>10, Removed DEF t
<1>12. DOMAIN t = 1 .. Len(s) - 1
  BY <1>6, <1>11
<1>13. FileTypes'
  BY <1>1, <1>2, <1>5, <1>6, <1>11 DEF FileTypes, CallRec
<1>14. WaitersInv'
  <2>1. \A k \in 1 .. Len(s) - 1 : \E l \in 1 .. Len(s) : l # p /\ t[k] = s[l]
    <3> SUFFICES ASSUME NEW k \in 1 .. Len(s) - 1 PROVE \E l \in 1 .. Len(s) : l # p /\ t[k] = s[l]
      OBVIOUS
    <3>1. CASE k < p
      BY <1>6, <1>11, <3>1
    <3>2. CASE ~(k < p)
      <4>1. k + 1 \in 1 .. Len(s) /\ k + 1 # p /\ t[k] = s[k + 1]
        BY <1>6, <1>11, <3>2
      <4> QED BY <4>1
    <3> QED BY <3>1, <3>2
  <2>2. \A k \in 1 .. Len(s) - 1 : fileOp'[t[k]].at = "queued"
    <3> SUFFICES ASSUME NEW k \in 1 .. Len(s) - 1 PROVE fileOp'[t[k]].at = "queued"
      OBVIOUS
    <3>1. PICK l \in 1 .. Len(s) : l # p /\ t[k] = s[l]
      BY <2>1
    <3>2. s[l] \in FileCalls \ {i} /\ fileOp[s[l]].at = "queued"
      BY <1>8, <1>10, <3>1
    <3> QED BY <1>5, <3>1, <3>2
  <2>3. \A j \in FileCalls : fileOp'[j].at = "queued" => \E k \in 1 .. Len(s) - 1 : t[k] = j
    <3> SUFFICES ASSUME NEW j \in FileCalls, fileOp'[j].at = "queued"
                 PROVE  \E k \in 1 .. Len(s) - 1 : t[k] = j
      OBVIOUS
    <3>1. j # i /\ fileOp[j].at = "queued"
      BY <1>3, <1>5
    <3>2. PICK l \in 1 .. Len(s) : s[l] = j
      BY <1>6, <3>1 DEF WaitersInv, Queued, s
    <3>3. l # p
      BY <1>9, <3>1, <3>2
    <3>4. CASE l < p
      <4>1. l \in 1 .. Len(s) - 1 /\ t[l] = s[l]
        BY <1>6, <1>11, <3>4
      <4> QED BY <3>2, <4>1
    <3>5. CASE l > p
      <4>1. l - 1 \in 1 .. Len(s) - 1 /\ ~(l - 1 < p)
        BY <1>6, <3>5
      <4>2. t[l - 1] = s[l - 1 + 1] /\ l - 1 + 1 = l
        BY <1>11, <4>1
      <4> QED BY <3>2, <4>1, <4>2
    <3> QED BY <3>3, <3>4, <3>5
  <2>4. \A k, l \in 1 .. Len(s) - 1 : k < l => t[k] < t[l]
    <3> SUFFICES ASSUME NEW k \in 1 .. Len(s) - 1, NEW l \in 1 .. Len(s) - 1, k < l PROVE t[k] < t[l]
      OBVIOUS
    <3>1. k \in 1 .. Len(s) /\ k + 1 \in 1 .. Len(s) /\ l \in 1 .. Len(s) /\ l + 1 \in 1 .. Len(s)
      BY <1>6
    <3>2. s[k] < s[l] /\ s[k] < s[l + 1] /\ s[k + 1] < s[l + 1]
      BY <1>7, <3>1
    <3> QED BY <1>11, <3>2
  <2> QED BY <1>2, <1>6, <1>12, <2>2, <2>3, <2>4 DEF WaitersInv, Queued
<1>15. OrderInv'
  <2>1. \A j \in FileCalls : (HoldsLease(j)' <=> HoldsLease(j)) /\ (Queued(j)' <=> Queued(j) /\ j # i)
    BY <1>1, <1>3, <1>5 DEF HoldsLease, Queued
  <2>2. \A j \in FileCalls : fileOp'[j].at = "free" <=> fileOp[j].at = "free"
    BY <1>1, <1>3, <1>5
  <2>3. \A j, k \in FileCalls : j < k /\ fileOp'[k].at = "done" /\ fileOp'[k].out = "ok" => fileOp'[j].at = "done"
    BY <1>3, <1>5 DEF OrderInv
  <2>4. lease.leased
    BY <1>6, <1>9 DEF OrderInv, s
  <2> QED BY <1>2, <1>6, <2>1, <2>2, <2>3, <2>4 DEF OrderInv
<1> QED BY <1>1, <1>3, <1>5, <1>13, <1>14, <1>15 DEF OnlyCall

-----------------------------------------------------------------------------
(* The stream.                                                             *)

LEMMA EndsKept ==
  ASSUME FileConstantsOK, FileTypes, fileUse' = fileUse, NEW j, NEW e,
         \A k \in FileCalls : k < j => /\ Moved(k)' <=> Moved(k)
                                       /\ Moved(k) => fileOp'[k] = fileOp[k],
         EndsAt(j, e)
  PROVE  EndsAt(j, e)'
<1>1. FileCalls' = FileCalls
  BY DEF FileCalls
<1>2. CASE e = 0 /\ \A i \in FileCalls : i < j => ~Moved(i)
  BY <1>1, <1>2 DEF EndsAt
<1>3. CASE \E i \in FileCalls : /\ i < j /\ Moved(i) /\ e = fileOp[i].pos + fileOp[i].got
                                /\ \A k \in FileCalls : k < j /\ Moved(k) => k <= i
  <2>1. PICK i \in FileCalls : /\ i < j /\ Moved(i) /\ e = fileOp[i].pos + fileOp[i].got
                               /\ \A k \in FileCalls : k < j /\ Moved(k) => k <= i
    BY <1>3
  <2>2. Moved(i)' /\ e = fileOp'[i].pos + fileOp'[i].got
    BY <2>1
  <2>3. \A k \in FileCalls : k < j /\ Moved(k)' => k <= i
    BY <2>1
  <2> QED BY <1>1, <2>1, <2>2, <2>3 DEF EndsAt
<1> QED BY <1>2, <1>3 DEF EndsAt

(* While i holds the lease, nothing after it has moved anything.           *)
LEMMA Around ==
  ASSUME FileConstantsOK, FileTypes, OrderInv, NEW i \in FileCalls, HoldsLease(i), NEW e
  PROVE  /\ EndsAt(Len(fileUse.calls) + 1, e) <=> EndsAt(i, e)
         /\ \A k \in FileCalls : Moved(k) => k < i
         /\ ~Moved(i)
<1> DEFINE N == Len(fileUse.calls) + 1
<1>1. \A k \in FileCalls : k \in Nat /\ k < N
  <2>1. FileCalls = 1 .. Len(fileUse.calls) /\ Len(fileUse.calls) \in Nat
    BY UseTypes DEF FileTypes
  <2> QED BY <2>1
<1> HIDE DEF N
<1>2. fileOp[i].at # "done" /\ ~Moved(i)
  BY DEF HoldsLease, Moved
<1>3. \A k \in FileCalls : Moved(k) => k < i
  <2> SUFFICES ASSUME NEW k \in FileCalls, Moved(k) PROVE k < i
    OBVIOUS
  <2>1. k # i /\ fileOp[k].at = "done" /\ fileOp[k].out = "ok"
    BY <1>2 DEF Moved
  <2>2. ~(i < k)
    BY <1>2, <2>1 DEF OrderInv
  <2> QED BY <1>1, <2>1, <2>2
<1>4. EndsAt(N, e) => EndsAt(i, e)
  BY <1>1, <1>3 DEF EndsAt
<1>5. EndsAt(i, e) => EndsAt(N, e)
  BY <1>1, <1>3 DEF EndsAt
<1> QED BY <1>2, <1>3, <1>4, <1>5 DEF N

(* A transfer begins where the last one ended.                             *)
LEMMA BeginsAtCursor ==
  ASSUME FileConstantsOK, FileTypes, OrderInv, StreamInv, NEW i \in FileCalls, HoldsLease(i),
         ~Unheard(i), ~fileStop, ~Appends(fileUse.mode)
  PROVE  EndsAt(i, file.cursor) /\ EndsAt(Len(fileUse.calls) + 1, file.cursor)
<1>1. \A j \in FileCalls : ~Unheard(j)
  BY DEF OrderInv, HoldsLease, Unheard
<1>2. EndsAt(Len(fileUse.calls) + 1, file.cursor)
  BY <1>1 DEF StreamInv
<1> QED BY <1>2, Around

(* The file is as open as it was, or the holder has closed it.             *)
OpenAfter(at) ==
  \/ fds' = fds /\ file'.life = file.life /\ file'.asio = file.asio
     /\ (at \in {"work", "io", "moved"} => file.life = "open")
  \/ ClosesFile /\ at \notin {"work", "io", "moved"}

(* Where a step of the holder i leaves the cursor, once its record is r.   *)
Hides(i, r) == r.at = "worked" /\ Sequential(i) /\ r.out = "ok" /\ r.got > 0
StreamAfter(i, r) ==
  ~Appends(fileUse.mode) =>
    /\ (r.at \in {"work", "io", "moved"} /\ Sequential(i)) \/ Hides(i, r) => EndsAt(i, r.pos)
    /\ ~fileStop =>
         \/ file'.cursor = file.cursor /\ ~Unheard(i) /\ ~Hides(i, r)
         \/ /\ file'.cursor = r.pos + r.got /\ r.at = "worked" /\ Sequential(i)
            /\ r.out = "ok" /\ EndsAt(i, r.pos)

LEMMA Continues ==
  ASSUME FileConstantsOK, FileInv, NEW i \in FileCalls, HoldsLease(i), NEW r \in CallRec, r.at \in Held,
         fileOp' = [fileOp EXCEPT ![i] = r], lease' = lease, fileUse' = fileUse, fileStop' = fileStop,
         file' \in [life : Lives, asio : BOOLEAN, cursor : Nat], content' \in Seq(Nat),
         r.at \in {"granted", "pool"} => r.got = 0, OpenAfter(r.at), StreamAfter(i, r)
  PROVE  FileInv'
<1>1. FileTypes /\ WaitersInv /\ OrderInv /\ OpenInv /\ StreamInv
  BY DEF FileInv
<1>2. FileCalls' = FileCalls /\ fileOp \in [FileCalls -> CallRec]
  BY <1>1 DEF FileCalls, FileTypes, CallRec
<1>3. /\ fileOp' \in [FileCalls -> CallRec] /\ fileOp'[i] = r
      /\ \A j \in FileCalls \ {i} : fileOp'[j] = fileOp[j]
  BY <1>2
<1>4. GoesOn(i)
  BY <1>2, <1>3 DEF GoesOn, OnlyCall, HoldsLease, Held
<1>5. FileTypes'
  BY <1>1, <1>2, <1>3 DEF FileTypes, CallRec
<1>6. WaitersInv' /\ OrderInv'
  BY <1>1, <1>4, GoesOnInOrder
<1>7. OpenInv'
  <2>1. \A j \in FileCalls \ {i} : fileOp'[j].at \notin {"work", "io", "moved"}
    BY <1>1, <1>3 DEF OrderInv, HoldsLease
  <2>2. CASE fds' = fds /\ file'.life = file.life /\ file'.asio = file.asio
             /\ (r.at \in {"work", "io", "moved"} => file.life = "open")
    BY <1>1, <1>2, <1>3, <2>1, <2>2 DEF OpenInv
  <2>3. CASE ClosesFile /\ r.at \notin {"work", "io", "moved"}
    <3>1. file'.life = "closed" /\ fds' = {}
      BY <1>1, <2>3 DEF ClosesFile, FileTypes
    <3> QED BY <1>2, <1>3, <2>1, <2>3, <3>1 DEF OpenInv
  <2> QED BY <2>2, <2>3 DEF OpenAfter
<1>8. StreamInv'
  <2>1. \A j \in FileCalls \ {i} : ~Unheard(j) /\ ~HoldsLease(j)
    BY <1>1 DEF OrderInv, HoldsLease, Unheard
  <2>2. ~Moved(i) /\ ~Moved(i)'
    BY <1>3, <1>4 DEF Moved, GoesOn, HoldsLease
  <2>3. \A j \in FileCalls : Sequential(j)' <=> Sequential(j)
    BY DEF Sequential, Called
  <2>4. \A j \in FileCalls \ {i} : /\ Moved(j)' <=> Moved(j)
                                   /\ Unheard(j)' <=> Unheard(j)
    BY <1>3, <2>3 DEF Moved, Unheard
  <2>5. Unheard(i)' <=> Hides(i, r)
    BY <1>3, <2>3 DEF Unheard, Hides
  <2>6. \A k \in FileCalls : /\ Moved(k)' <=> Moved(k)
                             /\ Moved(k) => fileOp'[k] = fileOp[k]
    BY <1>3, <2>2, <2>4
  <2>7. \A j, e : EndsAt(j, e) => EndsAt(j, e)'
    <3> SUFFICES ASSUME NEW j, NEW e, EndsAt(j, e) PROVE EndsAt(j, e)'
      OBVIOUS
    <3> QED BY <1>1, <2>6, EndsKept
  <2>8. \A j \in FileCalls : fileOp'[j].at \in {"free", "queued", "granted", "pool"} => fileOp'[j].got = 0
    BY <1>1, <1>3 DEF StreamInv, Held
  <2>9. ASSUME ~Appends(fileUse.mode), NEW j \in FileCalls,
               Moved(j)' \/ (fileOp'[j].at \in {"work", "io", "moved"} /\ Sequential(j)') \/ Unheard(j)'
        PROVE  EndsAt(j, fileOp[j].pos)'
    <3>1. CASE j = i
      <4>1. EndsAt(i, r.pos)
        BY <1>3, <2>2, <2>3, <2>5, <2>9, <3>1 DEF StreamAfter
      <4> QED BY <1>3, <2>7, <3>1, <4>1
    <3>2. CASE j # i
      <4>1. fileOp'[j] = fileOp[j] /\ EndsAt(j, fileOp[j].pos)
        BY <1>1, <1>3, <2>3, <2>4, <2>9, <3>2 DEF StreamInv
      <4> QED BY <2>7, <4>1
    <3> QED BY <3>1, <3>2
  <2>10. ASSUME ~Appends(fileUse.mode), ~fileStop
         PROVE  /\ \A j \in FileCalls : Unheard(j)' => file'.cursor = fileOp'[j].pos + fileOp'[j].got
                /\ (\A j \in FileCalls : ~Unheard(j)') => EndsAt(Len(fileUse.calls) + 1, file.cursor)'
    <3>1. CASE file'.cursor = file.cursor /\ ~Unheard(i) /\ ~Hides(i, r)
      <4>1. \A j \in FileCalls : ~Unheard(j)'
        BY <2>1, <2>4, <2>5, <3>1
      <4>2. EndsAt(Len(fileUse.calls) + 1, file.cursor)
        BY <1>1, <2>10, <3>1, BeginsAtCursor
      <4>3. EndsAt(Len(fileUse.calls) + 1, file.cursor)'
        <5>1. PICK e : e = file.cursor
          OBVIOUS
        <5>2. EndsAt(Len(fileUse.calls) + 1, e)'
          BY <2>7, <4>2, <5>1
        <5> QED BY <3>1, <5>1, <5>2
      <4> QED BY <3>1, <4>1, <4>3
    <3>2. CASE file'.cursor = r.pos + r.got /\ r.at = "worked" /\ Sequential(i) /\ r.out = "ok" /\ EndsAt(i, r.pos)
      <4>1. \A j \in FileCalls : Unheard(j)' => file'.cursor = fileOp'[j].pos + fileOp'[j].got
        BY <1>3, <2>1, <2>4, <3>2
      <4>2. ASSUME \A j \in FileCalls : ~Unheard(j)'
            PROVE  EndsAt(Len(fileUse.calls) + 1, file.cursor)'
        <5>1. r.got = 0 /\ r.pos \in Nat
          BY <2>5, <3>2, <4>2 DEF Hides, CallRec
        <5>2. file'.cursor = r.pos /\ EndsAt(Len(fileUse.calls) + 1, r.pos)
          BY <1>1, <3>2, <5>1, Around
        <5>3. EndsAt(Len(fileUse.calls) + 1, r.pos)'
          BY <2>7, <5>2
        <5> QED BY <5>2, <5>3
      <4> QED BY <4>1, <4>2
    <3> QED BY <2>10, <3>1, <3>2 DEF StreamAfter
  <2> QED BY <1>2, <2>8, <2>9, <2>10 DEF StreamInv
<1> QED BY <1>5, <1>6, <1>7, <1>8 DEF FileInv

(* The holder returns out, and the cursor is where the script believes it. *)
LEMMA Returned ==
  ASSUME FileConstantsOK, FileInv, NEW i \in FileCalls, HoldsLease(i), NEW out \in Outcomes,
         Returns(i, out), fileUse' = fileUse, fileStop' = fileStop,
         file' \in [life : Lives, asio : BOOLEAN, cursor : Nat], content' = content, OpenAfter("done"),
         ~Appends(fileUse.mode) =>
           LET moves == Sequential(i) /\ out = "ok" /\ fileOp[i].got > 0 IN
           /\ moves => EndsAt(i, fileOp[i].pos)
           /\ ~fileStop => IF moves THEN file'.cursor = fileOp[i].pos + fileOp[i].got
                           ELSE EndsAt(Len(fileUse.calls) + 1, file'.cursor)
  PROVE  FileInv'
<1> DEFINE moves == Sequential(i) /\ out = "ok" /\ fileOp[i].got > 0
           w == Head(lease.waiters)
<1>1. FileTypes /\ WaitersInv /\ OrderInv /\ OpenInv /\ StreamInv
  BY DEF FileInv
<1>2. FileCalls' = FileCalls /\ \A j \in FileCalls : Sequential(j)' <=> Sequential(j)
  BY DEF FileCalls, Sequential, Called
<1>3. /\ HandsOver(i, out) /\ fileOp' \in [FileCalls -> CallRec]
      /\ lease' \in [leased : BOOLEAN, waiters : Seq(FileCalls)]
  BY <1>1, ReturnsHandsOver
<1>4. FileTypes'
  BY <1>1, <1>2, <1>3 DEF FileTypes, CallRec
<1>5. WaitersInv' /\ OrderInv'
  BY <1>1, <1>3, HandsOverInOrder
<1>6. /\ fileOp'[i].at = "done" /\ fileOp'[i].out = out
      /\ fileOp'[i].pos = fileOp[i].pos /\ fileOp'[i].got = fileOp[i].got
  <2>1. fileOp[i] \in CallRec
    BY <1>1, CallTypes
  <2> QED BY <1>3, <2>1 DEF HandsOver, CallRec
<1>7. \A j \in FileCalls \ {i} :
        \/ fileOp'[j] = fileOp[j]
        \/ fileOp[j].at = "queued" /\ fileOp'[j].at = "granted" /\ fileOp'[j].got = fileOp[j].got
  <2>1. CASE lease.waiters = <<>>
    BY <1>3, <2>1 DEF HandsOver, OnlyCall
  <2>2. CASE lease.waiters # <<>>
    <3>1. w \in FileCalls /\ fileOp[w].at = "queued"
      BY <1>1, <2>2, FirstWaits DEF Queued
    <3>2. fileOp[w] \in CallRec
      BY <1>1, <3>1, CallTypes
    <3>3. /\ fileOp'[w] = [fileOp[w] EXCEPT !.at = "granted"]
          /\ \A j \in FileCalls \ {i, w} : fileOp'[j] = fileOp[j]
      BY <1>3, <2>2 DEF HandsOver
    <3> HIDE DEF w
    <3>4. fileOp'[w].at = "granted" /\ fileOp'[w].got = fileOp[w].got
      BY <3>2, <3>3 DEF CallRec
    <3> QED BY <3>1, <3>3, <3>4
  <2> QED BY <2>1, <2>2
<1> HIDE DEF moves, w
<1>8. \A j \in FileCalls : fileOp'[j].at \notin {"work", "io", "moved", "worked", "pool"}
  <2>1. \A j \in FileCalls \ {i} : ~HoldsLease(j)
    BY <1>1 DEF OrderInv
  <2> QED BY <1>6, <1>7, <2>1 DEF HoldsLease
<1>9. OpenInv'
  <2>1. CASE fds' = fds /\ file'.life = file.life /\ file'.asio = file.asio
    BY <1>1, <1>2, <1>8, <2>1 DEF OpenInv
  <2>2. CASE ClosesFile
    <3>1. file'.life = "closed" /\ fds' = {}
      BY <1>1, <2>2 DEF ClosesFile, FileTypes
    <3> QED BY <1>2, <1>8, <3>1 DEF OpenInv
  <2> QED BY <2>1, <2>2 DEF OpenAfter
<1>10. StreamInv'
  <2>1. ~Moved(i) /\ \A k \in FileCalls : Moved(k) => k < i
    BY <1>1, Around
  <2>2. Moved(i)' <=> moves
    BY <1>2, <1>6 DEF Moved, moves
  <2>3. \A j \in FileCalls \ {i} : /\ Moved(j)' <=> Moved(j)
                                   /\ Moved(j) => fileOp'[j] = fileOp[j]
    BY <1>2, <1>7 DEF Moved
  <2>4. \A j \in FileCalls : ~Unheard(j)'
    BY <1>2, <1>8 DEF Unheard
  <2>5. i \in Nat /\ \A k \in FileCalls : k \in Nat /\ k < Len(fileUse.calls) + 1
    <3>1. FileCalls = 1 .. Len(fileUse.calls) /\ Len(fileUse.calls) \in Nat
      BY <1>1, UseTypes DEF FileTypes
    <3> QED BY <3>1
  <2>6. \A j \in FileCalls : \A e : j <= i /\ EndsAt(j, e) => EndsAt(j, e)'
    <3> SUFFICES ASSUME NEW j \in FileCalls, NEW e, j <= i, EndsAt(j, e) PROVE EndsAt(j, e)'
      OBVIOUS
    <3>1. \A k \in FileCalls : k < j => /\ Moved(k)' <=> Moved(k)
                                        /\ Moved(k) => fileOp'[k] = fileOp[k]
      BY <2>3, <2>5
    <3> QED BY <1>1, <3>1, EndsKept
  <2>7. \A j \in FileCalls : fileOp'[j].at \in {"free", "queued", "granted", "pool"} => fileOp'[j].got = 0
    BY <1>1, <1>6, <1>7 DEF StreamInv
  <2>8. ASSUME ~Appends(fileUse.mode), NEW j \in FileCalls, Moved(j)'
        PROVE  EndsAt(j, fileOp[j].pos)'
    <3>1. CASE j = i
      <4>1. EndsAt(i, fileOp[i].pos)
        BY <2>2, <2>8, <3>1 DEF moves
      <4>2. EndsAt(i, fileOp[i].pos) => EndsAt(i, fileOp[i].pos)'
        <5>1. PICK e : e = fileOp[i].pos
          OBVIOUS
        <5>2. EndsAt(i, e) => EndsAt(i, e)'
          BY <2>5, <2>6
        <5> QED BY <1>6, <5>1, <5>2
      <4> QED BY <3>1, <4>1, <4>2
    <3>2. CASE j # i
      <4>1. fileOp'[j] = fileOp[j] /\ Moved(j) /\ j <= i
        BY <2>1, <2>3, <2>5, <2>8, <3>2
      <4>2. PICK e : e = fileOp[j].pos
        OBVIOUS
      <4>3. EndsAt(j, e)
        BY <1>1, <2>8, <4>1, <4>2 DEF StreamInv
      <4>4. EndsAt(j, e)'
        BY <2>6, <4>1, <4>3
      <4> QED BY <4>1, <4>2, <4>4
    <3> QED BY <3>1, <3>2
  <2>9. ASSUME ~Appends(fileUse.mode), ~fileStop
        PROVE  EndsAt(Len(fileUse.calls) + 1, file.cursor)'
    <3>1. CASE moves
      <4>1. i < Len(fileUse.calls) + 1 /\ Moved(i)'
        BY <2>2, <2>5, <3>1
      <4>2. file'.cursor = fileOp'[i].pos + fileOp'[i].got
        BY <1>6, <2>9, <3>1 DEF moves
      <4>3. ASSUME NEW k \in FileCalls, Moved(k)' PROVE k <= i
        <5>1. k = i \/ k < i
          BY <2>1, <2>3, <4>3
        <5>2. i \in Nat /\ k \in Nat
          BY <2>5
        <5> QED BY <5>1, <5>2
      <4> QED BY <1>2, <4>1, <4>2, <4>3 DEF EndsAt
    <3>2. CASE ~moves
      <4>1. PICK e : e = file'.cursor
        OBVIOUS
      <4>2. EndsAt(Len(fileUse.calls) + 1, e)
        BY <2>9, <3>2, <4>1 DEF moves
      <4>3. \A k \in FileCalls : /\ Moved(k)' <=> Moved(k)
                                 /\ Moved(k) => fileOp'[k] = fileOp[k]
        BY <2>1, <2>2, <2>3, <3>2
      <4>4. EndsAt(Len(fileUse.calls) + 1, e)'
        BY <1>1, <4>2, <4>3, EndsKept
      <4> QED BY <4>1, <4>4
    <3> QED BY <3>1, <3>2
  <2>10. \A j \in FileCalls : fileOp'[j].at \notin {"work", "io", "moved"}
    BY <1>8
  <2> QED BY <1>2, <2>4, <2>7, <2>8, <2>9, <2>10 DEF StreamInv
<1> QED BY <1>4, <1>5, <1>9, <1>10 DEF FileInv

-----------------------------------------------------------------------------
(* The steps that leave the calls alone.                                   *)

LEMMA Quiet ==
  ASSUME FileConstantsOK, FileTypes, WaitersInv, OrderInv, StreamInv, fileOp' = fileOp, lease' = lease,
         fileUse' = fileUse, file'.cursor = file.cursor, fileStop' = fileStop \/ fileStop' = TRUE
  PROVE  WaitersInv' /\ OrderInv' /\ StreamInv'
<1>1. FileCalls' = FileCalls
  BY DEF FileCalls
<1>2. WaitersInv'
  BY <1>1 DEF WaitersInv, Queued
<1>3. OrderInv'
  BY <1>1 DEF OrderInv, Queued, HoldsLease
<1>4. StreamInv'
  <2>1. \A j : (Sequential(j)' <=> Sequential(j)) /\ (Moved(j)' <=> Moved(j)) /\ (Unheard(j)' <=> Unheard(j))
    BY DEF Sequential, Called, Moved, Unheard
  <2>2. \A j, e : EndsAt(j, e) => EndsAt(j, e)'
    <3> SUFFICES ASSUME NEW j, NEW e, EndsAt(j, e) PROVE EndsAt(j, e)'
      OBVIOUS
    <3> QED BY <2>1, EndsKept
  <2>3. \A j \in FileCalls : fileOp'[j].at \in {"free", "queued", "granted", "pool"} => fileOp'[j].got = 0
    BY DEF StreamInv
  <2>4. ASSUME ~Appends(fileUse.mode), NEW j \in FileCalls,
               Moved(j)' \/ (fileOp'[j].at \in {"work", "io", "moved"} /\ Sequential(j)') \/ Unheard(j)'
        PROVE  EndsAt(j, fileOp[j].pos)'
    <3>1. EndsAt(j, fileOp[j].pos)
      BY <2>1, <2>4 DEF StreamInv
    <3>2. PICK e : e = fileOp[j].pos
      OBVIOUS
    <3>3. EndsAt(j, e)'
      BY <2>2, <3>1, <3>2
    <3> QED BY <3>2, <3>3
  <2>5. ASSUME ~Appends(fileUse.mode), ~fileStop'
        PROVE  /\ \A j \in FileCalls : Unheard(j)' => file'.cursor = fileOp'[j].pos + fileOp'[j].got
               /\ (\A j \in FileCalls : ~Unheard(j)') => EndsAt(Len(fileUse.calls) + 1, file.cursor)'
    <3>1. ~fileStop
      BY <2>5
    <3>2. \A j \in FileCalls : Unheard(j)' => file'.cursor = fileOp'[j].pos + fileOp'[j].got
      BY <2>1, <2>5, <3>1 DEF StreamInv
    <3>3. ASSUME \A j \in FileCalls : ~Unheard(j)'
          PROVE  EndsAt(Len(fileUse.calls) + 1, file.cursor)'
      <4>1. PICK e : e = file.cursor
        OBVIOUS
      <4>2. EndsAt(Len(fileUse.calls) + 1, e)
        BY <2>1, <2>5, <3>1, <3>3, <4>1 DEF StreamInv
      <4>3. EndsAt(Len(fileUse.calls) + 1, e)'
        BY <2>2, <4>2
      <4> QED BY <4>1, <4>3
    <3> QED BY <3>2, <3>3
  <2> QED BY <1>1, <2>3, <2>4, <2>5 DEF StreamInv
<1> QED BY <1>2, <1>3, <1>4

LEMMA OpeningKeeps ==
  ASSUME FileConstantsOK, FileInv, OpenCalled \/ OpenWorks \/ OpenResumes
  PROVE  FileInv'
<1>1. FileTypes /\ WaitersInv /\ OrderInv /\ OpenInv /\ StreamInv
  BY DEF FileInv
<1>2. fileOp' = fileOp /\ lease' = lease /\ fileUse' = fileUse /\ fileStop' = fileStop
  BY DEF OpenCalled, OpenWorks, OpenResumes
<1>3. FileCalls' = FileCalls
  BY <1>2 DEF FileCalls
<1>4. /\ file \in [life : Lives, asio : BOOLEAN, cursor : Nat]
      /\ file.life \in {"unopened", "opening", "prepared"}
      /\ \A j \in FileCalls : fileOp[j].at \notin {"work", "io", "moved"}
  BY <1>1 DEF FileTypes, OpenInv, OpenCalled, OpenWorks, OpenResumes
<1>5. ASSUME file' \in [life : Lives, asio : BOOLEAN, cursor : Nat], file'.cursor = file.cursor, content' \in Seq(Nat),
             fds' # {} => file'.life \in {"prepared", "open"},
             file'.life = "open" => fds' = {"data", "control"} \/ (~file'.asio /\ fds' \in {{"data"}, {"control"}})
      PROVE  FileInv'
  <2>1. WaitersInv' /\ OrderInv' /\ StreamInv'
    BY <1>1, <1>2, <1>5, Quiet
  <2>2. FileTypes'
    BY <1>1, <1>2, <1>3, <1>5 DEF FileTypes
  <2>3. OpenInv'
    BY <1>2, <1>3, <1>4, <1>5 DEF OpenInv
  <2> QED BY <2>1, <2>2, <2>3 DEF FileInv
<1>6. content \in Seq(Nat)
  BY <1>1 DEF FileTypes
<1>7. CASE OpenCalled
  <2>1. /\ fds' = fds /\ content' = content
        /\ \E life \in {"failed", "opening"} : file' = [file EXCEPT !.life = life]
    BY <1>7 DEF OpenCalled
  <2>2. fds = {}
    BY <1>1, <1>7 DEF OpenInv, OpenCalled
  <2>3. /\ file' \in [life : Lives, asio : BOOLEAN, cursor : Nat] /\ file'.cursor = file.cursor
        /\ file'.life \in {"failed", "opening"}
    BY <1>4, <2>1 DEF Lives
  <2> QED BY <1>5, <1>6, <2>1, <2>2, <2>3
<1>8. CASE OpenWorks
  <2>1. file' = [file EXCEPT !.life = "prepared"] /\ content' \in {<<>>, content}
    BY <1>8 DEF OpenWorks
  <2>2. <<>> \in Seq(Nat)
    OBVIOUS
  <2>3. /\ file' \in [life : Lives, asio : BOOLEAN, cursor : Nat] /\ file'.cursor = file.cursor
        /\ file'.life = "prepared"
    BY <1>4, <2>1 DEF Lives
  <2> QED BY <1>5, <1>6, <2>1, <2>2, <2>3
<1>9. CASE OpenResumes
  <2>1. PICK owned \in {{}, {"data"}, {"control"}, {"data", "control"}} :
          /\ fds' = owned
          /\ file' = [file EXCEPT !.life = IF owned = {} THEN "failed" ELSE "open",
                                  !.asio = owned = {"data", "control"}]
    <3>1. PICK fault \in {"none"} \cup fileUse.openFaults :
            LET owned == IF fileStop \/ fds = {} THEN {} ELSE Owned(fault) IN
            /\ fds' = owned
            /\ file' = [file EXCEPT !.life = IF owned = {} THEN "failed" ELSE "open",
                                    !.asio = owned = {"data", "control"}]
      BY <1>9 DEF OpenResumes
    <3>2. fileUse.openFaults \subseteq {"dup", "state", "assign", "alloc"}
      <4>1. fileUse \in FileUse
        BY <1>1 DEF FileTypes, FileConstantsOK
      <4> QED BY <4>1 DEF FileUse
    <3>3. Owned(fault) \in {{}, {"data"}, {"control"}, {"data", "control"}}
      BY <3>2 DEF Owned, Adopted
    <3> QED BY <3>1, <3>3
  <2>2. /\ file' \in [life : Lives, asio : BOOLEAN, cursor : Nat] /\ file'.cursor = file.cursor
        /\ file'.life = (IF owned = {} THEN "failed" ELSE "open")
        /\ file'.asio <=> owned = {"data", "control"}
    BY <1>4, <2>1 DEF Lives
  <2>3. content' = content
    BY <1>9 DEF OpenResumes
  <2>4. fds' # {} => file'.life \in {"prepared", "open"}
    BY <2>1, <2>2
  <2>5. file'.life = "open" => fds' = {"data", "control"} \/ (~file'.asio /\ fds' \in {{"data"}, {"control"}})
    BY <2>1, <2>2
  <2> QED BY <1>5, <1>6, <2>2, <2>3, <2>4, <2>5
<1> QED BY <1>7, <1>8, <1>9

LEMMA OutsideKeeps ==
  ASSUME FileConstantsOK, FileInv, OthersAppend \/ StopFiles
  PROVE  FileInv'
<1>1. FileTypes /\ WaitersInv /\ OrderInv /\ OpenInv /\ StreamInv
  BY DEF FileInv
<1>2. /\ fileOp' = fileOp /\ lease' = lease /\ fileUse' = fileUse /\ file' = file /\ fds' = fds
      /\ fileStop' = fileStop \/ fileStop' = TRUE
      /\ content' = content \/ content' = Append(content, 0)
  BY DEF OthersAppend, StopFiles
<1>3. FileCalls' = FileCalls
  BY <1>2 DEF FileCalls
<1>4. FileTypes'
  <2>1. content \in Seq(Nat)
    BY <1>1 DEF FileTypes
  <2>2. content' \in Seq(Nat)
    BY <1>2, <2>1
  <2> QED BY <1>1, <1>2, <1>3, <2>2 DEF FileTypes
<1>5. OpenInv'
  BY <1>1, <1>2, <1>3 DEF OpenInv
<1>6. WaitersInv' /\ OrderInv' /\ StreamInv'
  BY <1>1, <1>2, Quiet
<1> QED BY <1>4, <1>5, <1>6 DEF FileInv

(* A call comes to the queue, or leaves it because the runtime stops.      *)
LEMMA QueueKeeps ==
  ASSUME FileConstantsOK, FileInv, NEW i \in FileCalls, CallFile(i) \/ CancelWaiter(i)
  PROVE  FileInv'
<1>1. FileTypes /\ WaitersInv /\ OrderInv /\ OpenInv /\ StreamInv
  BY DEF FileInv
<1>2. file' = file /\ fds' = fds /\ content' = content /\ fileUse' = fileUse /\ fileStop' = fileStop
  BY DEF CallFile, CancelWaiter
<1>3. FileCalls' = FileCalls
  BY <1>2 DEF FileCalls
<1>4. /\ FileTypes' /\ WaitersInv' /\ OrderInv' /\ OnlyCall(i)
      /\ fileOp[i].at \in {"free", "queued"} /\ fileOp'[i].at \in {"queued", "granted", "done"}
      /\ fileOp'[i].out # "ok" \/ fileOp'[i].at # "done"
      /\ fileOp'[i].at # "done" => fileOp'[i].got = fileOp[i].got
  BY <1>1, CallInOrder, CancelInOrder
<1>5. \A j \in FileCalls \ {i} : fileOp'[j] = fileOp[j]
  BY <1>4 DEF OnlyCall
<1>6. OpenInv'
  BY <1>1, <1>2, <1>3, <1>4, <1>5 DEF OpenInv
<1>7. StreamInv'
  <2>1. ~Moved(i) /\ ~Moved(i)' /\ ~Unheard(i) /\ ~Unheard(i)'
    BY <1>4 DEF Moved, Unheard
  <2>2. \A j \in FileCalls : Sequential(j)' <=> Sequential(j)
    BY <1>2 DEF Sequential, Called
  <2>3. \A j \in FileCalls : /\ Moved(j)' <=> Moved(j)
                             /\ Unheard(j)' <=> Unheard(j)
                             /\ Moved(j) \/ Unheard(j) => fileOp'[j] = fileOp[j]
    BY <1>5, <2>1, <2>2 DEF Moved, Unheard
  <2>4. \A j, e : EndsAt(j, e) => EndsAt(j, e)'
    <3> SUFFICES ASSUME NEW j, NEW e, EndsAt(j, e) PROVE EndsAt(j, e)'
      OBVIOUS
    <3> QED BY <1>1, <1>2, <2>3, EndsKept
  <2>5. \A j \in FileCalls : fileOp'[j].at \in {"free", "queued", "granted", "pool"} => fileOp'[j].got = 0
    BY <1>1, <1>4, <1>5 DEF StreamInv
  <2>6. ASSUME ~Appends(fileUse.mode), NEW j \in FileCalls,
               Moved(j)' \/ (fileOp'[j].at \in {"work", "io", "moved"} /\ Sequential(j)') \/ Unheard(j)'
        PROVE  EndsAt(j, fileOp[j].pos)'
    <3>1. j # i
      BY <1>4, <2>1, <2>6
    <3>2. EndsAt(j, fileOp[j].pos)
      BY <1>1, <1>5, <2>2, <2>3, <2>6, <3>1 DEF StreamInv
    <3>3. PICK e : e = fileOp[j].pos
      OBVIOUS
    <3>4. EndsAt(j, e)'
      BY <2>4, <3>2, <3>3
    <3> QED BY <1>5, <3>1, <3>3, <3>4
  <2>7. ASSUME ~Appends(fileUse.mode), ~fileStop
        PROVE  /\ \A j \in FileCalls : Unheard(j)' => file'.cursor = fileOp'[j].pos + fileOp'[j].got
               /\ (\A j \in FileCalls : ~Unheard(j)') => EndsAt(Len(fileUse.calls) + 1, file.cursor)'
    <3>1. \A j \in FileCalls : Unheard(j)' => file'.cursor = fileOp'[j].pos + fileOp'[j].got
      BY <1>1, <1>2, <2>3, <2>7 DEF StreamInv
    <3>2. ASSUME \A j \in FileCalls : ~Unheard(j)'
          PROVE  EndsAt(Len(fileUse.calls) + 1, file.cursor)'
      <4>1. PICK e : e = file.cursor
        OBVIOUS
      <4>2. EndsAt(Len(fileUse.calls) + 1, e)
        BY <1>1, <2>3, <2>7, <3>2, <4>1 DEF StreamInv
      <4>3. EndsAt(Len(fileUse.calls) + 1, e)'
        BY <1>2, <2>4, <4>2
      <4> QED BY <1>2, <4>1, <4>3
    <3> QED BY <3>1, <3>2
  <2> QED BY <1>2, <1>3, <2>5, <2>6, <2>7 DEF StreamInv
<1> QED BY <1>4, <1>6, <1>7 DEF FileInv

-----------------------------------------------------------------------------
(* The steps of the holder.                                                *)

(* A return that leaves the cursor alone tells of nothing moved.           *)
LEMMA ReturnsEarly ==
  ASSUME FileConstantsOK, FileInv, NEW i \in FileCalls, HoldsLease(i), ~Unheard(i), NEW out \in Outcomes,
         out # "ok" \/ ~Sequential(i) \/ fileOp[i].got = 0,
         Returns(i, out), fileUse' = fileUse, fileStop' = fileStop, content' = content,
         file' \in [life : Lives, asio : BOOLEAN, cursor : Nat], file'.cursor = file.cursor, OpenAfter("done")
  PROVE  FileInv'
<1> DEFINE moves == Sequential(i) /\ out = "ok" /\ fileOp[i].got > 0
<1>1. ~moves
  OBVIOUS
<1>2. ~fileStop /\ ~Appends(fileUse.mode) => EndsAt(Len(fileUse.calls) + 1, file'.cursor)
  BY BeginsAtCursor DEF FileInv
<1> HIDE DEF moves
<1> QED BY <1>1, <1>2, Returned DEF moves

(* What stays of the file when nothing closes it.                          *)
LEMMA FileStays ==
  ASSUME FileTypes, file' = file
  PROVE  file' \in [life : Lives, asio : BOOLEAN, cursor : Nat] /\ file'.cursor = file.cursor
BY DEF FileTypes

LEMMA FileCloses ==
  ASSUME FileTypes, ClosesFile
  PROVE  file' \in [life : Lives, asio : BOOLEAN, cursor : Nat] /\ file'.cursor = file.cursor
<1>1. file \in [life : Lives, asio : BOOLEAN, cursor : Nat]
  BY DEF FileTypes
<1>2. file' = [file EXCEPT !.life = "closed", !.asio = FALSE]
  BY DEF ClosesFile
<1> QED BY <1>1, <1>2 DEF Lives

(* A granted call is handed to a worker.                                   *)
LEMMA ToPool ==
  ASSUME FileConstantsOK, FileInv, NEW i \in FileCalls, fileOp[i].at = "granted",
         fileOp' = [fileOp EXCEPT ![i].at = "pool"], lease' = lease,
         UNCHANGED <<file, fds, content, fileStop, outside, fileUse>>
  PROVE  FileInv'
<1> DEFINE r == [fileOp[i] EXCEPT !.at = "pool"]
<1>1. FileTypes /\ StreamInv /\ fileOp[i] \in CallRec
  BY CallTypes DEF FileInv
<1>2. r \in CallRec /\ r.at = "pool" /\ r.got = 0
  BY <1>1 DEF CallRec, CallPlaces, StreamInv
<1>3. fileOp' = [fileOp EXCEPT ![i] = r]
  BY <1>1 DEF FileTypes
<1> HIDE DEF r
<1>4. HoldsLease(i) /\ ~Unheard(i) /\ r.at \in Held /\ ~Hides(i, r)
  BY <1>2 DEF HoldsLease, Unheard, Held, Hides
<1>5. /\ file' \in [life : Lives, asio : BOOLEAN, cursor : Nat] /\ file'.cursor = file.cursor
      /\ content' \in Seq(Nat)
  BY <1>1 DEF FileTypes
<1>6. OpenAfter(r.at)
  BY <1>2 DEF OpenAfter
<1>7. StreamAfter(i, r)
  BY <1>2, <1>4, <1>5 DEF StreamAfter
<1> QED BY <1>2, <1>3, <1>4, <1>5, <1>6, <1>7, Continues

(* A transfer begins, through io_uring or in a worker.                     *)
LEMMA Begins ==
  ASSUME FileConstantsOK, FileInv, NEW i \in FileCalls, fileOp[i].at \in {"granted", "pool"},
         NEW at \in {"io", "work"}, Early(i) = "none", ~fileStop,
         fileOp' = Moves(i, at), lease' = lease,
         UNCHANGED <<file, fds, content, fileStop, outside, fileUse>>
  PROVE  FileInv'
<1> DEFINE r == [fileOp[i] EXCEPT !.at = at, !.pos = Base(i)]
<1>1. FileTypes /\ OrderInv /\ StreamInv /\ fileOp[i] \in CallRec /\ Base(i) \in Nat
  BY CallTypes DEF FileInv
<1>2. r \in CallRec /\ r.at = at /\ r.pos = Base(i)
  BY <1>1 DEF CallRec, CallPlaces
<1>3. fileOp' = [fileOp EXCEPT ![i] = r]
  BY <1>1 DEF FileTypes, Moves
<1> HIDE DEF r
<1>4. HoldsLease(i) /\ ~Unheard(i) /\ r.at \in Held /\ ~Hides(i, r)
  BY <1>2 DEF HoldsLease, Unheard, Held, Hides
<1>5. /\ file' \in [life : Lives, asio : BOOLEAN, cursor : Nat] /\ file'.cursor = file.cursor
      /\ content' \in Seq(Nat)
  BY <1>1 DEF FileTypes
<1>6. OpenAfter(r.at)
  BY <1>2 DEF OpenAfter, Early
<1>7. StreamAfter(i, r)
  <2>1. ~Appends(fileUse.mode) /\ Sequential(i) => EndsAt(i, r.pos)
    BY <1>1, <1>2, <1>4, BeginsAtCursor DEF Base
  <2> QED BY <2>1, <1>4, <1>5 DEF StreamAfter
<1> QED BY <1>2, <1>3, <1>4, <1>5, <1>6, <1>7, Continues

LEMMA EarlyOutcome ==
  ASSUME NEW i
  PROVE  Early(i) \in Outcomes
BY DEF Early, Outcomes

LEMMA StartsTransferKeeps ==
  ASSUME FileConstantsOK, FileInv, NEW i \in FileCalls, StartsTransfer(i)
  PROVE  FileInv'
<1>1. /\ fileOp[i].at = "granted" /\ UNCHANGED <<file, fds, content, fileStop, outside, fileUse>>
      /\ FileTypes /\ StreamInv
  BY DEF StartsTransfer, FileInv
<1>2. HoldsLease(i) /\ ~Unheard(i) /\ fileOp[i].got = 0 /\ OpenAfter("done")
  BY <1>1 DEF HoldsLease, Unheard, StreamInv, OpenAfter
<1>3. ASSUME NEW out \in Outcomes, Returns(i, out) PROVE FileInv'
  BY <1>1, <1>2, <1>3, FileStays, ReturnsEarly
<1>4. \/ \E out \in {"cancelled", "error", Early(i)} : Returns(i, out)
      \/ ~fileStop /\ Early(i) = "none" /\ fileOp' = Moves(i, "io") /\ lease' = lease
      \/ fileOp' = [fileOp EXCEPT ![i].at = "pool"] /\ lease' = lease
  BY DEF StartsTransfer
<1>5. {"cancelled", "error", Early(i)} \subseteq Outcomes
  BY EarlyOutcome DEF Outcomes
<1> QED BY <1>1, <1>3, <1>4, <1>5, Begins, ToPool

LEMMA StartsControlKeeps ==
  ASSUME FileConstantsOK, FileInv, NEW i \in FileCalls, StartsControl(i)
  PROVE  FileInv'
<1>1. /\ fileOp[i].at = "granted" /\ UNCHANGED <<file, fds, content, fileStop, outside, fileUse>>
      /\ FileTypes /\ StreamInv
  BY DEF StartsControl, FileInv
<1>2. HoldsLease(i) /\ ~Unheard(i) /\ fileOp[i].got = 0 /\ OpenAfter("done")
  BY <1>1 DEF HoldsLease, Unheard, StreamInv, OpenAfter
<1>3. CASE Returns(i, "cancelled")
  <2>1. "cancelled" \in Outcomes
    BY DEF Outcomes
  <2> QED BY <1>1, <1>2, <1>3, <2>1, FileStays, ReturnsEarly
<1>4. CASE fileOp' = [fileOp EXCEPT ![i].at = "pool"] /\ lease' = lease
  BY <1>1, <1>4, ToPool
<1> QED BY <1>3, <1>4 DEF StartsControl

LEMMA StartsCloseKeeps ==
  ASSUME FileConstantsOK, FileInv, NEW i \in FileCalls, StartsClose(i)
  PROVE  FileInv'
<1>1. /\ fileOp[i].at = "granted" /\ UNCHANGED <<content, fileStop, outside, fileUse>>
      /\ FileTypes /\ StreamInv
  BY DEF StartsClose, FileInv
<1>2. HoldsLease(i) /\ ~Unheard(i) /\ fileOp[i].got = 0
  BY <1>1 DEF HoldsLease, Unheard, StreamInv
<1>3. "cancelled" \in Outcomes /\ "ok" \in Outcomes
  BY DEF Outcomes
<1>4. CASE Returns(i, "ok") /\ ClosesFile
  <2>1. OpenAfter("done")
    BY <1>4 DEF OpenAfter
  <2> QED BY <1>1, <1>2, <1>3, <1>4, <2>1, FileCloses, ReturnsEarly
<1>5. CASE Returns(i, "cancelled") /\ UNCHANGED <<file, fds>>
  <2>1. OpenAfter("done")
    BY <1>5 DEF OpenAfter
  <2> QED BY <1>1, <1>2, <1>3, <1>5, <2>1, FileStays, ReturnsEarly
<1>6. CASE fileOp' = [fileOp EXCEPT ![i].at = "pool"] /\ lease' = lease /\ UNCHANGED <<file, fds>>
  BY <1>1, <1>6, ToPool
<1> QED BY <1>4, <1>5, <1>6 DEF StartsClose

(* A worker ends a call; what it moved shows in the cursor.                *)
LEMMA WorkEnds ==
  ASSUME FileConstantsOK, FileInv, NEW i \in FileCalls, fileOp[i].at \in {"pool", "work"},
         NEW out \in Outcomes, fileOp' = Worked(i, out), lease' = lease, fileUse' = fileUse, fileStop' = fileStop,
         file' \in [life : Lives, asio : BOOLEAN, cursor : Nat], content' \in Seq(Nat), OpenAfter("worked"),
         ~Appends(fileUse.mode) =>
           IF fileOp[i].at = "work" /\ Sequential(i) /\ out = "ok"
           THEN file'.cursor = fileOp[i].pos + fileOp[i].got ELSE file'.cursor = file.cursor
  PROVE  FileInv'
<1> DEFINE r == [fileOp[i] EXCEPT !.at = "worked", !.out = out]
<1>1. FileTypes /\ OrderInv /\ StreamInv /\ fileOp[i] \in CallRec
  BY CallTypes DEF FileInv
<1>2. r \in CallRec /\ r.at = "worked" /\ r.out = out /\ r.pos = fileOp[i].pos /\ r.got = fileOp[i].got
  BY <1>1 DEF CallRec, CallPlaces
<1>3. fileOp' = [fileOp EXCEPT ![i] = r]
  BY <1>1 DEF FileTypes, Worked
<1> HIDE DEF r
<1>4. HoldsLease(i) /\ ~Unheard(i) /\ r.at \in Held
  BY <1>2 DEF HoldsLease, Unheard, Held
<1>5. fileOp[i].at = "pool" => fileOp[i].got = 0
  BY <1>1 DEF StreamInv
<1>6. StreamAfter(i, r)
  <2> SUFFICES ASSUME ~Appends(fileUse.mode) PROVE StreamAfter(i, r)
    BY DEF StreamAfter
  <2>1. fileOp[i].at = "work" /\ Sequential(i) => EndsAt(i, fileOp[i].pos)
    BY <1>1 DEF StreamInv
  <2>2. Hides(i, r) => EndsAt(i, r.pos)
    BY <1>2, <1>5, <2>1 DEF Hides
  <2>3. CASE fileOp[i].at = "work" /\ Sequential(i) /\ out = "ok"
    BY <1>2, <2>1, <2>2, <2>3 DEF StreamAfter
  <2>4. CASE ~(fileOp[i].at = "work" /\ Sequential(i) /\ out = "ok")
    <3>1. ~Hides(i, r) /\ file'.cursor = file.cursor
      BY <1>2, <1>5, <2>4 DEF Hides
    <3> QED BY <1>2, <1>4, <3>1 DEF StreamAfter
  <2> QED BY <2>3, <2>4
<1> QED BY <1>2, <1>3, <1>4, <1>6, Continues

LEMMA WorkerTakesKeeps ==
  ASSUME FileConstantsOK, FileInv, NEW i \in FileCalls, FileWorkerTakes(i)
  PROVE  FileInv'
<1>1. /\ fileOp[i].at = "pool" /\ UNCHANGED <<file, fds, content, lease, fileStop, outside, fileUse>> /\ FileTypes
  BY DEF FileWorkerTakes, FileInv
<1>2. ASSUME NEW out \in Outcomes, fileOp' = Worked(i, out) PROVE FileInv'
  <2>1. OpenAfter("worked") /\ content' \in Seq(Nat)
    BY <1>1 DEF OpenAfter, FileTypes
  <2> QED BY <1>1, <1>2, <2>1, FileStays, WorkEnds
<1>3. \/ \E out \in {"none", Early(i)} : fileOp' = Worked(i, out)
      \/ ~fileStop /\ Early(i) = "none" /\ fileOp' = Moves(i, "work")
  BY DEF FileWorkerTakes
<1>4. {"none", Early(i)} \subseteq Outcomes
  BY EarlyOutcome DEF Outcomes
<1> QED BY <1>1, <1>2, <1>3, <1>4, Begins

LEMMA WorkerControlsKeeps ==
  ASSUME FileConstantsOK, FileInv, NEW i \in FileCalls, WorkerControls(i)
  PROVE  FileInv'
<1>1. /\ fileOp[i].at = "pool" /\ UNCHANGED <<lease, fileStop, outside, fileUse>> /\ FileTypes
      /\ Called(i).at \in Nat
  BY CallTypes DEF WorkerControls, FileInv
<1>2. content \in Seq(Nat) /\ "ok" \in Outcomes /\ "error" \in Outcomes
  BY <1>1 DEF FileTypes, Outcomes
<1>3. CASE fileOp' = Worked(i, "ok") /\ ClosesFile /\ content' = content
  <2>1. OpenAfter("worked")
    BY <1>3 DEF OpenAfter
  <2> QED BY <1>1, <1>2, <1>3, <2>1, FileCloses, WorkEnds
<1>4. CASE /\ fileOp' = Worked(i, "ok") /\ file' = file /\ fds' = fds
           /\ content' \in {content, Resized(Called(i).at)}
  <2>1. OpenAfter("worked")
    BY <1>4 DEF OpenAfter
  <2>2. Resized(Called(i).at) \in Seq(Nat)
    <3>1. \A k \in 1 .. Called(i).at : (IF k <= Len(content) THEN content[k] ELSE 0) \in Nat
      BY <1>1, <1>2
    <3> QED BY <1>1, <3>1 DEF Resized
  <2> QED BY <1>1, <1>2, <1>4, <2>1, <2>2, FileStays, WorkEnds
<1>5. CASE fileOp' = Worked(i, "error") /\ file' = file /\ fds' = fds /\ content' = content
  <2>1. OpenAfter("worked")
    BY <1>5 DEF OpenAfter
  <2> QED BY <1>1, <1>2, <1>5, <2>1, FileStays, WorkEnds
<1> QED BY <1>3, <1>4, <1>5 DEF WorkerControls

LEMMA TransfersKeeps ==
  ASSUME FileConstantsOK, FileInv, NEW i \in FileCalls, Transfers(i)
  PROVE  FileInv'
<1>1. /\ fileOp[i].at \in {"work", "io"} /\ UNCHANGED <<file, fds, lease, fileStop, outside, fileUse>>
      /\ FileTypes /\ OpenInv /\ StreamInv /\ fileOp[i] \in CallRec /\ i \in Nat
  BY CallTypes DEF Transfers, FileInv
<1>2. PICK k \in 1 .. Movable(i) :
        /\ fileOp' = [fileOp EXCEPT ![i].got = @ + k, ![i].at = IF @ = "io" THEN "moved" ELSE @]
        /\ content' = IF Reading(i) THEN content ELSE Written(i, k)
  BY DEF Transfers
<1>3. k \in Nat
  OBVIOUS
<1> DEFINE at == IF fileOp[i].at = "io" THEN "moved" ELSE "work"
           got == fileOp[i].got + k
           r == [fileOp[i] EXCEPT !.got = got, !.at = at]
<1>5. fileOp' = [fileOp EXCEPT ![i] = r]
  BY <1>1, <1>2 DEF FileTypes
<1>4. /\ r \in CallRec /\ r.pos = fileOp[i].pos
      /\ r.at \in {"work", "moved"}
  <2>1. at \in {"work", "moved"} /\ got \in Nat
    BY <1>1, <1>3 DEF CallRec
  <2> HIDE DEF at, got
  <2> QED BY <1>1, <2>1 DEF CallRec, CallPlaces
<1> HIDE DEF r, at, got
<1>6. HoldsLease(i) /\ ~Unheard(i) /\ r.at \in Held /\ ~Hides(i, r)
  BY <1>1, <1>4 DEF HoldsLease, Unheard, Held, Hides
<1>7. content' \in Seq(Nat)
  <2>1. content \in Seq(Nat) /\ Len(content) \in Nat
    BY <1>1 DEF FileTypes
  <2>2. Here(i) \in Nat
    BY <1>1, <2>1 DEF Here, CallRec
  <2>3. Written(i, k) \in Seq(Nat)
    <3> DEFINE h == Here(i)
               n == IF h + k > Len(content) THEN h + k ELSE Len(content)
    <3>1. n \in Nat
      BY <1>3, <2>1, <2>2
    <3>2. \A p \in 1 .. n : (IF p \in h + 1 .. h + k THEN i ELSE IF p <= Len(content) THEN content[p] ELSE 0) \in Nat
      BY <1>1, <2>1
    <3> HIDE DEF n
    <3>3. [p \in 1 .. n |-> IF p \in h + 1 .. h + k THEN i ELSE IF p <= Len(content) THEN content[p] ELSE 0] \in Seq(Nat)
      BY <3>1, <3>2
    <3> QED BY <3>3 DEF Written, n
  <2> QED BY <1>2, <2>1, <2>3
<1>8. OpenAfter(r.at)
  BY <1>1 DEF OpenAfter, OpenInv
<1>9. StreamAfter(i, r)
  <2>1. ~Appends(fileUse.mode) /\ Sequential(i) => EndsAt(i, r.pos)
    BY <1>1, <1>4 DEF StreamInv
  <2> QED BY <1>1, <1>6, <2>1 DEF StreamAfter
<1> QED BY <1>1, <1>4, <1>5, <1>6, <1>7, <1>8, <1>9, FileStays, Continues

LEMMA WorkerEndsKeeps ==
  ASSUME FileConstantsOK, FileInv, NEW i \in FileCalls, FileWorkerEnds(i)
  PROVE  FileInv'
<1>1. /\ fileOp[i].at = "work" /\ UNCHANGED <<fds, content, lease, fileStop, outside, fileUse>>
      /\ FileTypes /\ fileOp[i] \in CallRec
  BY CallTypes DEF FileWorkerEnds, FileInv
<1>2. PICK out \in {"ok", "error"} :
        /\ fileOp' = Worked(i, out)
        /\ file' = IF out = "ok" /\ Sequential(i)
                   THEN [file EXCEPT !.cursor = IF AtEnd(i) THEN Len(content) ELSE fileOp[i].pos + fileOp[i].got]
                   ELSE file
  BY DEF FileWorkerEnds, EndOf
<1>3. file \in [life : Lives, asio : BOOLEAN, cursor : Nat] /\ content \in Seq(Nat) /\ Len(content) \in Nat
  BY <1>1 DEF FileTypes
<1>4. fileOp[i].pos + fileOp[i].got \in Nat
  BY <1>1 DEF CallRec
<1>5. /\ file' \in [life : Lives, asio : BOOLEAN, cursor : Nat]
      /\ file'.life = file.life /\ file'.asio = file.asio
      /\ file'.cursor = IF out = "ok" /\ Sequential(i)
                        THEN IF AtEnd(i) THEN Len(content) ELSE fileOp[i].pos + fileOp[i].got
                        ELSE file.cursor
  BY <1>2, <1>3, <1>4
<1>6. OpenAfter("worked")
  BY <1>1, <1>5 DEF OpenAfter
<1>7. ~Appends(fileUse.mode) =>
        IF fileOp[i].at = "work" /\ Sequential(i) /\ out = "ok"
        THEN file'.cursor = fileOp[i].pos + fileOp[i].got ELSE file'.cursor = file.cursor
  BY <1>1, <1>5 DEF AtEnd
<1>8. out \in Outcomes
  BY DEF Outcomes
<1> QED BY <1>1, <1>2, <1>3, <1>5, <1>6, <1>7, <1>8, WorkEnds

LEMMA AfterWorkKeeps ==
  ASSUME FileConstantsOK, FileInv, NEW i \in FileCalls, ResumesAfterWork(i)
  PROVE  FileInv'
<1> DEFINE out == IF fileStop THEN "cancelled" ELSE fileOp[i].out
           moves == Sequential(i) /\ out = "ok" /\ fileOp[i].got > 0
<1>1. /\ fileOp[i].at = "worked" /\ UNCHANGED <<file, fds, content, fileStop, outside, fileUse>> /\ Returns(i, out)
      /\ FileTypes /\ OrderInv /\ StreamInv /\ fileOp[i] \in CallRec
  BY CallTypes DEF ResumesAfterWork, FileInv
<1>2. HoldsLease(i) /\ out \in Outcomes /\ OpenAfter("done")
  BY <1>1 DEF HoldsLease, CallRec, Outcomes, OpenAfter
<1>3. CASE moves
  <2>1. Unheard(i) /\ ~fileStop
    BY <1>1, <1>3 DEF Unheard
  <2>2. ~Appends(fileUse.mode) => EndsAt(i, fileOp[i].pos) /\ file'.cursor = fileOp[i].pos + fileOp[i].got
    BY <1>1, <2>1 DEF StreamInv
  <2> HIDE DEF out
  <2> QED BY <1>1, <1>2, <1>3, <2>2, FileStays, Returned
<1>4. CASE ~moves /\ fileStop
  <2> HIDE DEF out
  <2> QED BY <1>1, <1>2, <1>4, FileStays, Returned
<1>5. CASE ~moves /\ ~fileStop
  <2>1. ~Unheard(i)
    BY <1>5 DEF Unheard
  <2>2. out # "ok" \/ ~Sequential(i) \/ fileOp[i].got = 0
    BY <1>1, <1>5 DEF CallRec
  <2> HIDE DEF out, moves
  <2> QED BY <1>1, <1>2, <2>1, <2>2, FileStays, ReturnsEarly
<1> QED BY <1>3, <1>4, <1>5

LEMMA IoEndsKeeps ==
  ASSUME FileConstantsOK, FileInv, NEW i \in FileCalls, IoEnds(i)
  PROVE  FileInv'
<1>1. /\ fileOp[i].at = "io" /\ UNCHANGED <<file, fds, content, lease, fileStop, outside, fileUse>>
      /\ FileTypes /\ OpenInv /\ StreamInv /\ fileOp[i] \in CallRec
  BY CallTypes DEF IoEnds, FileInv
<1>2. PICK out \in Outcomes : fileOp' = [fileOp EXCEPT ![i].at = "moved", ![i].out = out]
  BY DEF IoEnds, EndOf, Outcomes
<1> DEFINE r == [fileOp[i] EXCEPT !.at = "moved", !.out = out]
<1>3. r \in CallRec /\ r.pos = fileOp[i].pos /\ r.at = "moved"
  BY <1>1 DEF CallRec, CallPlaces
<1>4. fileOp' = [fileOp EXCEPT ![i] = r]
  BY <1>1, <1>2 DEF FileTypes
<1> HIDE DEF r
<1>5. HoldsLease(i) /\ ~Unheard(i) /\ r.at \in Held /\ ~Hides(i, r) /\ content' \in Seq(Nat)
  BY <1>1, <1>3 DEF HoldsLease, Unheard, Held, Hides, FileTypes
<1>6. OpenAfter(r.at)
  BY <1>1 DEF OpenAfter, OpenInv
<1>7. StreamAfter(i, r)
  <2>1. ~Appends(fileUse.mode) /\ Sequential(i) => EndsAt(i, r.pos)
    BY <1>1, <1>3 DEF StreamInv
  <2> QED BY <1>1, <1>5, <2>1 DEF StreamAfter
<1> QED BY <1>1, <1>3, <1>4, <1>5, <1>6, <1>7, FileStays, Continues

LEMMA AfterIoKeeps ==
  ASSUME FileConstantsOK, FileInv, NEW i \in FileCalls, ResumesAfterIo(i)
  PROVE  FileInv'
<1> DEFINE out == CASE fileOp[i].out = "ok" -> "ok"
                    [] fileOp[i].out = "cancelled" \/ (fileOp[i].out # "ok" /\ fileStop) -> "cancelled"
                    [] fileOp[i].out = "error" /\ ~fileStop -> "error"
                    [] fileOp[i].out = "none" /\ ~fileStop -> IF fileOp[i].got = ByteCount(i) THEN "ok" ELSE "none"
<1>1. /\ fileOp[i].at = "moved" /\ UNCHANGED <<fds, content, fileStop, outside, fileUse>>
      /\ FileTypes /\ OrderInv /\ OpenInv /\ StreamInv /\ fileOp[i] \in CallRec
  BY CallTypes DEF ResumesAfterIo, FileInv
<1>2. /\ IF out = "none" THEN fileOp' = [fileOp EXCEPT ![i].at = "io"] /\ lease' = lease ELSE Returns(i, out)
      /\ file' = IF out = "ok" /\ Sequential(i)
                 THEN [file EXCEPT !.cursor = fileOp[i].pos + fileOp[i].got] ELSE file
  BY DEF ResumesAfterIo
<1>3. out \in Outcomes
  BY <1>1 DEF CallRec, Outcomes
<1> HIDE DEF out
<1>4. /\ HoldsLease(i) /\ ~Unheard(i) /\ file.life = "open" /\ content' \in Seq(Nat)
      /\ ~Appends(fileUse.mode) /\ Sequential(i) => EndsAt(i, fileOp[i].pos)
  BY <1>1 DEF HoldsLease, Unheard, OpenInv, StreamInv, FileTypes
<1>5. CASE out = "none"
  <2> DEFINE r == [fileOp[i] EXCEPT !.at = "io"]
  <2>1. r \in CallRec /\ r.pos = fileOp[i].pos /\ r.at = "io"
    BY <1>1 DEF CallRec, CallPlaces
  <2>2. fileOp' = [fileOp EXCEPT ![i] = r] /\ lease' = lease /\ file' = file
    BY <1>1, <1>2, <1>5 DEF FileTypes
  <2> HIDE DEF r
  <2>3. r.at \in Held /\ ~Hides(i, r) /\ OpenAfter(r.at)
    BY <1>1, <1>4, <2>1, <2>2 DEF Held, Hides, OpenAfter
  <2>4. StreamAfter(i, r)
    BY <1>4, <2>1, <2>2, <2>3 DEF StreamAfter
  <2> QED BY <1>1, <1>4, <2>1, <2>2, <2>3, <2>4, FileStays, Continues
<1>6. CASE out # "none" /\ ~(out = "ok" /\ Sequential(i))
  <2>1. file' = file /\ OpenAfter("done") /\ Returns(i, out)
    BY <1>1, <1>2, <1>6 DEF OpenAfter
  <2> QED BY <1>1, <1>3, <1>4, <1>6, <2>1, FileStays, ReturnsEarly
<1>7. CASE out = "ok" /\ Sequential(i)
  <2>1. fileOp[i].pos + fileOp[i].got \in Nat /\ fileOp[i].pos \in Nat /\ fileOp[i].got \in Nat
    BY <1>1 DEF CallRec
  <2>2. file \in [life : Lives, asio : BOOLEAN, cursor : Nat]
    BY <1>1 DEF FileTypes
  <2>3. /\ Returns(i, out) /\ file' \in [life : Lives, asio : BOOLEAN, cursor : Nat]
        /\ file'.life = file.life /\ file'.asio = file.asio
        /\ file'.cursor = fileOp[i].pos + fileOp[i].got
    BY <1>2, <1>7, <2>1, <2>2
  <2>4. OpenAfter("done")
    BY <1>1, <2>3 DEF OpenAfter
  <2>5. CASE fileOp[i].got > 0
    BY <1>1, <1>3, <1>4, <1>7, <2>3, <2>4, <2>5, Returned
  <2>6. CASE ~(fileOp[i].got > 0)
    <3>1. file'.cursor = fileOp[i].pos
      BY <2>1, <2>3, <2>6
    <3>2. ~Appends(fileUse.mode) => EndsAt(Len(fileUse.calls) + 1, file'.cursor)
      <4>1. EndsAt(Len(fileUse.calls) + 1, fileOp[i].pos) <=> EndsAt(i, fileOp[i].pos)
        BY <1>1, <1>4, Around
      <4>2. ~Appends(fileUse.mode) => EndsAt(Len(fileUse.calls) + 1, fileOp[i].pos)
        BY <1>4, <1>7, <4>1
      <4> QED BY <3>1, <4>2
    <3>3. ~(Sequential(i) /\ out = "ok" /\ fileOp[i].got > 0)
      BY <2>6
    <3> DEFINE moves == Sequential(i) /\ out = "ok" /\ fileOp[i].got > 0
    <3>4. ~Appends(fileUse.mode) =>
            /\ moves => EndsAt(i, fileOp[i].pos)
            /\ ~fileStop => IF moves THEN file'.cursor = fileOp[i].pos + fileOp[i].got
                            ELSE EndsAt(Len(fileUse.calls) + 1, file'.cursor)
      BY <3>2, <3>3
    <3> QED BY <1>1, <1>3, <1>4, <2>3, <2>4, <3>4, Returned
  <2> QED BY <2>5, <2>6
<1> QED BY <1>5, <1>6, <1>7

-----------------------------------------------------------------------------
(* The theorems.                                                           *)

LEMMA FileInitially ==
  ASSUME FileConstantsOK, FileInit
  PROVE  FileInv
<1>1. fileUse \in FileUses /\ fileUse.size \in Nat \cup {Default}
  BY UseTypes DEF FileInit
<1>2. FileTypes
  <2>1. content \in Seq(Nat)
    <3>1. CASE fileUse.size \in Nat
      BY <3>1 DEF FileInit
    <3>2. CASE fileUse.size = Default
      <4>1. 1 .. fileUse.size = 1 .. 0
        BY <3>2 DEF Default
      <4>2. content = [k \in 1 .. 0 |-> 0]
        BY <4>1 DEF FileInit
      <4> QED BY <4>2
    <3> QED BY <1>1, <3>1, <3>2
  <2>2. <<>> \in Seq(FileCalls)
    OBVIOUS
  <2> QED BY <1>1, <2>1, <2>2 DEF FileInit, FileTypes, Lives, CallPlaces, Outcomes
<1>3. \A i \in FileCalls : fileOp[i].at = "free" /\ fileOp[i].got = 0
  BY DEF FileInit
<1>4. WaitersInv /\ OrderInv /\ OpenInv
  BY <1>3 DEF FileInit, WaitersInv, OrderInv, OpenInv, Queued, HoldsLease
<1>5. StreamInv
  <2>1. \A i \in FileCalls : ~Moved(i) /\ ~Unheard(i)
    BY <1>3 DEF Moved, Unheard
  <2>2. EndsAt(Len(fileUse.calls) + 1, file.cursor)
    BY <2>1 DEF EndsAt, FileInit
  <2> QED BY <1>3, <2>1, <2>2 DEF StreamInv
<1> QED BY <1>2, <1>4, <1>5 DEF FileInv

LEMMA FileSteps ==
  ASSUME FileConstantsOK, FileInv, [FileNext]_fileVars
  PROVE  FileInv'
<1>1. CASE OpenCalled \/ OpenWorks \/ OpenResumes
  BY <1>1, OpeningKeeps
<1>2. CASE OthersAppend \/ StopFiles
  BY <1>2, OutsideKeeps
<1>3. ASSUME NEW i \in FileCalls, CallNext(i) PROVE FileInv'
  <2>1. CASE CallFile(i) \/ CancelWaiter(i)
    BY <2>1, QueueKeeps
  <2>2. CASE Starts(i)
    BY <2>2, StartsTransferKeeps, StartsControlKeeps, StartsCloseKeeps DEF Starts
  <2>3. CASE FileWorkerTakes(i) \/ WorkerControls(i)
    BY <2>3, WorkerTakesKeeps, WorkerControlsKeeps
  <2>4. CASE Transfers(i) \/ FileWorkerEnds(i)
    BY <2>4, TransfersKeeps, WorkerEndsKeeps
  <2>5. CASE ResumesAfterWork(i) \/ IoEnds(i) \/ ResumesAfterIo(i)
    BY <2>5, AfterWorkKeeps, IoEndsKeeps, AfterIoKeeps
  <2> QED BY <1>3, <2>1, <2>2, <2>3, <2>4, <2>5 DEF CallNext
<1>4. CASE UNCHANGED fileVars
  <2>1. fileOp' = fileOp /\ lease' = lease /\ fileUse' = fileUse /\ file' = file /\ fds' = fds
        /\ fileStop' = fileStop /\ content' = content
    BY <1>4 DEF fileVars
  <2>2. FileTypes /\ WaitersInv /\ OrderInv /\ OpenInv /\ StreamInv /\ FileCalls' = FileCalls
    BY <2>1 DEF FileInv, FileCalls
  <2>3. WaitersInv' /\ OrderInv' /\ StreamInv'
    BY <2>1, <2>2, Quiet
  <2>4. FileTypes' /\ OpenInv'
    BY <2>1, <2>2 DEF FileTypes, OpenInv
  <2> QED BY <2>3, <2>4 DEF FileInv
<1> QED BY <1>1, <1>2, <1>3, <1>4 DEF FileNext

(* Everything the theorems need to know of a file holds in every state.    *)
LEMMA FileInvariant ==
  ASSUME FileConstantsOK
  PROVE  FileSpec => []FileInv
<1>1. FileInit => FileInv
  BY FileInitially
<1>2. FileInv /\ [FileNext]_fileVars => FileInv'
  BY FileSteps
<1> QED BY <1>1, <1>2, PTL DEF FileSpec

(* Calls hold the file one at a time and in the order of the script, bytes *)
(* move only through descriptors the open file owns, and the process has   *)
(* exactly those: FileOperationQueue, run_blocking and File::close, for    *)
(* any uses, sizes, chunks and limits.                                     *)
THEOREM LeaseSerializes ==
  ASSUME FileConstantsOK
  PROVE  FileSpec => []Serialized
<1>1. FileInv => Serialized
  <2> SUFFICES ASSUME FileInv PROVE Serialized
    OBVIOUS
  <2>1. FileTypes /\ OrderInv /\ OpenInv
    BY DEF FileInv
  <2>2. ASSUME NEW i \in FileCalls, NEW j \in FileCalls, i < j, HoldsLease(j)
        PROVE  fileOp[i].at = "done"
    <3>1. fileOp[i] \in CallRec /\ i \in Nat /\ j \in Nat
      BY <2>1, CallTypes
    <3>2. fileOp[i].at # "free"
      BY <2>1, <2>2 DEF OrderInv, HoldsLease
    <3>3. ~HoldsLease(i)
      BY <2>1, <2>2, <3>1 DEF OrderInv
    <3>4. ~Queued(i)
      BY <2>1, <2>2, <3>1 DEF OrderInv
    <3> QED BY <3>1, <3>2, <3>3, <3>4 DEF CallRec, CallPlaces, HoldsLease, Queued
  <2>3. \A i \in FileCalls : fileOp[i].at \in {"work", "io"} => fds # {}
    BY <2>1 DEF OpenInv
  <2> QED BY <2>1, <2>2, <2>3 DEF Serialized, OpenInv
<1> QED BY <1>1, FileInvariant, PTL

(* The sequential reads and writes a script is told have succeeded move    *)
(* consecutive ranges of the file: File::read, File::write and             *)
(* advance_cursor, whichever backend moves the bytes, whatever fails or is *)
(* cancelled, and however system calls divide a transfer.                  *)
THEOREM FileIsOneStream ==
  ASSUME FileConstantsOK
  PROVE  FileSpec => []OneStream
<1>1. FileInv => OneStream
  <2> SUFFICES ASSUME FileInv, ~Appends(fileUse.mode), NEW j \in FileCalls, Moved(j)
               PROVE  LET before == {i \in 1 .. j - 1 : Moved(i)} IN
                      IF before = {} THEN fileOp[j].pos = 0
                      ELSE LET i == CHOOSE i \in before : \A k \in before : k <= i
                           IN  fileOp[j].pos = fileOp[i].pos + fileOp[i].got
    BY DEF OneStream
  <2> DEFINE before == {i \in 1 .. j - 1 : Moved(i)}
             i == CHOOSE i \in before : \A k \in before : k <= i
  <2>1. FileTypes /\ EndsAt(j, fileOp[j].pos)
    BY DEF FileInv, StreamInv
  <2>2. before = {k \in FileCalls : k < j /\ Moved(k)} /\ \A k \in before : k \in Nat
    <3>1. FileCalls = 1 .. Len(fileUse.calls) /\ Len(fileUse.calls) \in Nat
      BY <2>1, UseTypes DEF FileTypes
    <3> QED BY <3>1
  <2> HIDE DEF before
  <2>3. CASE before = {}
    <3>1. fileOp[j].pos = 0
      BY <2>1, <2>2, <2>3 DEF EndsAt
    <3> QED BY <2>3, <3>1 DEF before
  <2>4. CASE before # {}
    <3>1. PICK b \in before : /\ fileOp[j].pos = fileOp[b].pos + fileOp[b].got
                              /\ \A k \in before : k <= b
      BY <2>1, <2>2, <2>4 DEF EndsAt
    <3>2. i \in before /\ \A k \in before : k <= i
      BY <3>1
    <3>3. i = b
      BY <2>2, <3>1, <3>2
    <3> HIDE DEF i
    <3>4. fileOp[j].pos = fileOp[i].pos + fileOp[i].got
      BY <3>1, <3>3
    <3> QED BY <2>4, <3>4 DEF before, i
  <2> QED BY <2>3, <2>4
<1> QED BY <1>1, FileInvariant, PTL
=============================================================================

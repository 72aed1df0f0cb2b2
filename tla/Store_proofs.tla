---------------------------- MODULE Store_proofs ----------------------------
(***************************************************************************)
(* What a script is told of its calls is what happened, and the rows on    *)
(* disk change as AtomicStore promises, for any handles, keys, calls and   *)
(* uses; and what it writes and reads of a value is what it gave (module   *)
(* SqlValues), for any widths of the integers, texts and scripts.          *)
(*                                                                         *)
(* Neither says how far a transaction has come while it runs.  TxInv does: *)
(* it holds the write lock, and its connection sees the rows on disk with  *)
(* the writes of its steps on top, so that no other handle changes what it *)
(* will commit.  LaneInv keeps the order of the calls of a handle: none    *)
(* that was made after the running one has reached the disk.               *)
(***************************************************************************)
EXTENDS Store, SqlValues, FiniteSetTheorems, WellFoundedInduction, TLAPS

(* The types.                                                               *)

States == {"none", "open", "failed", "closed", "crashed"}
Places == {"free", "posted", "running", "worked", "done", "lost"}
Outs   == {"none", "ok", "error", "cancelled"}
Conns  == [state : States, tx : BOOLEAN, sees : [Keys -> Nat], changes : Int, doomed : BOOLEAN]

TypeInv ==
  /\ use \in Use
  /\ rows \in [Keys -> Nat] /\ writer \in Handles \cup {None}
  /\ conn \in [Handles -> Conns] /\ lane \in [Handles -> Seq(Calls)]
  /\ job \in [Handles -> [call : Nat, next : Nat]]
  /\ call \in [Calls -> [at : Places, out : Outs]] /\ applied \in [Calls -> Nat]

-----------------------------------------------------------------------------
(* The inductive invariant.                                                 *)

StepsOf(c) == Asked(c).steps
IsTransaction(c) == Asked(c).op = "transaction"

(* The job that a worker runs, and how far it has come: a statement commits *)
(* by itself, a transaction has committed nothing while it runs, and on a   *)
(* connection that was closed before nothing is done at all.                *)
JobInv ==
  \A h \in Handles :
    LET c == job[h].call
        n == job[h].next
    IN  /\ ~Running(h) => job[h] = Idle /\ ~conn[h].tx
        /\ Running(h) =>
             /\ HandleOf(c) = h /\ call[c].at = "running"
             /\ n \in 1 .. Len(StepsOf(c)) + 1 /\ conn[h].state \in {"open", "closed"}
             /\ applied[c] = IF IsTransaction(c) THEN 0 ELSE n - 1
             /\ conn[h].state = "closed" \/ (IsTransaction(c) /\ ~conn[h].tx) => n = 1

(* The first n steps of a transaction went as Answers asks of all.          *)
StepGood(s) == /\ s.kind # "fail"
               /\ s.kind # "other" => Meets(s.want, Truth(s))

(* The n steps before the next one wrote key k.                             *)
WroteKey(c, n, k) == \E j \in 1 .. n - 1 : Writes(StepsOf(c)[j]) /\ StepsOf(c)[j].key = k

(* A transaction holds the lock, and its connection sees the rows on disk   *)
(* with the writes of its steps on top.                                     *)
TxInv ==
  /\ writer \in Handles => conn[writer].tx
  /\ \A h \in Handles :
       LET c == job[h].call
           n == job[h].next
       IN  /\ conn[h].tx =>
                /\ writer = h /\ Running(h) /\ IsTransaction(c) /\ conn[h].state = "open"
                /\ conn[h].doomed <=> \E j \in 1 .. n - 1 : StepsOf(c)[j].kind = "defer"
                /\ \A j \in 1 .. n - 1 : StepGood(StepsOf(c)[j])
                /\ \A k \in Keys : conn[h].sees[k] = IF WroteKey(c, n, k) THEN c ELSE rows[k]
           /\ ~conn[h].tx /\ conn[h].state # "crashed" => ~conn[h].doomed

(* No call made after c on the same handle has reached the disk.            *)
Latest(c) == \A d \in Calls : d > c /\ HandleOf(d) = HandleOf(c) => applied[d] = 0

(* Calls are made in order, and the lane of a handle keeps that order.      *)
LaneInv ==
  /\ \A c \in Calls : call[c].at = "free" =>
       applied[c] = 0 /\ \A d \in Calls : d > c => call[d].at = "free"
  /\ \A h \in Handles :
       /\ \A i \in 1 .. Len(lane[h]) :
            LET c == lane[h][i]
            IN  /\ HandleOf(c) = h /\ call[c].at = "posted" /\ applied[c] = 0 /\ Latest(c)
                /\ Running(h) => job[h].call < c
                /\ \A j \in 1 .. Len(lane[h]) : i < j => c < lane[h][j]
       /\ lane[h] # <<>> => conn[h].state \in {"open", "closed"}
       /\ Running(h) => Latest(job[h].call)

(* Outcome of call c as Answers asks it, for u units on the disk.           *)
Answered(c, out, u) ==
  /\ u <= Len(UnitsOf(c))
  /\ out = "ok" => u = Len(UnitsOf(c))
  /\ out = "error" => u < Len(UnitsOf(c)) \/ StepsOf(c) = <<>>
  /\ IsTransaction(c) /\ u = 1 =>
       \A j \in 1 .. Len(StepsOf(c)) : StepsOf(c)[j].kind # "other" =>
         /\ StepsOf(c)[j].kind \notin {"fail", "defer"}
         /\ Meets(StepsOf(c)[j].want, Truth(StepsOf(c)[j]))

(* What has an outcome keeps it. *)
OutInv ==
  \A c \in Calls :
    /\ call[c].at \in {"free", "posted", "running", "lost"} => call[c].out = "none"
    /\ Answered(c, call[c].out, applied[c])

IInv == TypeInv /\ JobInv /\ TxInv /\ LaneInv /\ OutInv

-----------------------------------------------------------------------------
(* The calls and their units.                                               *)

LEMMA AskedType ==
  ASSUME TypeInv, NEW c \in Calls
  PROVE  /\ c \in Nat /\ Asked(c) \in Call /\ HandleOf(c) \in Handles
         /\ StepsOf(c) \in Seq(Step) /\ Len(StepsOf(c)) \in Nat
         /\ DOMAIN StepsOf(c) = 1 .. Len(StepsOf(c))
         /\ \A j \in 1 .. Len(StepsOf(c)) : StepsOf(c)[j] \in Step
<1>1. use.calls \in Seq(Call)
  BY DEF TypeInv, Use
<1>2. Asked(c) \in Call /\ c \in Nat
  BY <1>1 DEF Asked, Calls
<1> QED BY <1>2 DEF HandleOf, StepsOf, Call

(* The keys that a unit writes. *)
LEMMA Unit ==
  ASSUME NEW s, NEW k
  PROVE  k \in WritesOf(s) <=> \E j \in DOMAIN s : Writes(s[j]) /\ s[j].key = k
BY DEF WritesOf

LEMMA Units ==
  ASSUME TypeInv, NEW c \in Calls
  PROVE  /\ IsTransaction(c) =>
              /\ Len(UnitsOf(c)) = 1
              /\ \A k : k \in UnitsOf(c)[1] <=> WroteKey(c, Len(StepsOf(c)) + 1, k)
         /\ Asked(c).op = "close" => Len(UnitsOf(c)) = 0
         /\ ~IsTransaction(c) /\ Asked(c).op # "close" =>
              /\ Len(UnitsOf(c)) = Len(StepsOf(c))
              /\ \A n \in 1 .. Len(StepsOf(c)) : \A k :
                   k \in UnitsOf(c)[n] <=> Writes(StepsOf(c)[n]) /\ StepsOf(c)[n].key = k
<1>a. /\ StepsOf(c) \in Seq(Step) /\ Len(StepsOf(c)) \in Nat
      /\ DOMAIN StepsOf(c) = 1 .. Len(StepsOf(c))
  BY AskedType
<1>1. ASSUME IsTransaction(c)
      PROVE  /\ Len(UnitsOf(c)) = 1
             /\ \A k : k \in UnitsOf(c)[1] <=> WroteKey(c, Len(StepsOf(c)) + 1, k)
  <2>1. UnitsOf(c) = <<WritesOf(StepsOf(c))>>
    BY <1>1 DEF UnitsOf, IsTransaction, StepsOf
  <2>2. Len(UnitsOf(c)) = 1 /\ UnitsOf(c)[1] = WritesOf(StepsOf(c))
    BY <2>1
  <2>3. (Len(StepsOf(c)) + 1) - 1 = Len(StepsOf(c))
    BY <1>a
  <2> QED BY <1>a, <2>2, <2>3, Unit DEF WroteKey
<1>2. Asked(c).op = "close" => Len(UnitsOf(c)) = 0
  BY DEF UnitsOf
<1>3. ASSUME ~IsTransaction(c), Asked(c).op # "close"
      PROVE  /\ Len(UnitsOf(c)) = Len(StepsOf(c))
             /\ \A n \in 1 .. Len(StepsOf(c)) : \A k :
                  k \in UnitsOf(c)[n] <=> Writes(StepsOf(c)[n]) /\ StepsOf(c)[n].key = k
  <2>1. UnitsOf(c) = [n \in DOMAIN StepsOf(c) |-> WritesOf(<<StepsOf(c)[n]>>)]
    BY <1>3 DEF UnitsOf, IsTransaction, StepsOf
  <2> DEFINE u == [n \in 1 .. Len(StepsOf(c)) |-> WritesOf(<<StepsOf(c)[n]>>)]
  <2>2. UnitsOf(c) = u
    BY <1>a, <2>1
  <2>3. u \in Seq({WritesOf(<<StepsOf(c)[n]>>) : n \in 1 .. Len(StepsOf(c))})
    BY <1>a
  <2>4. Len(u) = Len(StepsOf(c))
    BY <1>a, <2>3
  <2>5. ASSUME NEW n \in 1 .. Len(StepsOf(c)), NEW k
        PROVE  k \in u[n] <=> Writes(StepsOf(c)[n]) /\ StepsOf(c)[n].key = k
    <3>1. u[n] = WritesOf(<<StepsOf(c)[n]>>)
      OBVIOUS
    <3>2. DOMAIN <<StepsOf(c)[n]>> = {1} /\ <<StepsOf(c)[n]>>[1] = StepsOf(c)[n]
      OBVIOUS
    <3> QED BY <3>1, <3>2, Unit
  <2> QED BY <2>2, <2>4, <2>5
<1> QED BY <1>1, <1>2, <1>3

-----------------------------------------------------------------------------
(* The types are kept.                                                      *)

LEMMA JobType ==
  ASSUME TypeInv, NEW h \in Handles, Running(h)
  PROVE  /\ job[h].call \in Calls /\ Current(h) = Asked(job[h].call)
         /\ Current(h).steps = StepsOf(job[h].call)
         /\ StepOf(h) = StepsOf(job[h].call)[job[h].next]
         /\ job[h].next \in Nat
BY DEF TypeInv, Running, Current, StepsOf, StepOf

LEMMA StepTyped ==
  ASSUME TypeInv, NEW h \in Handles, Running(h), JobInv, More(h)
  PROVE  /\ StepOf(h) \in Step /\ job[h].next \in 1 .. Len(StepsOf(job[h].call))
         /\ Changes(h, StepOf(h)) \in Int
<1>1. /\ job[h].call \in Calls /\ Current(h).steps = StepsOf(job[h].call)
      /\ StepOf(h) = StepsOf(job[h].call)[job[h].next]
  BY JobType
<1>2. job[h].next \in 1 .. Len(StepsOf(job[h].call))
  BY <1>1, AskedType DEF JobInv, More
<1>3. StepOf(h) \in Step
  BY <1>1, <1>2, AskedType
<1>4. conn[h].changes \in Int
  BY DEF TypeInv, Conns
<1> QED BY <1>2, <1>3, <1>4 DEF Changes

LEMMA JobEndsType ==
  ASSUME TypeInv, NEW h \in Handles, Running(h), NEW out \in {"ok", "error"}, JobEnds(h, out)
  PROVE  /\ job' \in [Handles -> [call : Nat, next : Nat]]
         /\ call' \in [Calls -> [at : Places, out : Outs]]
  BY JobType DEF JobEnds, Idle, TypeInv, Places, Outs

LEMMA SteppedType ==
  ASSUME NEW f \in [Keys -> Nat], NEW s \in Step, NEW c \in Nat
  PROVE  Stepped(f, s, c) \in [Keys -> Nat]
  BY DEF Stepped, Step

LEMMA OwnerTypes ==
  ASSUME TypeInv,
         \/ \E c \in Calls : CallMethod(c) \/ Resumes(c)
         \/ \E h \in Handles : Open(h) \/ OpenFails(h) \/ JobStarts(h)
         \/ RequestStop \/ Crash
  PROVE  TypeInv'
<1>1. ASSUME NEW c \in Calls, CallMethod(c) PROVE TypeInv'
  <2>1. use' = use /\ Calls' = Calls /\ HandleOf(c) \in Handles
    BY <1>1, AskedType DEF CallMethod, Calls
  <2>2. lane' \in [Handles -> Seq(Calls)]
    <3>1. Append(lane[HandleOf(c)], c) \in Seq(Calls)
      BY <2>1 DEF TypeInv
    <3> QED BY <1>1, <2>1, <3>1 DEF CallMethod, TypeInv
  <2>3. call' \in [Calls -> [at : Places, out : Outs]]
    <3>1. [call[c] EXCEPT !.at = "posted"] \in [at : Places, out : Outs]
      BY DEF TypeInv, Places
    <3>2. [at |-> "done", out |-> "cancelled"] \in [at : Places, out : Outs]
      BY DEF Places, Outs
    <3> QED BY <1>1, <3>1, <3>2 DEF CallMethod, TypeInv
  <2> QED BY <1>1, <2>1, <2>2, <2>3 DEF CallMethod, TypeInv
<1>2. ASSUME NEW c \in Calls, Resumes(c) PROVE TypeInv'
  <2>1. Calls' = Calls
    BY <1>2 DEF Resumes, Calls
  <2>2. call' \in [Calls -> [at : Places, out : Outs]]
    BY <1>2 DEF Resumes, TypeInv, Places, Outs
  <2> QED BY <1>2, <2>1, <2>2 DEF Resumes, TypeInv
<1>3. ASSUME NEW h \in Handles, Open(h) \/ OpenFails(h) PROVE TypeInv'
  <2>1. Calls' = Calls
    BY <1>3 DEF Open, OpenFails, Calls
  <2>2. \A st \in States : [conn[h] EXCEPT !.state = st] \in Conns
    BY DEF TypeInv, Conns
  <2>3. PICK st \in States : conn' = [conn EXCEPT ![h] = [conn[h] EXCEPT !.state = st]]
    BY <1>3 DEF Open, OpenFails, States
  <2>4. conn' \in [Handles -> Conns]
    BY <2>2, <2>3 DEF TypeInv
  <2> QED BY <1>3, <2>1, <2>4 DEF Open, OpenFails, TypeInv
<1>4. ASSUME NEW h \in Handles, JobStarts(h) PROVE TypeInv'
  <2>1. Calls' = Calls
    BY <1>4 DEF JobStarts, Calls
  <2>2. lane[h] \in Seq(Calls) /\ lane[h] # <<>>
    BY <1>4 DEF JobStarts, TypeInv
  <2>3. Head(lane[h]) \in Calls /\ Tail(lane[h]) \in Seq(Calls) /\ Calls \subseteq Nat
    <3>1. Calls \subseteq Nat
      BY DEF Calls
    <3> QED BY <2>2, <3>1
  <2>4. lane' \in [Handles -> Seq(Calls)]
    BY <1>4, <2>3 DEF JobStarts, TypeInv
  <2>5. job' \in [Handles -> [call : Nat, next : Nat]]
    <3>1. [call |-> Head(lane[h]), next |-> 1] \in [call : Nat, next : Nat]
      BY <2>3
    <3> QED BY <1>4, <3>1 DEF JobStarts, TypeInv
  <2>6. call' \in [Calls -> [at : Places, out : Outs]]
    <3>1. [call[Head(lane[h])] EXCEPT !.at = "running"] \in [at : Places, out : Outs]
      BY <2>3 DEF TypeInv, Places
    <3>2. [at |-> "worked", out |-> "cancelled"] \in [at : Places, out : Outs]
      BY DEF Places, Outs
    <3> QED BY <1>4, <2>3, <3>1, <3>2 DEF JobStarts, TypeInv
  <2> QED BY <1>4, <2>1, <2>4, <2>5, <2>6 DEF JobStarts, TypeInv
<1>5. CASE RequestStop
  BY <1>5 DEF RequestStop, TypeInv, Calls
<1>6. CASE Crash
  <2>1. Calls' = Calls
    BY <1>6 DEF Crash, Calls
  <2>2. conn' \in [Handles -> Conns]
    <3>1. \A r \in Conns : [r EXCEPT !.state = "crashed", !.tx = FALSE] \in Conns
      BY DEF Conns, States
    <3>2. \A h \in Handles : conn[h] \in Conns
      BY DEF TypeInv
    <3> QED BY <1>6, <3>1, <3>2 DEF Crash
  <2>3. /\ lane' \in [Handles -> Seq(Calls)]
        /\ job' \in [Handles -> [call : Nat, next : Nat]]
    <3>1. <<>> \in Seq(Calls) /\ Idle \in [call : Nat, next : Nat]
      BY DEF Idle
    <3>2. lane' = [h \in Handles |-> <<>>] /\ job' = [h \in Handles |-> Idle]
      BY <1>6 DEF Crash
    <3> QED BY <3>1, <3>2
  <2>4. call' \in [Calls -> [at : Places, out : Outs]]
    BY <1>6 DEF Crash, TypeInv, Places, Outs
  <2> QED BY <1>6, <2>1, <2>2, <2>3, <2>4 DEF Crash, TypeInv
<1> QED BY <1>1, <1>2, <1>3, <1>4, <1>5, <1>6

(* The new state of a connection. *)
LEMMA ConnTypes ==
  ASSUME TypeInv, NEW h \in Handles
  PROVE  /\ [conn[h] EXCEPT !.state = "closed"] \in Conns
         /\ \A n \in Int : [conn[h] EXCEPT !.changes = n] \in Conns
         /\ [conn[h] EXCEPT !.tx = TRUE, !.sees = rows] \in Conns
         /\ [conn[h] EXCEPT !.tx = FALSE, !.sees = rows, !.doomed = FALSE] \in Conns
         /\ \A f \in [Keys -> Nat], n \in Int, d \in BOOLEAN :
              [conn[h] EXCEPT !.sees = f, !.changes = n, !.doomed = d] \in Conns
         /\ conn[h].sees \in [Keys -> Nat] /\ conn[h].doomed \in BOOLEAN
<1>1. conn[h] \in Conns /\ rows \in [Keys -> Nat]
  BY DEF TypeInv
<1>2. ASSUME NEW r \in Conns PROVE [r EXCEPT !.state = "closed"] \in Conns
  BY DEF Conns, States
<1>3. ASSUME NEW r \in Conns, NEW n \in Int PROVE [r EXCEPT !.changes = n] \in Conns
  BY DEF Conns
<1>4. ASSUME NEW r \in Conns, NEW f \in [Keys -> Nat] PROVE [r EXCEPT !.tx = TRUE, !.sees = f] \in Conns
  BY DEF Conns
<1>5. ASSUME NEW r \in Conns, NEW f \in [Keys -> Nat]
      PROVE  [r EXCEPT !.tx = FALSE, !.sees = f, !.doomed = FALSE] \in Conns
  BY DEF Conns
<1>6. ASSUME NEW r \in Conns, NEW f \in [Keys -> Nat], NEW n \in Int, NEW d \in BOOLEAN
      PROVE  [r EXCEPT !.sees = f, !.changes = n, !.doomed = d] \in Conns
  BY DEF Conns
<1>7. conn[h].sees \in [Keys -> Nat] /\ conn[h].doomed \in BOOLEAN
  BY <1>1 DEF Conns
<1> QED BY <1>1, <1>2, <1>3, <1>4, <1>5, <1>6, <1>7

(* The same of the connection a transaction has ended on. *)
LEMMA EndedTypes == ASSUME TypeInv, NEW h \in Handles PROVE Ended(h) \in [Handles -> Conns]
<1> DEFINE r == [conn[h] EXCEPT !.tx = FALSE, !.sees = rows, !.doomed = FALSE]
<1>1. r \in Conns
  BY ConnTypes
<1>2. Ended(h) = [conn EXCEPT ![h] = r]
  BY DEF Ended
<1>3. conn \in [Handles -> Conns]
  BY DEF TypeInv
<1> HIDE DEF r
<1> QED BY <1>1, <1>2, <1>3

LEMMA WorkTypes ==
  ASSUME TypeInv, JobInv, NEW h \in Handles, Works(h)
  PROVE  TypeInv'
<1> DEFINE c == job[h].call
           n == job[h].next
           s == StepOf(h)
<1>a. Running(h) /\ c \in Calls /\ Calls' = Calls /\ c \in Nat
  <2>1. Running(h)
    BY DEF Works, RunsClosed, Statement, StatementsEnd, Begin, TransactionStep, Commit, Live,
           JobInv
  <2>2. use' = use
    BY DEF Works, RunsClosed, Statement, StatementsEnd, Begin, TransactionStep, Commit
  <2> QED BY <2>1, <2>2, AskedType DEF Running, Calls
<1>b. \A r \in Conns : [conn EXCEPT ![h] = r] \in [Handles -> Conns]
  <2>1. conn \in [Handles -> Conns]
    BY DEF TypeInv
  <2> QED BY <2>1
<1>c. [job EXCEPT ![h].next = @ + 1] \in [Handles -> [call : Nat, next : Nat]]
  <2>1. job \in [Handles -> [call : Nat, next : Nat]]
    BY DEF TypeInv
  <2>2. [job[h] EXCEPT !.next = @ + 1] \in [call : Nat, next : Nat]
    BY <2>1
  <2> QED BY <2>1, <2>2
<1>1. CASE RunsClosed(h)
  <2>1. PICK out \in {"ok", "error"} : JobEnds(h, out)
    BY <1>1 DEF RunsClosed
  <2> QED BY <1>1, <1>a, <1>b, <2>1, JobEndsType, ConnTypes DEF RunsClosed, TypeInv
<1>2. CASE Statement(h)
  <2>1. s \in Step /\ Changes(h, s) \in Int
    BY <1>2, <1>a, StepTyped DEF Statement
  <2>2. CASE JobEnds(h, "error") /\ UNCHANGED <<rows, applied, conn>>
    BY <1>2, <1>a, <2>2, JobEndsType DEF Statement, TypeInv
  <2>3. CASE /\ rows' = Stepped(rows, s, c) /\ applied' = [applied EXCEPT ![c] = @ + 1]
             /\ conn' = [conn EXCEPT ![h].changes = Changes(h, s)]
             /\ job' = [job EXCEPT ![h].next = @ + 1] /\ UNCHANGED call
    <3>1. rows' \in [Keys -> Nat]
      BY <1>a, <2>1, <2>3, SteppedType DEF TypeInv
    <3>2. conn' \in [Handles -> Conns]
      BY <1>b, <2>1, <2>3, ConnTypes
    <3>3. applied' \in [Calls -> Nat]
      BY <1>a, <2>3 DEF TypeInv
    <3> QED BY <1>2, <1>a, <1>c, <2>3, <3>1, <3>2, <3>3 DEF Statement, TypeInv
  <2> QED BY <1>2, <2>2, <2>3 DEF Statement
<1>3. CASE StatementsEnd(h)
  BY <1>3, <1>a, JobEndsType DEF StatementsEnd, TypeInv
<1>4. CASE Begin(h)
  <2>1. CASE JobEnds(h, "error") /\ UNCHANGED <<writer, conn>>
    BY <1>4, <1>a, <2>1, JobEndsType DEF Begin, TypeInv
  <2>2. CASE /\ writer' = h /\ conn' = [conn EXCEPT ![h].tx = TRUE, ![h].sees = rows]
             /\ UNCHANGED <<call, job>>
    <3>1. conn' \in [Handles -> Conns]
      BY <1>b, <2>2, ConnTypes
    <3> QED BY <1>4, <1>a, <2>2, <3>1 DEF Begin, TypeInv
  <2> QED BY <1>4, <2>1, <2>2 DEF Begin
<1>5. ASSUME Rollback(h), UNCHANGED <<rows, lane, applied, stop, use>> PROVE TypeInv'
  <2>1. conn' \in [Handles -> Conns]
    BY <1>5, EndedTypes DEF Rollback
  <2> QED BY <1>5, <1>a, <2>1, JobEndsType DEF Rollback, TypeInv
<1>6. CASE TransactionStep(h)
  <2>1. s \in Step /\ Changes(h, s) \in Int
    BY <1>6, <1>a, StepTyped DEF TransactionStep
  <2>2. CASE /\ conn' = [conn EXCEPT ![h].sees = Stepped(@, s, c),
                                     ![h].changes = Changes(h, s),
                                     ![h].doomed = @ \/ s.kind = "defer"]
             /\ job' = [job EXCEPT ![h].next = @ + 1] /\ UNCHANGED <<writer, call>>
    <3>1. Stepped(conn[h].sees, s, c) \in [Keys -> Nat]
      BY <1>a, <2>1, ConnTypes, SteppedType
    <3> DEFINE d == conn[h].doomed \/ s.kind = "defer"
               r == [conn[h] EXCEPT !.sees = Stepped(conn[h].sees, s, c),
                                    !.changes = Changes(h, s), !.doomed = d]
    <3>2. d \in BOOLEAN
      OBVIOUS
    <3>3. r \in Conns
      <4> HIDE DEF d, s
      <4> QED BY <2>1, <3>1, <3>2, ConnTypes
    <3>4. conn' = [conn EXCEPT ![h] = r]
      BY <2>2
    <3>5. conn' \in [Handles -> Conns]
      <4> HIDE DEF r
      <4> QED BY <1>b, <3>3, <3>4
    <3> QED BY <1>6, <1>a, <1>c, <2>2, <3>5 DEF TransactionStep, TypeInv
  <2> QED BY <1>6, <1>5, <2>2 DEF TransactionStep
<1>7. CASE Commit(h)
  <2>1. CASE /\ rows' = conn[h].sees /\ conn' = Ended(h) /\ writer' = None
             /\ applied' = [applied EXCEPT ![c] = @ + 1]
             /\ JobEnds(h, "ok")
    <3>1. conn' \in [Handles -> Conns] /\ rows' \in [Keys -> Nat]
      BY <2>1, EndedTypes, ConnTypes
    <3>2. applied' \in [Calls -> Nat]
      BY <1>a, <2>1 DEF TypeInv
    <3> QED BY <1>7, <1>a, <2>1, <3>1, <3>2, JobEndsType DEF Commit, TypeInv
  <2> QED BY <1>7, <1>5, <2>1 DEF Commit
<1> QED BY <1>1, <1>2, <1>3, <1>4, <1>6, <1>7 DEF Works

-----------------------------------------------------------------------------
(* What the calls ask for does not change.                                  *)
LEMMA SameUse ==
  ASSUME use' = use
  PROVE  /\ Calls' = Calls
         /\ \A c : /\ Asked(c)' = Asked(c) /\ HandleOf(c)' = HandleOf(c)
                   /\ StepsOf(c)' = StepsOf(c) /\ UnitsOf(c)' = UnitsOf(c)
                   /\ IsTransaction(c)' <=> IsTransaction(c)
         /\ \A c, n, k : WroteKey(c, n, k)' <=> WroteKey(c, n, k)
<1>1. Calls' = Calls /\ \A c : Asked(c)' = Asked(c)
  BY DEF Calls, Asked
<1>2. \A c : HandleOf(c)' = HandleOf(c) /\ StepsOf(c)' = StepsOf(c)
             /\ (IsTransaction(c)' <=> IsTransaction(c))
  BY <1>1 DEF HandleOf, StepsOf, IsTransaction
<1>3. \A c : UnitsOf(c)' = UnitsOf(c)
  BY <1>1 DEF UnitsOf
<1>4. \A c, n, k : WroteKey(c, n, k)' <=> WroteKey(c, n, k)
  BY <1>2 DEF WroteKey
<1> QED BY <1>1, <1>2, <1>3, <1>4

(* No two handles run one call, and none runs call 0. *)
LEMMA OneHandle ==
  ASSUME TypeInv, JobInv, NEW h \in Handles, Running(h)
  PROVE  /\ job[h].call \in Calls /\ HandleOf(job[h].call) = h
         /\ call[job[h].call].at = "running"
         /\ \A g \in Handles \ {h} : Running(g) => job[g].call # job[h].call
BY JobType DEF JobInv

LEMMA IdleRunsNothing == ASSUME TypeInv, NEW h \in Handles, job[h] = Idle PROVE ~Running(h)
  BY DEF Running, Idle, Calls

(* A job that goes on, or ends. *)
Advances(h) == /\ job' = [job EXCEPT ![h].next = @ + 1] /\ UNCHANGED call
               /\ UNCHANGED <<lane, stop, use>>
Finishes(h, out) == JobEnds(h, out) /\ UNCHANGED <<lane, stop, use>>

LEMMA AdvanceEffect ==
  ASSUME TypeInv, NEW h \in Handles, Running(h), Advances(h)
  PROVE  /\ job'[h].call = job[h].call /\ job'[h].next = job[h].next + 1
         /\ \A g \in Handles \ {h} : job'[g] = job[g]
         /\ \A g \in Handles : Running(g)' <=> Running(g)
         /\ call' = call
<1>1. /\ job'[h].call = job[h].call /\ job'[h].next = job[h].next + 1
      /\ \A g \in Handles \ {h} : job'[g] = job[g]
      /\ call' = call
  BY DEF Advances, TypeInv
<1>2. Calls' = Calls
  BY SameUse DEF Advances
<1> QED BY <1>1, <1>2 DEF Running

LEMMA FinishEffect ==
  ASSUME TypeInv, NEW h \in Handles, Running(h), NEW out \in {"ok", "error"}, Finishes(h, out)
  PROVE  /\ job'[h] = Idle /\ ~Running(h)'
         /\ \A g \in Handles \ {h} : job'[g] = job[g] /\ (Running(g)' <=> Running(g))
         /\ call'[job[h].call].at = "worked" /\ call'[job[h].call].out = out
         /\ \A d \in Calls \ {job[h].call} : call'[d] = call[d]
<1>1. /\ job'[h] = Idle /\ \A g \in Handles \ {h} : job'[g] = job[g]
      /\ call'[job[h].call].at = "worked" /\ call'[job[h].call].out = out
      /\ \A d \in Calls \ {job[h].call} : call'[d] = call[d]
  BY JobType DEF Finishes, JobEnds, TypeInv
<1>2. Calls' = Calls
  BY SameUse DEF Finishes
<1>3. ~Running(h)'
  BY <1>1, <1>2 DEF Running, Idle, Calls
<1> QED BY <1>1, <1>2, <1>3 DEF Running

(* The order of the lanes, with the next state's values. *)
LatestNext(c) == \A d \in Calls : d > c /\ HandleOf(d) = HandleOf(c) => applied'[d] = 0
Laned(g) ==
  /\ \A i \in 1 .. Len(lane'[g]) :
       LET d == lane'[g][i]
       IN  /\ HandleOf(d) = g /\ call'[d].at = "posted" /\ applied'[d] = 0 /\ LatestNext(d)
           /\ Running(g)' => job'[g].call < d
           /\ \A j \in 1 .. Len(lane'[g]) : i < j => d < lane'[g][j]
  /\ lane'[g] # <<>> => conn'[g].state \in {"open", "closed"}
  /\ Running(g)' => LatestNext(job'[g].call)

LEMMA LanesNext ==
  ASSUME use' = use, \A g \in Handles : Laned(g),
         \A d \in Calls : call'[d].at = "free" =>
           applied'[d] = 0 /\ \A e \in Calls : e > d => call'[e].at = "free"
  PROVE  LaneInv'
<1>1. Calls' = Calls /\ Handles' = Handles
  BY SameUse
<1>2. \A d : HandleOf(d)' = HandleOf(d)
  BY SameUse
<1>3. \A d : LatestNext(d) => \A e \in Calls' : e > d /\ HandleOf(e)' = HandleOf(d)' => applied'[e] = 0
  BY <1>1, <1>2 DEF LatestNext
<1>4. ASSUME NEW g \in Handles, NEW i \in 1 .. Len(lane'[g])
      PROVE  LET d == lane[g][i]
             IN  (/\ HandleOf(d) = g /\ call[d].at = "posted" /\ applied[d] = 0 /\ Latest(d)
                  /\ Running(g) => job[g].call < d
                  /\ \A j \in 1 .. Len(lane[g]) : i < j => d < lane[g][j])'
  <2>1. PICK d : d = lane'[g][i]
    OBVIOUS
  <2>2. /\ HandleOf(d) = g /\ call'[d].at = "posted" /\ applied'[d] = 0 /\ LatestNext(d)
        /\ Running(g)' => job'[g].call < d
        /\ \A j \in 1 .. Len(lane'[g]) : i < j => d < lane'[g][j]
    BY <2>1 DEF Laned
  <2>3. HandleOf(d)' = g
    BY <1>2, <2>2
  <2>4. (Latest(lane[g][i]))'
    BY <1>3, <2>1, <2>2 DEF Latest, HandleOf, Asked
  <2> QED BY <2>1, <2>2, <2>3, <2>4 DEF HandleOf, Asked
<1>5. ASSUME NEW g \in Handles, Running(g)' PROVE (Latest(job[g].call))'
  <2>1. LatestNext(job'[g].call)
    BY <1>5 DEF Laned
  <2> QED BY <1>1, <2>1 DEF LatestNext, Latest, HandleOf, Asked
<1>6. \A g \in Handles : lane'[g] # <<>> => conn'[g].state \in {"open", "closed"}
  BY DEF Laned
<1> QED BY <1>1, <1>4, <1>5, <1>6 DEF LaneInv

LEMMA LanesStay ==
  ASSUME TypeInv, LaneInv, UNCHANGED <<lane, use, applied>>,
         \A d \in Calls : /\ call'[d].at = "free" <=> call[d].at = "free"
                          /\ call[d].at = "posted" => call'[d].at = "posted",
         \A g \in Handles : /\ Running(g)' => Running(g) /\ job'[g].call = job[g].call
                            /\ lane[g] # <<>> => conn'[g].state \in {"open", "closed"}
  PROVE  LaneInv'
<1>1. ASSUME NEW g \in Handles PROVE Laned(g)
  <2>1. ASSUME NEW i \in 1 .. Len(lane[g]), NEW d, d = lane[g][i]
        PROVE  /\ HandleOf(d) = g /\ call'[d].at = "posted" /\ applied'[d] = 0 /\ LatestNext(d)
               /\ Running(g)' => job'[g].call < d
               /\ \A j \in 1 .. Len(lane[g]) : i < j => d < lane[g][j]
    <3>1. d \in Calls
      BY <2>1 DEF TypeInv
    <3>2. /\ HandleOf(d) = g /\ call[d].at = "posted" /\ applied[d] = 0 /\ Latest(d)
          /\ Running(g) => job[g].call < d
          /\ \A j \in 1 .. Len(lane[g]) : i < j => d < lane[g][j]
      BY <2>1 DEF LaneInv
    <3>3. LatestNext(d)
      BY <3>2 DEF Latest, LatestNext
    <3> QED BY <3>1, <3>2, <3>3
  <2>2. ASSUME Running(g)' PROVE LatestNext(job'[g].call)
    <3>1. Latest(job[g].call) /\ job'[g].call = job[g].call
      BY <2>2 DEF LaneInv
    <3> QED BY <3>1 DEF Latest, LatestNext
  <2> QED BY <2>1, <2>2 DEF Laned
<1>2. \A d \in Calls : call'[d].at = "free" =>
        applied'[d] = 0 /\ \A e \in Calls : e > d => call'[e].at = "free"
  BY DEF LaneInv
<1> QED BY <1>1, <1>2, LanesNext

(* The order of the lanes depends on no work but the units that it applies. *)
LEMMA WorkLane ==
  ASSUME TypeInv, JobInv, LaneInv, NEW h \in Handles, Running(h),
         Advances(h) \/ \E out \in {"ok", "error"} : Finishes(h, out),
         \A d \in Calls \ {job[h].call} : applied'[d] = applied[d],
         \A g \in Handles : conn'[g].state \in {conn[g].state, "closed"}
  PROVE  LaneInv'
<1> DEFINE c == job[h].call
<1>1. lane' = lane /\ use' = use
  BY DEF Advances, Finishes
<1>2. /\ c \in Calls /\ HandleOf(c) = h /\ call[c].at = "running"
      /\ \A g \in Handles \ {h} : Running(g) => job[g].call # c
  BY OneHandle
<1>3. /\ \A d \in Calls \ {c} : call'[d].at = call[d].at
      /\ call'[c].at \in {"running", "worked"}
  BY <1>2, AdvanceEffect, FinishEffect
<1>4. \A g \in Handles : Running(g)' => Running(g) /\ job'[g].call = job[g].call
  BY AdvanceEffect, FinishEffect
<1>6. \A d \in Calls : call'[d].at = "free" => call[d].at = "free" /\ d # c
  BY <1>2, <1>3
<1>7. \A e \in Calls : Latest(e) /\ (HandleOf(e) = h => c <= e) => LatestNext(e)
  BY <1>2, AskedType DEF Latest, LatestNext
<1>8. \A d \in Calls : call'[d].at = "free" =>
        applied'[d] = 0 /\ \A e \in Calls : e > d => call'[e].at = "free"
  BY <1>2, <1>3, <1>6 DEF LaneInv
<1>9. ASSUME NEW g \in Handles PROVE Laned(g)
  <2>1. ASSUME NEW i \in 1 .. Len(lane[g]), NEW d, d = lane[g][i]
        PROVE  /\ HandleOf(d) = g /\ call'[d].at = "posted" /\ applied'[d] = 0 /\ LatestNext(d)
               /\ Running(g)' => job'[g].call < d
               /\ \A j \in 1 .. Len(lane[g]) : i < j => d < lane[g][j]
    <3>1. /\ HandleOf(d) = g /\ call[d].at = "posted" /\ applied[d] = 0 /\ Latest(d)
          /\ Running(g) => job[g].call < d
          /\ \A j \in 1 .. Len(lane[g]) : i < j => d < lane[g][j]
      BY <2>1 DEF LaneInv
    <3>2. d \in Calls /\ d # c
      BY <1>2, <2>1, <3>1 DEF TypeInv
    <3>3. HandleOf(d) = h => c <= d
      BY <3>1, <3>2, <1>2, AskedType
    <3>4. LatestNext(d)
      BY <1>7, <3>1, <3>2, <3>3
    <3> QED BY <1>3, <1>4, <3>1, <3>2, <3>4
  <2>2. lane[g] # <<>> => conn'[g].state \in {"open", "closed"}
    BY DEF LaneInv
  <2>3. ASSUME Running(g)' PROVE LatestNext(job'[g].call)
    <3>1. Running(g) /\ job'[g].call = job[g].call /\ Latest(job[g].call)
      BY <1>4, <2>3 DEF LaneInv
    <3>2. job[g].call \in Calls /\ HandleOf(job[g].call) = g
      BY <3>1, OneHandle
    <3>3. HandleOf(job[g].call) = h => c <= job[g].call
      BY <3>2, <1>2, AskedType
    <3> QED BY <1>7, <3>1, <3>2, <3>3
  <2> QED BY <1>1, <2>1, <2>2, <2>3 DEF Laned
<1> QED BY <1>1, <1>8, <1>9, LanesNext

-----------------------------------------------------------------------------
(* The jobs and the transactions, with the next state's values.             *)
Jobbed(h) ==
  LET c == job'[h].call
      n == job'[h].next
  IN  /\ ~Running(h)' => job'[h] = Idle /\ ~conn'[h].tx
      /\ Running(h)' =>
           /\ HandleOf(c) = h /\ call'[c].at = "running"
           /\ n \in 1 .. Len(StepsOf(c)) + 1 /\ conn'[h].state \in {"open", "closed"}
           /\ applied'[c] = IF IsTransaction(c) THEN 0 ELSE n - 1
           /\ conn'[h].state = "closed" \/ (IsTransaction(c) /\ ~conn'[h].tx) => n = 1

LEMMA JobsNext == ASSUME use' = use, \A h \in Handles : Jobbed(h) PROVE JobInv'
<1>1. ASSUME NEW h \in Handles
      PROVE  (LET c == job[h].call
                  n == job[h].next
              IN  /\ ~Running(h) => job[h] = Idle /\ ~conn[h].tx
                  /\ Running(h) =>
                       /\ HandleOf(c) = h /\ call[c].at = "running"
                       /\ n \in 1 .. Len(StepsOf(c)) + 1 /\ conn[h].state \in {"open", "closed"}
                       /\ applied[c] = IF IsTransaction(c) THEN 0 ELSE n - 1
                       /\ conn[h].state = "closed" \/ (IsTransaction(c) /\ ~conn[h].tx) => n = 1)'
  BY DEF Jobbed, HandleOf, StepsOf, IsTransaction, Asked
<1> QED BY <1>1 DEF JobInv

Txd(h) ==
  LET c == job'[h].call
      n == job'[h].next
  IN  /\ conn'[h].tx =>
           /\ writer' = h /\ Running(h)' /\ IsTransaction(c) /\ conn'[h].state = "open"
           /\ conn'[h].doomed <=> \E j \in 1 .. n - 1 : StepsOf(c)[j].kind = "defer"
           /\ \A j \in 1 .. n - 1 : StepGood(StepsOf(c)[j])
           /\ \A k \in Keys : conn'[h].sees[k] = IF WroteKey(c, n, k) THEN c ELSE rows'[k]
      /\ ~conn'[h].tx /\ conn'[h].state # "crashed" => ~conn'[h].doomed

LEMMA TxNext ==
  ASSUME use' = use, writer' \in Handles => conn'[writer'].tx, \A h \in Handles : Txd(h)
  PROVE  TxInv'
<1>1. ASSUME NEW h \in Handles
      PROVE  (LET c == job[h].call
                  n == job[h].next
              IN  /\ conn[h].tx =>
                       /\ writer = h /\ Running(h) /\ IsTransaction(c) /\ conn[h].state = "open"
                       /\ conn[h].doomed <=> \E j \in 1 .. n - 1 : StepsOf(c)[j].kind = "defer"
                       /\ \A j \in 1 .. n - 1 : StepGood(StepsOf(c)[j])
                       /\ \A k \in Keys : conn[h].sees[k] = IF WroteKey(c, n, k) THEN c ELSE rows[k]
                  /\ ~conn[h].tx /\ conn[h].state # "crashed" => ~conn[h].doomed)'
  BY DEF Txd, HandleOf, StepsOf, IsTransaction, Asked, WroteKey
<1> QED BY <1>1 DEF TxInv

(* The handles that do not work stay as they are. *)
LEMMA OthersJob ==
  ASSUME TypeInv, JobInv, NEW h \in Handles, NEW g \in Handles \ {h}, Running(h),
         job'[g] = job[g], Running(g)' <=> Running(g), conn'[g] = conn[g],
         \A d \in Calls \ {job[h].call} : call'[d] = call[d] /\ applied'[d] = applied[d]
  PROVE  Jobbed(g)
<1>1. CASE ~Running(g)
  BY <1>1 DEF JobInv, Jobbed
<1>2. CASE Running(g)
  <2>1. job[g].call \in Calls \ {job[h].call}
    BY <1>2, OneHandle
  <2> QED BY <1>2, <2>1 DEF JobInv, Jobbed
<1> QED BY <1>1, <1>2

LEMMA OthersTx ==
  ASSUME TypeInv, TxInv, NEW g \in Handles, job'[g] = job[g], Running(g)' <=> Running(g),
         conn'[g] = conn[g], conn[g].tx => writer' = g /\ rows' = rows
  PROVE  Txd(g)
BY DEF TxInv, Txd

LEMMA FinishJob ==
  ASSUME TypeInv, JobInv, NEW h \in Handles, Running(h), NEW out \in {"ok", "error"}, Finishes(h, out),
         ~conn'[h].tx, \A g \in Handles \ {h} : conn'[g] = conn[g],
         \A d \in Calls \ {job[h].call} : applied'[d] = applied[d]
  PROVE  JobInv'
<1>1. Jobbed(h)
  BY FinishEffect DEF Jobbed
<1>2. ASSUME NEW g \in Handles \ {h} PROVE Jobbed(g)
  BY FinishEffect, OthersJob
<1>3. use' = use
  BY DEF Finishes
<1> QED BY <1>1, <1>2, <1>3, JobsNext

LEMMA AdvanceJob ==
  ASSUME TypeInv, JobInv, NEW h \in Handles, Running(h), Advances(h), More(h),
         conn'[h].state = "open" /\ (IsTransaction(job[h].call) => conn'[h].tx),
         \A g \in Handles \ {h} : conn'[g] = conn[g],
         \A d \in Calls : applied'[d] = IF d = job[h].call /\ ~IsTransaction(d)
                                        THEN applied[d] + 1 ELSE applied[d]
  PROVE  JobInv'
<1>1. Jobbed(h)
  <2> DEFINE c == job[h].call
             n == job[h].next
  <2>1. c \in Calls /\ HandleOf(c) = h /\ call[c].at = "running" /\ Len(StepsOf(c)) \in Nat
    BY OneHandle, AskedType
  <2>2. n \in 1 .. Len(StepsOf(c))
    BY StepTyped
  <2>3. applied[c] = IF IsTransaction(c) THEN 0 ELSE n - 1
    BY DEF JobInv
  <2>4. /\ job'[h].call = c /\ job'[h].next = n + 1 /\ call' = call /\ Running(h)'
    BY AdvanceEffect
  <2>5. applied'[c] = IF IsTransaction(c) THEN 0 ELSE n
    BY <2>1, <2>2, <2>3
  <2>6. n + 1 \in 1 .. Len(StepsOf(c)) + 1 /\ (n + 1) - 1 = n
    BY <2>1, <2>2
  <2> HIDE DEF c, n
  <2> QED BY <2>1, <2>4, <2>5, <2>6 DEF Jobbed, c
<1>2. ASSUME NEW g \in Handles \ {h} PROVE Jobbed(g)
  BY AdvanceEffect, OthersJob
<1>3. use' = use
  BY DEF Advances
<1> QED BY <1>1, <1>2, <1>3, JobsNext

LEMMA OutAnswers == ASSUME TypeInv, OutInv PROVE Answers
<1>1. ASSUME NEW c \in Calls PROVE DOMAIN StepsOf(c) = 1 .. Len(StepsOf(c))
  BY AskedType
<1> QED BY <1>1 DEF OutInv, Answers, Answered, StepsOf, IsTransaction

LEMMA OutNext ==
  ASSUME use' = use,
         \A c \in Calls :
           /\ call'[c].at \in {"free", "posted", "running", "lost"} => call'[c].out = "none"
           /\ Answered(c, call'[c].out, applied'[c])
  PROVE  OutInv'
<1>1. /\ Calls' = Calls
      /\ \A c : /\ UnitsOf(c)' = UnitsOf(c) /\ StepsOf(c)' = StepsOf(c)
                /\ IsTransaction(c)' <=> IsTransaction(c)
  BY SameUse
<1>2. ASSUME NEW c \in Calls
      PROVE  /\ (Answered(c, call[c].out, applied[c]))'
             /\ (call[c].at \in {"free", "posted", "running", "lost"} => call[c].out = "none")'
  BY <1>1 DEF Answered
<1>3. (\A c \in Calls :
           /\ call[c].at \in {"free", "posted", "running", "lost"} => call[c].out = "none"
           /\ Answered(c, call[c].out, applied[c]))'
  BY <1>1, <1>2
<1> QED BY <1>3 DEF OutInv

-----------------------------------------------------------------------------
(* The invariant is kept: the steps of a worker.                            *)

(* A transaction in progress is the only one. *)
LEMMA Alone ==
  ASSUME TxInv, NEW h \in Handles, writer \in {h, None} \/ conn[h].tx, None \notin Handles,
         NEW g \in Handles \ {h}
  PROVE  ~conn[g].tx
BY DEF TxInv

LEMMA KeepsOut ==
  ASSUME TypeInv, JobInv, OutInv, NEW h \in Handles, Running(h),
         Advances(h) \/ \E out \in {"ok", "error"} : Finishes(h, out),
         \A d \in Calls \ {job[h].call} : applied'[d] = applied[d],
         Answered(job[h].call, call'[job[h].call].out, applied'[job[h].call])
  PROVE  OutInv'
<1>1. job[h].call \in Calls /\ use' = use /\ call[job[h].call].at = "running"
  BY OneHandle DEF Advances, Finishes
<1>2. \A d \in Calls \ {job[h].call} : call'[d] = call[d]
  BY AdvanceEffect, FinishEffect
<1>3. call'[job[h].call].at \in {"free", "posted", "running", "lost"} => call'[job[h].call].out = "none"
  BY <1>1, AdvanceEffect, FinishEffect DEF OutInv
<1> QED BY <1>1, <1>2, <1>3, OutNext DEF OutInv

LEMMA ClosedKeeps ==
  ASSUME IInv, None \notin Handles, NEW h \in Handles, RunsClosed(h)
  PROVE  IInv'
<1> DEFINE c == job[h].call
           out == IF Current(h).op = "close" THEN "ok" ELSE "error"
<1> USE DEF IInv
<1>1. Running(h) /\ Finishes(h, out) /\ out \in {"ok", "error"}
  BY DEF RunsClosed, Finishes
<1>2. /\ conn'[h].state = "closed" /\ conn'[h].tx = conn[h].tx
      /\ conn'[h].doomed = conn[h].doomed /\ rows' = rows /\ writer' = writer
      /\ applied' = applied /\ use' = use
      /\ \A g \in Handles \ {h} : conn'[g] = conn[g]
  BY DEF RunsClosed, TypeInv, Conns
<1>3. /\ c \in Calls /\ Current(h) = Asked(c)
      /\ IsTransaction(c) <=> Asked(c).op = "transaction"
  BY <1>1, JobType DEF IsTransaction
<1>4. ~conn[h].tx /\ ~conn[h].doomed
  <2>1. ~conn[h].tx
    BY <1>1, <1>3 DEF RunsClosed, TxInv, IsTransaction
  <2>2. conn[h].state \in {"open", "closed"}
    BY <1>1 DEF JobInv
  <2> QED BY <2>1, <2>2 DEF TxInv
<1>5. TypeInv'
  BY WorkTypes DEF Works
<1>6. JobInv'
  BY <1>1, <1>2, <1>4, FinishJob
<1>7. TxInv'
  <2>1. Txd(h)
    BY <1>2, <1>4 DEF Txd
  <2>2. ASSUME NEW g \in Handles \ {h} PROVE Txd(g)
    BY <1>1, <1>2, FinishEffect, OthersTx DEF TxInv
  <2>3. writer' \in Handles => conn'[writer'].tx
    BY <1>2, <1>4 DEF TxInv
  <2> QED BY <1>2, <2>1, <2>2, <2>3, TxNext
<1>8. LaneInv'
  BY <1>1, <1>2, WorkLane
<1>9. OutInv'
  <2>1. call'[c].out = out
    BY <1>1, FinishEffect
  <2>2. applied[c] = 0 \/ Asked(c).op = "close"
    BY <1>1, <1>3 DEF RunsClosed, JobInv
  <2>3. applied[c] \in Nat /\ applied[c] <= Len(UnitsOf(c))
    BY <1>3 DEF TypeInv, OutInv, Answered
  <2>4. Len(UnitsOf(c)) = 0 => StepsOf(c) = <<>> \/ Asked(c).op = "close"
    <3>1. Len(StepsOf(c)) = 0 => StepsOf(c) = <<>>
      BY <1>3, AskedType
    <3> QED BY <1>3, <3>1, Units
  <2>5. Asked(c).op = "close" => Len(UnitsOf(c)) = 0 /\ out = "ok"
    BY <1>3, Units
  <2>6. Len(UnitsOf(c)) \in Nat
    BY <1>3, Units, AskedType
  <2>7. IsTransaction(c) => applied[c] = 0
    BY <1>3, <2>2 DEF IsTransaction
  <2>8. Asked(c).op # "close" => out = "error" /\ applied[c] = 0
    BY <1>3, <2>2
  <2>9. Answered(c, out, applied[c])
    <3> HIDE DEF c, out
    <3> QED BY <2>3, <2>4, <2>5, <2>6, <2>7, <2>8 DEF Answered
  <2> QED BY <1>1, <1>2, <2>1, <2>9, KeepsOut
<1> QED BY <1>5, <1>6, <1>7, <1>8, <1>9

(* Of an exec, a run or a query every statement before the next was applied. *)
LEMMA Plain ==
  ASSUME IInv, NEW h \in Handles, Live(h), ~InTransaction(h)
  PROVE  LET c == job[h].call
             n == job[h].next
         IN  /\ Running(h) /\ c \in Calls /\ ~IsTransaction(c) /\ Asked(c).op # "close"
             /\ applied[c] = n - 1 /\ Len(UnitsOf(c)) = Len(StepsOf(c))
             /\ Len(StepsOf(c)) \in Nat /\ n \in 1 .. Len(StepsOf(c)) + 1
             /\ ~conn[h].tx /\ conn[h].state = "open"
             /\ More(h) <=> n <= Len(StepsOf(c))
<1> DEFINE c == job[h].call
<1>1. /\ Running(h) /\ c \in Calls /\ Current(h) = Asked(c) /\ Current(h).steps = StepsOf(c)
      /\ Current(h).op # "close" /\ conn[h].state = "open"
  BY JobType DEF Live, IInv
<1>2. ~IsTransaction(c)
  BY <1>1 DEF InTransaction, IsTransaction
<1>3. applied[c] = job[h].next - 1 /\ job[h].next \in 1 .. Len(StepsOf(c)) + 1
  BY <1>1, <1>2 DEF IInv, JobInv
<1>4. ~conn[h].tx
  BY <1>2 DEF IInv, TxInv
<1> QED BY <1>1, <1>2, <1>3, <1>4, Units, AskedType DEF IInv, More

LEMMA StatementKeeps ==
  ASSUME IInv, None \notin Handles, NEW h \in Handles, Statement(h)
  PROVE  IInv'
<1> DEFINE c == job[h].call
           n == job[h].next
           s == StepOf(h)
<1> USE DEF IInv
<1>1. /\ Live(h) /\ ~InTransaction(h) /\ More(h) /\ UNCHANGED <<writer, lane, stop, use>>
      /\ Running(h)
  BY Plain DEF Statement
<1>2. /\ c \in Calls /\ ~IsTransaction(c) /\ applied[c] = n - 1
      /\ Len(UnitsOf(c)) = Len(StepsOf(c)) /\ n \in 1 .. Len(StepsOf(c))
      /\ Len(StepsOf(c)) \in Nat /\ ~conn[h].tx /\ conn[h].state = "open"
  BY <1>1, Plain
<1>3. TypeInv'
  BY WorkTypes DEF Works
<1>4. CASE JobEnds(h, "error") /\ UNCHANGED <<rows, applied, conn>>
  <2>1. Finishes(h, "error")
    BY <1>1, <1>4 DEF Finishes
  <2>2. JobInv' /\ LaneInv'
    BY <1>1, <1>2, <1>4, <2>1, FinishJob, WorkLane
  <2>3. \A g \in Handles : Txd(g)
    BY <1>1, <1>2, <1>4, <2>1, FinishEffect, OthersTx DEF TxInv, Txd
  <2>4. TxInv'
    BY <1>1, <1>4, <2>3, TxNext DEF TxInv
  <2>5. Answered(c, "error", applied[c])
    BY <1>2 DEF Answered
  <2>6. OutInv'
    BY <1>1, <1>4, <2>1, <2>5, FinishEffect, KeepsOut
  <2> QED BY <1>3, <2>2, <2>4, <2>6
<1>5. CASE /\ s.kind = "read" \/ MayWrite(h)
           /\ rows' = Stepped(rows, s, c) /\ applied' = [applied EXCEPT ![c] = @ + 1]
           /\ conn' = [conn EXCEPT ![h].changes = Changes(h, s)]
           /\ job' = [job EXCEPT ![h].next = @ + 1] /\ UNCHANGED call
  <2>1. Advances(h)
    BY <1>1, <1>5 DEF Advances
  <2>2. /\ conn'[h].state = "open" /\ ~conn'[h].tx /\ conn'[h].doomed = conn[h].doomed
        /\ \A g \in Handles \ {h} : conn'[g] = conn[g]
    BY <1>2, <1>5 DEF TypeInv, Conns
  <2>3. /\ applied'[c] = n /\ \A d \in Calls \ {c} : applied'[d] = applied[d]
    BY <1>2, <1>5 DEF TypeInv
  <2>4. JobInv'
    <3>1. \A d \in Calls : applied'[d] = IF d = c /\ ~IsTransaction(d) THEN applied[d] + 1
                                         ELSE applied[d]
      BY <1>2, <2>3
    <3> QED BY <1>1, <1>2, <2>1, <2>2, <3>1, AdvanceJob
  <2>5. LaneInv'
    BY <1>1, <1>2, <2>1, <2>2, <2>3, WorkLane
  <2>6. TxInv'
    <3>1. Txd(h)
      BY <1>2, <2>2 DEF Txd, TxInv
    <3>2. ASSUME NEW g \in Handles \ {h} PROVE Txd(g)
      <4>1. conn[g].tx => rows' = rows
        BY <1>5, Alone DEF MayWrite, Stepped, Writes
      <4>2. conn[g].tx => writer' = g
        BY <1>1 DEF TxInv
      <4> QED BY <1>1, <2>1, <2>2, <4>1, <4>2, AdvanceEffect, OthersTx
    <3>3. writer' \in Handles => conn'[writer'].tx
      BY <1>1, <1>2, <2>2 DEF TxInv
    <3> QED BY <1>1, <3>1, <3>2, <3>3, TxNext
  <2>7. OutInv'
    <3>1. call'[c].out = call[c].out /\ call[c].out = "none"
      BY <1>1, <1>2, <2>1, AdvanceEffect, OneHandle DEF OutInv
    <3>2. Answered(c, "none", n)
      BY <1>2 DEF Answered
    <3> QED BY <1>1, <2>1, <2>3, <3>1, <3>2, KeepsOut
  <2> QED BY <1>3, <2>4, <2>5, <2>6, <2>7
<1> QED BY <1>4, <1>5 DEF Statement

LEMMA StatementsEndKeeps ==
  ASSUME IInv, NEW h \in Handles, StatementsEnd(h)
  PROVE  IInv'
<1> DEFINE c == job[h].call
<1> USE DEF IInv
<1>1. /\ Live(h) /\ ~InTransaction(h) /\ ~More(h) /\ UNCHANGED <<rows, writer, conn, applied, use>>
      /\ Running(h) /\ Finishes(h, "ok")
  BY Plain DEF StatementsEnd, Finishes
<1>2. /\ c \in Calls /\ ~IsTransaction(c) /\ ~conn[h].tx
      /\ Len(UnitsOf(c)) \in Nat /\ applied[c] = Len(UnitsOf(c))
  BY <1>1, Plain
<1>3. TypeInv'
  BY WorkTypes DEF Works
<1>4. JobInv' /\ LaneInv'
  BY <1>1, <1>2, FinishJob, WorkLane
<1>5. \A g \in Handles : Txd(g)
  BY <1>1, <1>2, FinishEffect, OthersTx DEF TxInv, Txd
<1>6. TxInv'
  BY <1>1, <1>5, TxNext DEF TxInv
<1>7. Answered(c, "ok", applied[c])
  BY <1>2 DEF Answered
<1>8. OutInv'
  BY <1>1, <1>7, FinishEffect, KeepsOut
<1> QED BY <1>3, <1>4, <1>6, <1>8

(* A job that is refused, or rolled back, ends with nothing applied. *)
LEMMA EndsWithNothing ==
  ASSUME IInv, None \notin Handles, NEW h \in Handles, Running(h), IsTransaction(job[h].call),
         Finishes(h, "error"), UNCHANGED <<rows, applied>>,
         \/ UNCHANGED <<writer, conn>> /\ ~conn[h].tx
         \/ conn[h].tx /\ conn' = Ended(h) /\ writer' = None,
         TypeInv'
  PROVE  IInv'
<1> DEFINE c == job[h].call
<1> USE DEF IInv
<1>1. /\ c \in Calls /\ applied[c] = 0 /\ Len(UnitsOf(c)) = 1 /\ use' = use
  BY OneHandle, Units DEF JobInv, Finishes
<1>2. /\ ~conn'[h].tx /\ conn'[h].state = conn[h].state
      /\ conn'[h].doomed => conn[h].doomed
      /\ conn[h].tx => ~conn'[h].doomed
      /\ \A g \in Handles \ {h} : conn'[g] = conn[g]
  BY DEF Ended, TypeInv, Conns
<1>3. JobInv' /\ LaneInv'
  BY <1>2, FinishJob, WorkLane
<1>4. Txd(h)
  BY <1>2 DEF TxInv, Txd
<1>5. ASSUME NEW g \in Handles \ {h} PROVE Txd(g)
  <2>1. conn[g].tx => writer' = g
    BY DEF TxInv
  <2> QED BY <1>2, <2>1, FinishEffect, OthersTx
<1>6. writer' \in Handles => conn'[writer'].tx
  BY DEF TxInv
<1>7. TxInv'
  BY <1>1, <1>4, <1>5, <1>6, TxNext
<1>8. Answered(c, "error", 0)
  BY <1>1 DEF Answered
<1>9. OutInv'
  BY <1>1, <1>8, FinishEffect, KeepsOut
<1> QED BY <1>3, <1>7, <1>9

(* Nobody else is in a transaction when BEGIN IMMEDIATE succeeds. *)
LEMMA BeginKeeps ==
  ASSUME IInv, None \notin Handles, NEW h \in Handles, Begin(h)
  PROVE  IInv'
<1> DEFINE c == job[h].call
           n == job[h].next
<1> USE DEF IInv
<1>1. /\ Running(h) /\ c \in Calls /\ IsTransaction(c) /\ ~conn[h].tx /\ conn[h].state = "open"
      /\ UNCHANGED <<rows, lane, applied, stop, use>>
  BY JobType DEF Begin, Live, InTransaction, IsTransaction
<1>2. TypeInv'
  BY WorkTypes DEF Works
<1>3. n = 1
  BY <1>1 DEF JobInv
<1>4. CASE JobEnds(h, "error") /\ UNCHANGED <<writer, conn>>
  BY <1>1, <1>2, <1>4, EndsWithNothing DEF Finishes
<1>5. CASE /\ MayWrite(h) /\ writer' = h
           /\ conn' = [conn EXCEPT ![h].tx = TRUE, ![h].sees = rows]
           /\ UNCHANGED <<call, job>>
  <2>1. /\ conn'[h].tx /\ conn'[h].state = "open" /\ conn'[h].sees = rows
        /\ conn'[h].doomed = conn[h].doomed
        /\ \A g \in Handles \ {h} : conn'[g] = conn[g]
    BY <1>1, <1>5 DEF TypeInv, Conns
  <2>2. \A g \in Handles : Running(g)' <=> Running(g)
    BY <1>1, <1>5, SameUse DEF Running
  <2>3. Jobbed(h)
    BY <1>1, <1>3, <1>5, <2>1, <2>2 DEF JobInv, Jobbed
  <2>4. ASSUME NEW g \in Handles \ {h} PROVE Jobbed(g) /\ Txd(g)
    <3>1. ~conn[g].tx
      BY <1>5, Alone DEF MayWrite
    <3> QED BY <1>1, <1>5, <2>1, <2>2, <3>1, OthersJob, OthersTx
  <2>5. ~conn[h].doomed
    BY <1>1 DEF TxInv
  <2>6. Txd(h)
    <3>1. 1 .. n - 1 = {}
      BY <1>3
    <3>2. \A k \in Keys : ~WroteKey(c, n, k)
      BY <3>1 DEF WroteKey
    <3>3. job' = job /\ writer' = h /\ rows' = rows /\ Running(h)'
      BY <1>1, <1>5, <2>2
    <3> HIDE DEF c, n
    <3>4. /\ conn'[h].doomed <=> \E j \in 1 .. n - 1 : StepsOf(c)[j].kind = "defer"
          /\ \A j \in 1 .. n - 1 : StepGood(StepsOf(c)[j])
          /\ \A k \in Keys : conn'[h].sees[k] = IF WroteKey(c, n, k) THEN c ELSE rows[k]
      BY <2>1, <2>5, <3>1, <3>2
    <3> QED BY <1>1, <2>1, <3>3, <3>4 DEF Txd, c, n
  <2>7. JobInv' /\ TxInv'
    BY <1>1, <1>5, <2>1, <2>3, <2>4, <2>6, JobsNext, TxNext
  <2>8. LaneInv'
    <3>1. \A g \in Handles : conn'[g].state = conn[g].state
      BY <1>1, <2>1
    <3>2. \A g \in Handles : lane[g] # <<>> => conn[g].state \in {"open", "closed"}
      BY DEF LaneInv
    <3> QED BY <1>1, <1>5, <2>2, <3>1, <3>2, LanesStay
  <2>9. OutInv'
    BY <1>1, <1>5, OutNext DEF OutInv
  <2> QED BY <1>2, <2>7, <2>8, <2>9
<1> QED BY <1>4, <1>5 DEF Begin

LEMMA InsideTransaction ==
  ASSUME IInv, NEW h \in Handles, conn[h].tx
  PROVE  LET c == job[h].call
             n == job[h].next
         IN  /\ Running(h) /\ c \in Calls /\ c \in Nat /\ IsTransaction(c) /\ writer = h
             /\ applied[c] = 0 /\ Len(UnitsOf(c)) = 1 /\ HandleOf(c) = h
             /\ Len(StepsOf(c)) \in Nat /\ n \in 1 .. Len(StepsOf(c)) + 1
             /\ More(h) <=> n <= Len(StepsOf(c))
             /\ conn[h].state = "open"
<1> USE DEF IInv
<1>1. Running(h) /\ writer = h /\ IsTransaction(job[h].call) /\ conn[h].state = "open"
  BY DEF TxInv
<1> QED BY <1>1, JobType, AskedType, Units DEF JobInv, More

LEMMA TransactionStepKeeps ==
  ASSUME IInv, None \notin Handles, NEW h \in Handles, TransactionStep(h)
  PROVE  IInv'
<1> DEFINE c == job[h].call
           n == job[h].next
           s == StepOf(h)
<1> USE DEF IInv
<1>1. conn[h].tx /\ More(h) /\ UNCHANGED <<rows, lane, applied, stop, use>>
  BY DEF TransactionStep
<1>2. /\ Running(h) /\ c \in Calls /\ c \in Nat /\ IsTransaction(c) /\ writer = h
      /\ applied[c] = 0 /\ n \in 1 .. Len(StepsOf(c)) /\ s = StepsOf(c)[n] /\ s \in Step
      /\ conn[h].state = "open"
  BY <1>1, InsideTransaction, JobType, StepTyped
<1>3. TypeInv'
  BY WorkTypes DEF Works
<1>4. CASE Rollback(h)
  BY <1>1, <1>2, <1>3, <1>4, EndsWithNothing DEF Rollback, Finishes
<1>5. CASE /\ s.kind # "fail" /\ Meets(s.want, Counted(h, s))
           /\ conn' = [conn EXCEPT ![h].sees = Stepped(@, s, c),
                                   ![h].changes = Changes(h, s),
                                   ![h].doomed = @ \/ s.kind = "defer"]
           /\ job' = [job EXCEPT ![h].next = @ + 1] /\ UNCHANGED <<writer, call>>
  <2>1. Advances(h)
    BY <1>1, <1>5 DEF Advances
  <2>2. /\ conn'[h].tx /\ conn'[h].state = "open" /\ conn'[h].sees = Stepped(conn[h].sees, s, c)
        /\ conn'[h].doomed <=> conn[h].doomed \/ s.kind = "defer"
        /\ \A g \in Handles \ {h} : conn'[g] = conn[g]
    <3> DEFINE seen == Stepped(conn[h].sees, s, c)
               done == Changes(h, s)
               d == conn[h].doomed \/ s.kind = "defer"
    <3>1. conn' = [conn EXCEPT ![h] = [conn[h] EXCEPT !.sees = seen, !.changes = done, !.doomed = d]]
      BY <1>5
    <3>2. conn \in [Handles -> Conns] /\ conn[h].tx /\ conn[h].state = "open"
      BY <1>1, <1>2 DEF TypeInv
    <3> HIDE DEF seen, done, d
    <3>3. conn'[h] = [conn[h] EXCEPT !.sees = seen, !.changes = done, !.doomed = d]
      BY <3>1, <3>2
    <3>4. \A g \in Handles \ {h} : conn'[g] = conn[g]
      BY <3>1, <3>2
    <3>5. conn'[h].tx /\ conn'[h].state = "open" /\ conn'[h].sees = seen /\ conn'[h].doomed = d
      BY <3>2, <3>3 DEF Conns
    <3> QED BY <3>4, <3>5 DEF seen, d
  <2>3. JobInv'
    BY <1>1, <1>2, <2>1, <2>2, AdvanceJob
  <2>4. LaneInv'
    BY <1>1, <1>2, <2>1, <2>2, WorkLane
  <2>5. /\ job'[h].call = c /\ job'[h].next = n + 1 /\ Running(h)'
        /\ 1 .. (n + 1) - 1 = (1 .. n - 1) \cup {n}
    BY <1>2, <2>1, AdvanceEffect
  <2>6. conn[h].doomed <=> \E j \in 1 .. n - 1 : StepsOf(c)[j].kind = "defer"
    BY <1>1 DEF TxInv
  <2>7. conn'[h].doomed <=> \E j \in 1 .. (n + 1) - 1 : StepsOf(c)[j].kind = "defer"
    BY <1>2, <2>2, <2>5, <2>6
  <2>8. \A j \in 1 .. (n + 1) - 1 : StepGood(StepsOf(c)[j])
    <3>1. StepGood(s)
      BY <1>2, <1>5 DEF StepGood, Truth, Counted, Changes, Step, Kinds, Writes
    <3>2. \A j \in 1 .. n - 1 : StepGood(StepsOf(c)[j])
      BY <1>1 DEF TxInv
    <3> QED BY <1>2, <2>5, <3>1, <3>2
  <2>9. \A k \in Keys : conn'[h].sees[k] = IF WroteKey(c, n + 1, k) THEN c ELSE rows[k]
    <3>1. \A k \in Keys : conn[h].sees[k] = IF WroteKey(c, n, k) THEN c ELSE rows[k]
      BY <1>1 DEF TxInv
    <3>2. \A k \in Keys : WroteKey(c, n + 1, k) <=> WroteKey(c, n, k) \/ (Writes(s) /\ s.key = k)
      BY <1>2, <2>5 DEF WroteKey
    <3>3. conn[h].sees \in [Keys -> Nat]
      BY ConnTypes
    <3>4. \A k \in Keys : conn'[h].sees[k] = IF Writes(s) /\ s.key = k THEN c ELSE conn[h].sees[k]
      <4> HIDE DEF s, c
      <4> QED BY <1>2, <2>2, <3>3 DEF Stepped
    <3> QED BY <3>1, <3>2, <3>4
  <2>10. Txd(h)
    <3> HIDE DEF c, n, s
    <3> QED BY <1>1, <1>2, <1>5, <2>2, <2>5, <2>7, <2>8, <2>9 DEF Txd
  <2>11. ASSUME NEW g \in Handles \ {h} PROVE Txd(g)
    <3>1. ~conn[g].tx
      BY <1>1, Alone
    <3> QED BY <1>1, <1>2, <2>1, <2>2, <3>1, AdvanceEffect, OthersTx
  <2>12. TxInv'
    BY <1>1, <1>2, <1>5, <2>2, <2>10, <2>11, TxNext
  <2>13. OutInv'
    BY <1>1, <1>2, <2>1, AdvanceEffect, KeepsOut DEF OutInv
  <2> QED BY <1>3, <2>3, <2>4, <2>12, <2>13
<1> QED BY <1>4, <1>5 DEF TransactionStep

(* What a transaction saw is on the disk, and answered as it must be. *)
LEMMA CommitKeeps ==
  ASSUME IInv, None \notin Handles, NEW h \in Handles, Commit(h)
  PROVE  IInv'
<1> DEFINE c == job[h].call
           n == job[h].next
<1> USE DEF IInv
<1>1. conn[h].tx /\ ~More(h) /\ UNCHANGED <<lane, stop, use>>
  BY DEF Commit
<1>2. /\ Running(h) /\ c \in Calls /\ IsTransaction(c) /\ writer = h
      /\ applied[c] = 0 /\ Len(UnitsOf(c)) = 1 /\ HandleOf(c) = h
      /\ Len(StepsOf(c)) \in Nat /\ n = Len(StepsOf(c)) + 1
      /\ conn[h].state = "open"
  BY <1>1, InsideTransaction
<1>3. TypeInv'
  BY WorkTypes DEF Works
<1>4. CASE Rollback(h) /\ UNCHANGED <<rows, applied>>
  BY <1>1, <1>2, <1>3, <1>4, EndsWithNothing DEF Rollback, Finishes
<1>5. CASE /\ ~conn[h].doomed /\ rows' = conn[h].sees /\ conn' = Ended(h) /\ writer' = None
           /\ applied' = [applied EXCEPT ![c] = @ + 1] /\ JobEnds(h, "ok")
  <2>1. Finishes(h, "ok")
    BY <1>1, <1>5 DEF Finishes
  <2>2. /\ ~conn'[h].tx /\ ~conn'[h].doomed /\ conn'[h].state = "open"
        /\ \A g \in Handles \ {h} : conn'[g] = conn[g]
    BY <1>2, <1>5 DEF Ended, TypeInv, Conns
  <2>3. /\ applied'[c] = 1 /\ \A d \in Calls \ {c} : applied'[d] = applied[d]
    BY <1>2, <1>5 DEF TypeInv
  <2>4. JobInv' /\ LaneInv'
    BY <1>2, <2>1, <2>2, <2>3, FinishJob, WorkLane
  <2>5. Txd(h)
    BY <2>2 DEF Txd
  <2>6. ASSUME NEW g \in Handles \ {h} PROVE Txd(g)
    <3>1. ~conn[g].tx
      BY <1>1, Alone
    <3> QED BY <1>2, <2>1, <2>2, <3>1, FinishEffect, OthersTx
  <2>7. TxInv'
    BY <1>1, <1>5, <2>5, <2>6, TxNext
  <2>8. Answered(c, "ok", 1)
    <3>1. (Len(StepsOf(c)) + 1) - 1 = Len(StepsOf(c))
      BY <1>2
    <3>2. \A j \in 1 .. Len(StepsOf(c)) : StepsOf(c)[j].kind # "defer" /\ StepGood(StepsOf(c)[j])
      BY <1>1, <1>2, <1>5, <3>1 DEF TxInv
    <3> QED BY <1>2, <3>2 DEF Answered, StepGood
  <2>9. OutInv'
    BY <1>2, <2>1, <2>3, <2>8, FinishEffect, KeepsOut
  <2> QED BY <1>3, <2>4, <2>7, <2>9
<1> QED BY <1>4, <1>5 DEF Commit

-----------------------------------------------------------------------------
(* The invariant is kept: the steps of the owner.                           *)

(* A step that no worker and no transaction takes part in. *)
LEMMA JobsStay ==
  ASSUME TypeInv, JobInv, TxInv, UNCHANGED <<rows, writer, job, applied, use>>,
         \A g \in Handles : /\ conn'[g].tx = conn[g].tx /\ conn'[g].doomed = conn[g].doomed
                            /\ conn'[g].sees = conn[g].sees
                            /\ \/ conn'[g].state = conn[g].state
                               \/ conn[g].state = "none",
         \A d \in Calls : call[d].at = "running" => call'[d].at = "running"
  PROVE  JobInv' /\ TxInv'
<1>1. \A g \in Handles : Running(g)' <=> Running(g)
  BY SameUse DEF Running
<1>2. ASSUME NEW g \in Handles PROVE Jobbed(g)
  <2>1. Running(g) => job[g].call \in Calls /\ conn'[g].state = conn[g].state
    BY JobType DEF JobInv
  <2> QED BY <1>1, <2>1 DEF JobInv, Jobbed
<1>3. ASSUME NEW g \in Handles PROVE Txd(g)
  BY <1>1 DEF TxInv, Txd
<1>4. writer' \in Handles => conn'[writer'].tx
  BY DEF TxInv
<1> QED BY <1>2, <1>3, <1>4, JobsNext, TxNext

LEMMA OpenKeeps ==
  ASSUME IInv, NEW h \in Handles, Open(h) \/ OpenFails(h)
  PROVE  IInv'
<1> USE DEF IInv
<1>1. /\ UNCHANGED <<rows, writer, lane, job, call, applied, stop, use>> /\ conn[h].state = "none"
      /\ \A g \in Handles : /\ conn'[g].tx = conn[g].tx /\ conn'[g].doomed = conn[g].doomed
                            /\ conn'[g].sees = conn[g].sees
                            /\ conn'[g].state = conn[g].state \/ conn[g].state = "none"
  <2>1. UNCHANGED <<rows, writer, lane, job, call, applied, stop, use>> /\ conn[h].state = "none"
    BY DEF Open, OpenFails
  <2>2. conn \in [Handles -> Conns]
    BY DEF TypeInv
  <2>3. PICK st : conn' = [conn EXCEPT ![h].state = st]
    BY DEF Open, OpenFails
  <2>4. \A g \in Handles : conn'[g] = IF g = h THEN [conn[g] EXCEPT !.state = st] ELSE conn[g]
    BY <2>2, <2>3
  <2>5. \A g \in Handles : /\ conn'[g].tx = conn[g].tx /\ conn'[g].doomed = conn[g].doomed
                           /\ conn'[g].sees = conn[g].sees
                           /\ g # h => conn'[g].state = conn[g].state
    BY <2>2, <2>4 DEF Conns
  <2> QED BY <2>1, <2>5
<1>2. TypeInv'
  BY OwnerTypes
<1>3. JobInv' /\ TxInv'
  BY <1>1, JobsStay
<1>4. LaneInv'
  <2>1. \A g \in Handles : Running(g)' <=> Running(g)
    BY <1>1, SameUse DEF Running
  <2>2. \A g \in Handles : lane[g] # <<>> => conn'[g].state \in {"open", "closed"}
    BY <1>1 DEF LaneInv
  <2> QED BY <1>1, <2>1, <2>2, LanesStay
<1>5. OutInv'
  BY <1>1, OutNext DEF OutInv
<1> QED BY <1>2, <1>3, <1>4, <1>5

LEMMA StopKeeps == ASSUME IInv, RequestStop PROVE IInv'
<1> USE DEF IInv
<1>1. UNCHANGED <<rows, writer, conn, lane, job, call, applied, use>>
  BY DEF RequestStop
<1>2. TypeInv'
  BY OwnerTypes
<1>3. JobInv' /\ TxInv'
  BY <1>1, JobsStay
<1>4. LaneInv'
  <2>1. \A g \in Handles : Running(g)' <=> Running(g)
    BY <1>1, SameUse DEF Running
  <2>2. \A g \in Handles : lane[g] # <<>> => conn'[g].state \in {"open", "closed"}
    BY <1>1 DEF LaneInv
  <2> QED BY <1>1, <2>1, <2>2, LanesStay
<1>5. OutInv'
  BY <1>1, OutNext DEF OutInv
<1> QED BY <1>2, <1>3, <1>4, <1>5

LEMMA ResumesKeeps == ASSUME IInv, NEW c \in Calls, Resumes(c) PROVE IInv'
<1> USE DEF IInv
<1>1. /\ UNCHANGED <<rows, writer, conn, lane, job, applied, stop, use>> /\ call[c].at = "worked"
      /\ call'[c].at = "done" /\ call'[c].out \in {call[c].out, "cancelled"}
      /\ \A d \in Calls \ {c} : call'[d] = call[d]
  BY DEF Resumes, TypeInv
<1>2. TypeInv'
  BY OwnerTypes
<1>3. JobInv' /\ TxInv'
  BY <1>1, JobsStay
<1>4. LaneInv'
  <2>1. \A g \in Handles : Running(g)' <=> Running(g)
    BY <1>1, SameUse DEF Running
  <2>2. \A g \in Handles : lane[g] # <<>> => conn'[g].state \in {"open", "closed"}
    BY <1>1 DEF LaneInv
  <2> QED BY <1>1, <2>1, <2>2, LanesStay
<1>5. OutInv'
  <2>1. Answered(c, call[c].out, applied[c]) => Answered(c, call'[c].out, applied[c])
    BY <1>1 DEF Answered
  <2> QED BY <1>1, <2>1, OutNext DEF OutInv
<1> QED BY <1>2, <1>3, <1>4, <1>5

(* A call is the last of the lane that it joins. *)
LEMMA CallKeeps == ASSUME IInv, NEW c \in Calls, CallMethod(c) PROVE IInv'
<1>0. PICK h \in Handles : h = HandleOf(c)
  BY AskedType DEF IInv
<1> USE DEF IInv
<1>1. /\ UNCHANGED <<rows, writer, conn, job, applied, stop, use>> /\ call[c].at = "free"
      /\ \A d \in 1 .. c - 1 : call[d].at # "free"
      /\ conn[h].state \in {"open", "closed"}
  BY <1>0 DEF CallMethod
<1>2. TypeInv'
  BY OwnerTypes
<1>3. /\ \A d \in Calls \ {c} : call'[d] = call[d]
      /\ \/ call'[c].at = "done" /\ call'[c].out = "cancelled" /\ lane' = lane
         \/ /\ call'[c].at = "posted" /\ call'[c].out = call[c].out
            /\ lane' = [lane EXCEPT ![h] = Append(@, c)]
  BY <1>0 DEF CallMethod, TypeInv
<1>4. JobInv' /\ TxInv'
  BY <1>1, <1>3, JobsStay
<1>5. OutInv'
  <2>1. applied[c] = 0 /\ call[c].out = "none" /\ Answered(c, call[c].out, applied[c])
    BY <1>1 DEF LaneInv, OutInv
  <2>2. Answered(c, call'[c].out, applied[c])
    BY <1>3, <2>1 DEF Answered
  <2> QED BY <1>1, <1>3, <2>1, <2>2, OutNext DEF OutInv
<1>6. \A d \in Calls : call'[d].at = "free" =>
        applied'[d] = 0 /\ \A e \in Calls : e > d => call'[e].at = "free"
  <2>1. ASSUME NEW d \in Calls, call'[d].at = "free", NEW e \in Calls, e > d
        PROVE  call'[e].at = "free"
    <3>1. d # c /\ call[d].at = "free" /\ d \in Nat /\ c \in Nat /\ d >= 1
      BY <1>3, <2>1, AskedType DEF Calls
    <3>2. d > c
      BY <1>1, <3>1
    <3>3. e # c /\ call[e].at = "free"
      BY <2>1, <3>1, <3>2, AskedType DEF LaneInv
    <3> QED BY <1>3, <3>3
  <2> QED BY <1>1, <1>3, <2>1 DEF LaneInv
<1>7. \A g \in Handles : Running(g)' <=> Running(g)
  BY <1>1, SameUse DEF Running
<1>8. \A d : Latest(d) => LatestNext(d)
  BY <1>1 DEF Latest, LatestNext
<1>9. \A d \in Calls : d > c => applied[d] = 0 /\ call[d].at = "free"
  BY <1>1 DEF LaneInv
<1>10. ASSUME NEW g \in Handles, lane'[g] = lane[g] PROVE Laned(g)
  <2>1. ASSUME NEW i \in 1 .. Len(lane[g]), NEW d, d = lane[g][i]
        PROVE  /\ HandleOf(d) = g /\ call'[d].at = "posted" /\ applied'[d] = 0 /\ LatestNext(d)
               /\ Running(g)' => job'[g].call < d
               /\ \A j \in 1 .. Len(lane[g]) : i < j => d < lane[g][j]
    <3>1. d \in Calls
      BY <2>1 DEF TypeInv
    <3>2. /\ HandleOf(d) = g /\ call[d].at = "posted" /\ applied[d] = 0 /\ Latest(d)
          /\ Running(g) => job[g].call < d
          /\ \A j \in 1 .. Len(lane[g]) : i < j => d < lane[g][j]
      BY <2>1 DEF LaneInv
    <3> QED BY <1>1, <1>3, <1>7, <1>8, <3>1, <3>2
  <2>2. Running(g)' => LatestNext(job'[g].call)
    BY <1>1, <1>7, <1>8 DEF LaneInv
  <2>3. lane[g] # <<>> => conn'[g].state \in {"open", "closed"}
    BY <1>1 DEF LaneInv
  <2> QED BY <1>10, <2>1, <2>2, <2>3 DEF Laned
<1>11. CASE lane' = lane
  BY <1>1, <1>2, <1>4, <1>5, <1>6, <1>10, <1>11, LanesNext
<1>12. CASE call'[c].at = "posted" /\ lane' = [lane EXCEPT ![h] = Append(@, c)]
  <2> DEFINE q == lane[h]
  <2>1. /\ q \in Seq(Calls) /\ lane'[h] = Append(q, c) /\ \A g \in Handles \ {h} : lane'[g] = lane[g]
    BY <1>1, <1>12 DEF TypeInv
  <2>2. /\ Len(lane'[h]) = Len(q) + 1 /\ lane'[h][Len(q) + 1] = c /\ Len(q) \in Nat
        /\ \A i \in 1 .. Len(q) : lane'[h][i] = q[i] /\ q[i] \in Calls
    BY <2>1
  <2>3. \A i \in 1 .. Len(q) : q[i] < c
    <3>1. ASSUME NEW i \in 1 .. Len(q) PROVE q[i] < c
      <4>1. q[i] \in Calls /\ call[q[i]].at = "posted" /\ q[i] \in Nat /\ c \in Nat
        BY <1>1, <2>2, AskedType DEF LaneInv
      <4> QED BY <1>1, <1>9, <4>1
    <3> QED BY <3>1
  <2>4. Running(h) => job[h].call < c
    <3>1. Running(h) => job[h].call \in Calls /\ call[job[h].call].at = "running"
                        /\ job[h].call \in Nat /\ c \in Nat
      BY <1>1, OneHandle, AskedType
    <3> QED BY <1>1, <1>9, <3>1
  <2>5. LatestNext(c)
    BY <1>1, <1>9 DEF LatestNext
  <2>6. ASSUME NEW i \in 1 .. Len(lane'[h]), NEW d, d = lane'[h][i]
        PROVE  /\ HandleOf(d) = h /\ call'[d].at = "posted" /\ applied'[d] = 0 /\ LatestNext(d)
               /\ Running(h)' => job'[h].call < d
               /\ \A j \in 1 .. Len(lane'[h]) : i < j => d < lane'[h][j]
    <3>1. CASE i = Len(q) + 1
      <4>1. applied[c] = 0
        BY <1>1 DEF LaneInv
      <4> QED BY <1>0, <1>1, <1>7, <1>12, <2>2, <2>4, <2>5, <2>6, <3>1, <4>1
    <3>2. CASE i \in 1 .. Len(q)
      <4>1. d = q[i] /\ d \in Calls /\ d < c
        BY <2>2, <2>3, <2>6, <3>2
      <4>2. /\ HandleOf(d) = h /\ call[d].at = "posted" /\ applied[d] = 0 /\ Latest(d)
            /\ Running(h) => job[h].call < d
            /\ \A j \in 1 .. Len(q) : i < j => d < q[j]
        BY <1>1, <3>2, <4>1 DEF LaneInv
      <4>3. \A j \in 1 .. Len(q) + 1 : j \in 1 .. Len(q) \/ j = Len(q) + 1
        BY <2>2
      <4>4. \A j \in 1 .. Len(lane'[h]) : i < j => d < lane'[h][j]
        BY <2>2, <4>1, <4>2, <4>3
      <4> QED BY <1>1, <1>3, <1>7, <1>8, <1>12, <4>1, <4>2, <4>4
    <3> QED BY <2>2, <3>1, <3>2
  <2>7. Running(h)' => LatestNext(job'[h].call)
    BY <1>1, <1>7, <1>8 DEF LaneInv
  <2>8. Laned(h)
    BY <1>1, <2>6, <2>7 DEF Laned
  <2> QED BY <1>1, <1>2, <1>4, <1>5, <1>6, <1>10, <2>1, <2>8, LanesNext
<1> QED BY <1>3, <1>11, <1>12

LEMMA TailIs ==
  ASSUME NEW S, NEW q \in Seq(S), q # <<>>
  PROVE  /\ Len(q) \in Nat /\ 1 \in 1 .. Len(q) /\ Head(q) = q[1] /\ Len(Tail(q)) = Len(q) - 1
         /\ \A i \in 1 .. Len(q) - 1 : Tail(q)[i] = q[i + 1] /\ i + 1 \in 1 .. Len(q)
OBVIOUS

(* The first of the lane is next, and nothing made after it has been done. *)
LEMMA StartKeeps == ASSUME IInv, NEW h \in Handles, JobStarts(h) PROVE IInv'
<1> USE DEF IInv
<1> DEFINE q == lane[h]
<1>1. /\ UNCHANGED <<rows, writer, conn, applied, stop, use>> /\ job[h] = Idle /\ q # <<>>
      /\ lane' = [lane EXCEPT ![h] = Tail(q)]
  BY DEF JobStarts
<1>2. TypeInv'
  BY OwnerTypes
<1>3. /\ q \in Seq(Calls) /\ lane'[h] = Tail(q) /\ \A g \in Handles \ {h} : lane'[g] = lane[g]
  BY <1>1 DEF TypeInv
<1>4. /\ Len(q) \in Nat /\ 1 \in 1 .. Len(q) /\ Head(q) = q[1] /\ Len(lane'[h]) = Len(q) - 1
      /\ \A i \in 1 .. Len(q) - 1 : lane'[h][i] = q[i + 1] /\ i + 1 \in 1 .. Len(q)
  <2> HIDE DEF q
  <2> QED BY <1>1, <1>3, TailIs
<1>5. PICK c : c = Head(q)
  OBVIOUS
<1>6. /\ c \in Calls /\ call[c].at = "posted" /\ HandleOf(c) = h /\ applied[c] = 0 /\ Latest(c)
      /\ \A j \in 1 .. Len(q) : 1 < j => c < q[j]
  BY <1>3, <1>4, <1>5 DEF LaneInv
<1>7. ~Running(h) /\ ~conn[h].tx /\ conn[h].state \in {"open", "closed"}
  BY <1>1, IdleRunsNothing DEF JobInv, LaneInv
<1>8. /\ \A d \in Calls \ {c} : call'[d] = call[d]
      /\ \A g \in Handles \ {h} : job'[g] = job[g]
      /\ \/ call'[c].at = "worked" /\ call'[c].out = "cancelled" /\ job' = job
         \/ /\ call'[c].at = "running" /\ call'[c].out = call[c].out
            /\ job'[h].call = c /\ job'[h].next = 1
  <2>1. CASE stop
    <3>1. call' = [call EXCEPT ![c] = [at |-> "worked", out |-> "cancelled"]] /\ job' = job
      BY <1>5, <2>1 DEF JobStarts
    <3> QED BY <1>6, <3>1 DEF TypeInv
  <2>2. CASE ~stop
    <3>1. /\ call' = [call EXCEPT ![c].at = "running"]
          /\ job' = [job EXCEPT ![h] = [call |-> c, next |-> 1]]
      BY <1>5, <2>2 DEF JobStarts
    <3> QED BY <1>6, <3>1 DEF TypeInv
  <2> QED BY <2>1, <2>2
<1>9. /\ \A g \in Handles \ {h} : Running(g)' <=> Running(g)
      /\ Running(h)' => call'[c].at = "running" /\ job'[h].call = c /\ job'[h].next = 1
      /\ ~Running(h)' => job' = job
  BY <1>1, <1>6, <1>7, <1>8, SameUse DEF Running
<1>10. JobInv'
  <2>1. Jobbed(h)
    <3>1. Len(StepsOf(c)) \in Nat
      BY <1>6, AskedType
    <3>2. CASE Running(h)'
      BY <1>1, <1>6, <1>7, <1>9, <3>1, <3>2 DEF Jobbed
    <3>3. CASE ~Running(h)'
      BY <1>1, <1>7, <1>9, <3>3 DEF Jobbed
    <3> QED BY <3>2, <3>3
  <2>2. ASSUME NEW g \in Handles \ {h} PROVE Jobbed(g)
    <3>1. Running(g) => job[g].call \in Calls \ {c}
      BY <1>6, OneHandle
    <3> QED BY <1>1, <1>8, <1>9, <3>1 DEF JobInv, Jobbed
  <2> QED BY <1>1, <2>1, <2>2, JobsNext
<1>11. TxInv'
  <2>1. Txd(h)
    BY <1>1, <1>7 DEF TxInv, Txd
  <2>2. ASSUME NEW g \in Handles \ {h} PROVE Txd(g)
    BY <1>1, <1>8, <1>9, OthersTx DEF TxInv
  <2> QED BY <1>1, <2>1, <2>2, TxNext DEF TxInv
<1>12. OutInv'
  <2>1. Answered(c, call[c].out, applied[c]) => Answered(c, call'[c].out, applied[c])
    BY <1>8 DEF Answered
  <2>2. call[c].out = "none"
    BY <1>6 DEF OutInv
  <2> QED BY <1>1, <1>6, <1>8, <2>1, <2>2, OutNext DEF OutInv
<1>13. LaneInv'
  <2>1. \A d : Latest(d) => LatestNext(d)
    BY <1>1 DEF Latest, LatestNext
  <2>2. ASSUME NEW g \in Handles \ {h} PROVE Laned(g)
    <3>1. ASSUME NEW i \in 1 .. Len(lane[g]), NEW d, d = lane[g][i]
          PROVE  /\ HandleOf(d) = g /\ call'[d].at = "posted" /\ applied'[d] = 0 /\ LatestNext(d)
                 /\ Running(g)' => job'[g].call < d
                 /\ \A j \in 1 .. Len(lane[g]) : i < j => d < lane[g][j]
      <4>1. d \in Calls
        BY <3>1 DEF TypeInv
      <4>2. /\ HandleOf(d) = g /\ call[d].at = "posted" /\ applied[d] = 0 /\ Latest(d)
            /\ Running(g) => job[g].call < d
            /\ \A j \in 1 .. Len(lane[g]) : i < j => d < lane[g][j]
        BY <3>1 DEF LaneInv
      <4> QED BY <1>1, <1>6, <1>8, <1>9, <2>1, <4>1, <4>2
    <3>2. Running(g)' => LatestNext(job'[g].call)
      BY <1>8, <1>9, <2>1 DEF LaneInv
    <3>3. lane[g] # <<>> => conn'[g].state \in {"open", "closed"}
      BY <1>1 DEF LaneInv
    <3> QED BY <1>3, <3>1, <3>2, <3>3 DEF Laned
  <2>3. Laned(h)
    <3>1. ASSUME NEW i \in 1 .. Len(lane'[h]), NEW d, d = lane'[h][i]
          PROVE  /\ HandleOf(d) = h /\ call'[d].at = "posted" /\ applied'[d] = 0 /\ LatestNext(d)
                 /\ Running(h)' => job'[h].call < d
                 /\ \A j \in 1 .. Len(lane'[h]) : i < j => d < lane'[h][j]
      <4>1. d = q[i + 1] /\ i + 1 \in 1 .. Len(q) /\ 1 < i + 1 /\ d \in Calls
        BY <1>3, <1>4, <3>1
      <4>2. /\ HandleOf(d) = h /\ call[d].at = "posted" /\ applied[d] = 0 /\ Latest(d)
            /\ \A j \in 1 .. Len(q) : i + 1 < j => d < q[j]
        BY <4>1 DEF LaneInv
      <4>3. c < d
        BY <1>6, <4>1
      <4>4. d # c
        BY <1>6, <4>1, <4>3, AskedType
      <4>5. \A j \in 1 .. Len(lane'[h]) : i < j => d < lane'[h][j]
        BY <1>4, <4>2
      <4> QED BY <1>1, <1>8, <1>9, <2>1, <4>1, <4>2, <4>3, <4>4, <4>5
    <3>2. Running(h)' => LatestNext(job'[h].call)
      BY <1>6, <1>9, <2>1
    <3> QED BY <1>1, <1>7, <3>1, <3>2 DEF Laned
  <2>4. \A d \in Calls : call'[d].at = "free" =>
          applied'[d] = 0 /\ \A e \in Calls : e > d => call'[e].at = "free"
    <3>1. ASSUME NEW d \in Calls, call'[d].at = "free", NEW e \in Calls, e > d
          PROVE  call'[e].at = "free"
      <4>1. d # c /\ call[d].at = "free"
        BY <1>8, <3>1
      <4>2. call[e].at = "free"
        BY <3>1, <4>1 DEF LaneInv
      <4> QED BY <1>6, <1>8, <4>2
    <3>2. ASSUME NEW d \in Calls, call'[d].at = "free" PROVE applied'[d] = 0
      <4>1. call[d].at = "free"
        BY <1>8, <3>2
      <4> QED BY <1>1, <4>1 DEF LaneInv
    <3> QED BY <3>1, <3>2
  <2> QED BY <1>1, <2>2, <2>3, <2>4, LanesNext
<1> QED BY <1>2, <1>10, <1>11, <1>12, <1>13

(* A crash leaves the disk, and no job to come back to. *)
LEMMA CrashKeeps == ASSUME IInv, None \notin Handles, Crash PROVE IInv'
<1> USE DEF IInv
<1>1. /\ UNCHANGED <<rows, applied, stop, use>> /\ writer' = None
      /\ \A g \in Handles : /\ lane'[g] = <<>> /\ job'[g] = Idle
                            /\ conn'[g].state = "crashed" /\ ~conn'[g].tx
      /\ \A d \in Calls : \/ call[d].at = "done" /\ call'[d] = call[d]
                          \/ call'[d].at = "lost" /\ call'[d].out = "none"
  <2>1. \A g \in Handles : conn'[g] = [conn[g] EXCEPT !.state = "crashed", !.tx = FALSE]
    BY DEF Crash
  <2>2. ASSUME NEW g \in Handles PROVE conn'[g].state = "crashed" /\ ~conn'[g].tx
    <3>1. conn[g] \in Conns
      BY DEF TypeInv
    <3> QED BY <2>1, <3>1 DEF Conns
  <2> QED BY <2>2 DEF Crash
<1>2. TypeInv'
  BY OwnerTypes
<1>3. \A g \in Handles : ~Running(g)'
  BY <1>1, SameUse DEF Running, Idle, Calls
<1>4. JobInv' /\ TxInv'
  <2>1. \A g \in Handles : Jobbed(g) /\ Txd(g)
    BY <1>1, <1>3 DEF Jobbed, Txd
  <2> QED BY <1>1, <2>1, JobsNext, TxNext
<1>5. LaneInv'
  <2>1. \A g \in Handles : Len(lane'[g]) = 0
    BY <1>1
  <2>2. \A g \in Handles : Laned(g)
    BY <1>1, <1>3, <2>1 DEF Laned
  <2>3. \A d \in Calls : call'[d].at # "free"
    BY <1>1
  <2> QED BY <1>1, <2>2, <2>3, LanesNext
<1>6. OutInv'
  <2>1. \A d \in Calls : Answered(d, call[d].out, applied[d]) => Answered(d, "none", applied[d])
    BY DEF Answered
  <2> QED BY <1>1, <2>1, OutNext DEF OutInv
<1> QED BY <1>2, <1>4, <1>5, <1>6

LEMMA InitKeeps == ASSUME StoreConstantsOK, Init PROVE IInv
<1>1. /\ use \in Use /\ \A c \in Calls : Asked(c) \in Call
      /\ Calls = 1 .. Len(use.calls)
  BY DEF Init, StoreConstantsOK, Use, Calls, Asked
<1>2. /\ rows \in [Keys -> Nat] /\ writer = None
      /\ \A h \in Handles : /\ conn[h].state = "none" /\ ~conn[h].tx /\ ~conn[h].doomed
                            /\ lane[h] = <<>> /\ job[h] = Idle /\ Len(lane[h]) = 0
      /\ \A c \in Calls : call[c].at = "free" /\ call[c].out = "none" /\ applied[c] = 0
  BY <1>1 DEF Init
<1>3. TypeInv
  <2>1. [state |-> "none", tx |-> FALSE, sees |-> rows, changes |-> 0, doomed |-> FALSE] \in Conns
    BY <1>2 DEF Conns, States
  <2>2. conn \in [Handles -> Conns]
    BY <2>1 DEF Init
  <2>3. lane \in [Handles -> Seq(Calls)]
    <3>1. <<>> \in Seq(Calls)
      OBVIOUS
    <3> QED BY <3>1 DEF Init
  <2>4. job \in [Handles -> [call : Nat, next : Nat]]
    BY DEF Init, Idle
  <2>5. call \in [Calls -> [at : Places, out : Outs]] /\ applied \in [Calls -> Nat]
    BY <1>1 DEF Init, Places, Outs
  <2> QED BY <1>1, <1>2, <2>2, <2>3, <2>4, <2>5 DEF TypeInv
<1>4. \A h \in Handles : ~Running(h)
  BY <1>2, <1>3, IdleRunsNothing
<1>5. JobInv
  BY <1>2, <1>4 DEF JobInv
<1>6. TxInv
  BY <1>2 DEF TxInv, StoreConstantsOK
<1>7. LaneInv
  BY <1>2, <1>4 DEF LaneInv
<1>8. OutInv
  <2>1. ASSUME NEW c \in Calls PROVE Len(UnitsOf(c)) \in Nat
    BY <1>3, <2>1, Units, AskedType
  <2> QED BY <1>2, <2>1 DEF OutInv, Answered
<1> QED BY <1>3, <1>5, <1>6, <1>7, <1>8 DEF IInv

LEMMA WorkKeeps ==
  ASSUME IInv, None \notin Handles, NEW h \in Handles, Works(h)
  PROVE  IInv'
BY ClosedKeeps, StatementKeeps, StatementsEndKeeps, BeginKeeps, TransactionStepKeeps, CommitKeeps
   DEF Works

LEMMA NextKeeps == ASSUME IInv, StoreConstantsOK, [Next]_vars PROVE IInv'
<1>1. CASE UNCHANGED vars
  <2>1. TypeInv'
    BY <1>1 DEF vars, IInv, TypeInv, Calls
  <2>2. JobInv'
    BY <1>1 DEF vars, IInv, JobInv, Calls, Running, Asked, HandleOf, StepsOf, IsTransaction
  <2>3. TxInv'
    <3>1. \A h \in Handles : Running(h)' <=> Running(h)
      BY <1>1 DEF vars, Calls, Running
    <3>2. \A h \in Handles : Txd(h)
      BY <1>1, <3>1 DEF vars, IInv, TxInv, Txd
    <3>3. use' = use /\ (writer' \in Handles => conn'[writer'].tx)
      BY <1>1 DEF vars, IInv, TxInv
    <3> QED BY <3>2, <3>3, TxNext
  <2>4. LaneInv'
    BY <1>1 DEF vars, IInv, LaneInv, Calls, Running, Asked, HandleOf, Latest
  <2>5. OutInv'
    <3>1. UNCHANGED <<call, applied, use>>
      BY <1>1 DEF vars
    <3> QED BY <3>1, OutNext DEF IInv, OutInv
  <2> QED BY <2>1, <2>2, <2>3, <2>4, <2>5 DEF IInv
<1>2. ASSUME NEW h \in Handles, Open(h) \/ OpenFails(h) \/ JobStarts(h) \/ Works(h) PROVE IInv'
  BY <1>2, OpenKeeps, StartKeeps, WorkKeeps DEF StoreConstantsOK
<1>3. ASSUME NEW c \in Calls, CallMethod(c) \/ Resumes(c) PROVE IInv'
  BY <1>3, CallKeeps, ResumesKeeps
<1>4. CASE RequestStop \/ Crash
  BY <1>4, StopKeeps, CrashKeeps DEF StoreConstantsOK
<1> QED BY <1>1, <1>2, <1>3, <1>4 DEF Next

(* What a script is told of a call is what happened to the rows on disk,    *)
(* whatever stops, crashes, fails or is busy, for any calls on any handles. *)
THEOREM StoreAnswers == ASSUME StoreConstantsOK PROVE Spec => []Answers
<1>1. Init => IInv
  BY InitKeeps
<1>2. IInv /\ [Next]_vars => IInv'
  BY NextKeeps
<1>3. IInv => Answers
  BY OutAnswers DEF IInv
<1> QED BY <1>1, <1>2, <1>3, PTL DEF Spec

-----------------------------------------------------------------------------
(* The refinement of AtomicStore.                                           *)

(* The plan of the abstract store. *)
Plan == [c \in Calls |-> [handle |-> HandleOf(c), units |-> UnitsOf(c)]]

(* Call c applies its next unit. *)
LEMMA Applies ==
  ASSUME IInv, IInv', use' = use, NEW c \in Calls, applied[c] < Len(UnitsOf(c)), Latest(c),
         applied' = [applied EXCEPT ![c] = @ + 1],
         \A k \in Keys : rows'[k] = IF k \in UnitsOf(c)[applied[c] + 1] THEN c ELSE rows[k]
  PROVE  Atomic!Next
<1>1. /\ DOMAIN Plan = Calls /\ Plan' = Plan
      /\ \A d \in Calls : Plan[d].handle = HandleOf(d) /\ Plan[d].units = UnitsOf(d)
  BY SameUse DEF Plan
<1>2. rows' \in [Keys -> Nat] /\ rows \in [Keys -> Nat]
  BY DEF IInv, TypeInv
<1>3. rows' = [k \in DOMAIN rows |-> IF k \in Plan[c].units[applied[c] + 1] THEN c ELSE rows[k]]
  BY <1>1, <1>2
<1>4. \A d \in DOMAIN Plan : Plan[d].handle = Plan[c].handle /\ d > c => applied[d] = 0
  BY <1>1 DEF Latest
<1>5. applied[c] < Len(Plan[c].units)
  BY <1>1
<1>6. Atomic!Apply(c)
  BY <1>3, <1>4, <1>5 DEF Atomic!Apply, Plan
<1> QED BY <1>1, <1>6 DEF Atomic!Next, Plan

(* A statement of exec, run or query is a unit of its own. *)
LEMMA StatementApplies ==
  ASSUME IInv, IInv', NEW h \in Handles, Statement(h)
  PROVE  Atomic!Next \/ UNCHANGED <<rows, applied, use>>
<1> DEFINE c == job[h].call
           n == job[h].next
           s == StepOf(h)
<1>1. /\ Live(h) /\ ~InTransaction(h) /\ More(h) /\ use' = use
  BY DEF Statement
<1>2. /\ Running(h) /\ c \in Calls /\ ~IsTransaction(c) /\ Asked(c).op # "close"
      /\ applied[c] = n - 1 /\ Len(UnitsOf(c)) = Len(StepsOf(c))
      /\ Len(StepsOf(c)) \in Nat /\ n \in 1 .. Len(StepsOf(c))
  BY <1>1, Plain
<1>3. CASE rows' = Stepped(rows, s, c) /\ applied' = [applied EXCEPT ![c] = @ + 1]
  <2>1. s = StepsOf(c)[n]
    BY DEF StepOf, StepsOf, Current
  <2>2. \A k \in Keys : k \in UnitsOf(c)[n] <=> Writes(s) /\ s.key = k
    BY <1>2, <2>1, Units DEF IInv
  <2>3. rows \in [Keys -> Nat]
    BY DEF IInv, TypeInv
  <2>4. \A k \in Keys : rows'[k] = IF Writes(s) /\ s.key = k THEN c ELSE rows[k]
    BY <1>3, <2>3 DEF Stepped
  <2>5. Latest(c)
    BY <1>2 DEF IInv, LaneInv
  <2>6. applied[c] + 1 = n /\ applied[c] < Len(UnitsOf(c))
    BY <1>2
  <2> QED BY <1>1, <1>2, <1>3, <2>2, <2>4, <2>5, <2>6, Applies
<1> QED BY <1>1, <1>3 DEF Statement

(* The commit of a transaction applies all of it. *)
LEMMA CommitApplies ==
  ASSUME IInv, IInv', NEW h \in Handles, Commit(h)
  PROVE  Atomic!Next \/ UNCHANGED <<rows, applied, use>>
<1> DEFINE c == job[h].call
           n == job[h].next
<1>1. conn[h].tx /\ ~More(h) /\ use' = use
  BY DEF Commit
<1>2. /\ Running(h) /\ c \in Calls /\ IsTransaction(c)
      /\ applied[c] = 0 /\ Len(UnitsOf(c)) = 1
      /\ Len(StepsOf(c)) \in Nat /\ n = Len(StepsOf(c)) + 1
  BY <1>1, InsideTransaction
<1>3. CASE rows' = conn[h].sees /\ applied' = [applied EXCEPT ![c] = @ + 1]
  <2>1. \A k \in Keys : conn[h].sees[k] = IF WroteKey(c, n, k) THEN c ELSE rows[k]
    BY <1>1 DEF IInv, TxInv
  <2>2. \A k \in Keys : k \in UnitsOf(c)[1] <=> WroteKey(c, n, k)
    BY <1>2, Units DEF IInv
  <2>3. Latest(c)
    BY <1>2 DEF IInv, LaneInv
  <2>4. applied[c] + 1 = 1 /\ applied[c] < Len(UnitsOf(c))
    BY <1>2
  <2> QED BY <1>1, <1>2, <1>3, <2>1, <2>2, <2>3, <2>4, Applies
<1> QED BY <1>1, <1>3 DEF Commit

(* Every other step leaves the rows alone. *)
LEMMA StepApplies ==
  ASSUME IInv, IInv', [Next]_vars
  PROVE  Atomic!Next \/ UNCHANGED <<rows, applied, use>>
<1>1. CASE UNCHANGED vars
  BY <1>1 DEF vars
<1>2. ASSUME NEW h \in Handles, Open(h) \/ OpenFails(h) \/ JobStarts(h)
      PROVE  UNCHANGED <<rows, applied, use>>
  BY <1>2 DEF Open, OpenFails, JobStarts
<1>3. ASSUME NEW h \in Handles, Works(h)
      PROVE  Atomic!Next \/ UNCHANGED <<rows, applied, use>>
  BY <1>3, StatementApplies, CommitApplies
     DEF Works, RunsClosed, StatementsEnd, Begin, TransactionStep
<1>4. ASSUME NEW c \in Calls, CallMethod(c) \/ Resumes(c)
      PROVE  UNCHANGED <<rows, applied, use>>
  BY <1>4 DEF CallMethod, Resumes
<1>5. CASE RequestStop \/ Crash
  BY <1>5 DEF RequestStop, Crash
<1> QED BY <1>1, <1>2, <1>3, <1>4, <1>5 DEF Next

(* Whatever fails, is cancelled or crashes, the rows on disk change by      *)
(* whole units: a transaction entirely or not at all, each statement of a   *)
(* script by itself, in the order the calls on a handle were made.          *)
THEOREM StoreImplementsAtomic == ASSUME StoreConstantsOK PROVE Spec => ImplementsAtomicStore
<1>1. Init => IInv
  BY InitKeeps
<1>2. IInv /\ [Next]_vars => IInv'
  BY NextKeeps
<1>3. Init => Atomic!Init
  BY DEF Init, Atomic!Init, Calls
<1>4. IInv /\ IInv' /\ [Next]_vars =>
        [Atomic!Next]_<<[c \in Calls |-> [handle |-> HandleOf(c), units |-> UnitsOf(c)]], rows, applied>>
  <2>1. use' = use => Plan' = Plan
    BY SameUse DEF Plan
  <2> QED BY <2>1, StepApplies DEF Plan
<1> QED BY <1>1, <1>2, <1>3, <1>4, PTL DEF Spec, ImplementsAtomicStore, Atomic!Spec

-----------------------------------------------------------------------------
(* Values (module SqlValues).  No step runs before all are decoded, and the *)
(* statement that a step runs on has nothing bound to it, so that what it   *)
(* gives back depends on its own parameters alone.                          *)

(* What a step that decodes gives the script, by its own parameters alone.  *)
OwnCells(o) ==
  [h \in DOMAIN Columns[o.sql] |-> IF h \in DOMAIN o.params THEN BoundTo(SqlFromJs(o.params[h])) ELSE Null]
OwnRow(o) == RowToJs(o.sql, OwnCells(o))

(* Nothing runs before all steps are decoded, and all are when one runs.    *)
DecodedInv ==
  /\ asked \in Scripts /\ state \in {"decoding", "refused", "running", "done", "failed"}
  /\ state \in {"decoding", "refused"} => results = <<>>
  /\ state \in {"running", "done", "failed"} =>
       /\ \A i \in DOMAIN asked : StepDecodes(asked[i])
       /\ steps = [i \in DOMAIN asked |-> StepFromJs(asked[i])]

(* A statement that no step runs has nothing bound to it.                   *)
BindingsInv == bindings = [sql \in DOMAIN Columns |-> Cleared(sql)]

ResultsInv ==
  /\ results \in Seq({OwnRow(asked[i]) : i \in DOMAIN asked}) /\ Len(results) =< Len(asked)
  /\ \A i \in DOMAIN results : /\ results[i] = OwnRow(asked[i])
                               /\ Len(asked[i].params) =< Len(Columns[asked[i].sql])

ValuesInv == DecodedInv /\ BindingsInv /\ ResultsInv

LEMMA ScriptTypes ==
  ASSUME SqlConstantsOK, NEW script \in Scripts
  PROVE  /\ script \in Seq(ToSet(script))
         /\ Len(script) \in Nat /\ DOMAIN script = 1 .. Len(script)
         /\ \A i \in DOMAIN script : /\ IsStep(script[i])
                                     /\ StepDecodes(script[i]) => script[i].sql \in DOMAIN Columns
<1>1. script \in Seq(ToSet(script)) /\ \A i \in DOMAIN script : IsStep(script[i])
  BY DEF SqlConstantsOK
<1> QED BY <1>1 DEF IsStep, StepDecodes

(* The step that runs binds its own parameters and nothing else.            *)
LEMMA RunsOwn ==
  ASSUME SqlConstantsOK, NEW o, IsStep(o), StepDecodes(o), BindingsInv
  PROVE  /\ o.sql \in DOMAIN Columns /\ Len(Columns[o.sql]) \in Nat /\ Len(o.params) \in Nat
         /\ StepFromJs(o).sql = o.sql /\ Len(StepFromJs(o).params) = Len(o.params)
         /\ [h \in DOMAIN Columns[o.sql] |->
              IF h \in DOMAIN StepFromJs(o).params THEN BoundTo(StepFromJs(o).params[h])
              ELSE bindings[o.sql][h]] = OwnCells(o)
<1>1. o.sql \in DOMAIN Columns /\ o.params \in Seq(JsValue)
  BY DEF IsStep, StepDecodes
<1>2. Columns[o.sql] \in Seq(STRING)
  BY <1>1 DEF SqlConstantsOK
<1>3. StepFromJs(o).sql = o.sql /\ StepFromJs(o).params = [i \in DOMAIN o.params |-> SqlFromJs(o.params[i])]
  BY DEF StepFromJs
<1>4. Len(o.params) \in Nat /\ DOMAIN o.params = 1 .. Len(o.params)
  BY <1>1
<1>5. Len(StepFromJs(o).params) = Len(o.params) /\ DOMAIN StepFromJs(o).params = DOMAIN o.params
  BY <1>3, <1>4
<1>6. bindings[o.sql] = Cleared(o.sql)
  BY <1>1 DEF BindingsInv
<1>7. \A h \in DOMAIN Columns[o.sql] : Cleared(o.sql)[h] = Null
  BY DEF Cleared
<1>8. \A h \in DOMAIN Columns[o.sql] :
        (IF h \in DOMAIN StepFromJs(o).params THEN BoundTo(StepFromJs(o).params[h]) ELSE bindings[o.sql][h])
        = (IF h \in DOMAIN o.params THEN BoundTo(SqlFromJs(o.params[h])) ELSE Null)
  BY <1>3, <1>5, <1>6, <1>7
<1>9. Len(Columns[o.sql]) \in Nat
  BY <1>2
<1> QED BY <1>1, <1>3, <1>4, <1>5, <1>8, <1>9 DEF OwnCells

LEMMA ValuesInit ==
  ASSUME SqlConstantsOK, SqlInit
  PROVE  ValuesInv
<1>1. DecodedInv /\ BindingsInv
  BY DEF SqlInit, DecodedInv, BindingsInv
<1>2. Len(asked) \in Nat
  BY ScriptTypes DEF SqlInit
<1>3. <<>> \in Seq({OwnRow(asked[i]) : i \in DOMAIN asked}) /\ Len(<<>>) = 0 /\ DOMAIN <<>> = {}
  OBVIOUS
<1> QED BY <1>1, <1>2, <1>3 DEF SqlInit, ValuesInv, ResultsInv

LEMMA ExecuteKeeps ==
  ASSUME SqlConstantsOK, ValuesInv, ExecuteStep
  PROVE  ValuesInv'
<1> DEFINE i == Len(results) + 1
           o == asked[i]
           bound == [h \in DOMAIN Columns[steps[i].sql] |->
                      IF h \in DOMAIN steps[i].params THEN BoundTo(steps[i].params[h])
                      ELSE bindings[steps[i].sql][h]]
           Rows == {OwnRow(asked[j]) : j \in DOMAIN asked}
<1>1. /\ state = "running" /\ Len(results) < Len(steps)
      /\ bindings' = ResetStatement(steps[i].sql, bound)
      /\ IF Len(steps[i].params) > Len(Columns[steps[i].sql])
         THEN state' = "failed" /\ results' = <<>>
         ELSE results' = Append(results, RowToJs(steps[i].sql, bound)) /\ state' = state
      /\ asked' = asked /\ steps' = steps
  BY DEF ExecuteStep
<1>2. /\ asked \in Scripts /\ \A j \in DOMAIN asked : StepDecodes(asked[j])
      /\ steps = [j \in DOMAIN asked |-> StepFromJs(asked[j])]
      /\ BindingsInv /\ ResultsInv
  BY <1>1 DEF ValuesInv, DecodedInv
<1>3. Len(asked) \in Nat /\ DOMAIN asked = 1 .. Len(asked) /\ \A j \in DOMAIN asked : IsStep(asked[j])
  BY <1>2, ScriptTypes
<1>4. Len(steps) = Len(asked)
  BY <1>2, <1>3
<1>5. results \in Seq(Rows) /\ Len(results) \in Nat /\ DOMAIN results = 1 .. Len(results)
  <2> HIDE DEF Rows
  <2>1. results \in Seq(Rows)
    BY <1>2 DEF ResultsInv, Rows
  <2> QED BY <2>1
<1>6. i \in DOMAIN asked /\ steps[i] = StepFromJs(o)
  <2>1. i \in DOMAIN asked
    BY <1>1, <1>3, <1>4, <1>5
  <2> HIDE DEF i
  <2> QED BY <1>2, <2>1
<1>7. IsStep(o) /\ StepDecodes(o)
  BY <1>2, <1>3, <1>6
<1> HIDE DEF i, o
<1>8. /\ o.sql \in DOMAIN Columns /\ Len(Columns[o.sql]) \in Nat /\ Len(o.params) \in Nat
      /\ steps[i].sql = o.sql /\ Len(steps[i].params) = Len(o.params)
      /\ bound = OwnCells(o)
  BY <1>2, <1>6, <1>7, RunsOwn
<1> HIDE DEF bound
<1>9. BindingsInv'
  <2>1. bindings' = [bindings EXCEPT ![o.sql] = Cleared(o.sql)]
    BY <1>1, <1>8 DEF ResetStatement
  <2>2. bindings = [sql \in DOMAIN Columns |-> Cleared(sql)]
    BY <1>2 DEF BindingsInv
  <2>3. bindings' = [sql \in DOMAIN Columns |-> Cleared(sql)]
    BY <2>1, <2>2
  <2> QED BY <2>3 DEF BindingsInv, Cleared
<1>10. CASE Len(steps[i].params) > Len(Columns[steps[i].sql])
  <2>1. state' = "failed" /\ results' = <<>>
    BY <1>1, <1>10
  <2>2. DecodedInv'
    BY <1>1, <1>2, <2>1 DEF DecodedInv
  <2>3. <<>> \in Seq(Rows') /\ Len(<<>>) = 0 /\ DOMAIN <<>> = {}
    <3> HIDE DEF Rows
    <3> QED OBVIOUS
  <2>4. ResultsInv'
    BY <1>1, <1>3, <2>1, <2>3 DEF ResultsInv
  <2> QED BY <1>9, <2>2, <2>4 DEF ValuesInv
<1>11. CASE ~(Len(steps[i].params) > Len(Columns[steps[i].sql]))
  <2>1. results' = Append(results, OwnRow(o)) /\ state' = state /\ Len(o.params) =< Len(Columns[o.sql])
    BY <1>1, <1>8, <1>11 DEF OwnRow
  <2>2. DecodedInv'
    BY <1>1, <1>2, <2>1 DEF DecodedInv
  <2>3. OwnRow(o) \in Rows /\ Rows' = Rows
    BY <1>1, <1>6 DEF OwnRow, OwnCells, o
  <2>4. /\ results' \in Seq(Rows) /\ Len(results') = i /\ DOMAIN results' = 1 .. i
        /\ \A j \in 1 .. Len(results) : results'[j] = results[j]
        /\ results'[i] = OwnRow(o)
    <3> HIDE DEF Rows
    <3> QED BY <1>5, <2>1, <2>3 DEF i
  <2>5. i =< Len(asked)
    BY <1>3, <1>6
  <2>6. ASSUME NEW j \in DOMAIN results'
        PROVE  /\ results'[j] = OwnRow(asked[j])
               /\ Len(asked[j].params) =< Len(Columns[asked[j].sql])
    <3>1. CASE j = i
      BY <2>1, <2>4, <3>1 DEF o
    <3>2. CASE j \in 1 .. Len(results)
      BY <1>2, <1>5, <2>4, <3>2 DEF ResultsInv
    <3> QED BY <1>5, <2>4, <3>1, <3>2 DEF i
  <2>7. ResultsInv'
    <3>1. results' \in Seq({OwnRow(asked[j]) : j \in DOMAIN asked})
      BY <2>4
    <3> QED BY <1>1, <2>4, <2>5, <2>6, <3>1 DEF ResultsInv, OwnRow, OwnCells
  <2> QED BY <1>9, <2>2, <2>7 DEF ValuesInv
<1> QED BY <1>10, <1>11

LEMMA RowsKept ==
  ASSUME ResultsInv, asked' = asked, results' = results
  PROVE  ResultsInv'
<1>1. {OwnRow(asked[i]) : i \in DOMAIN asked}' = {OwnRow(asked[i]) : i \in DOMAIN asked}
  BY DEF OwnRow, OwnCells
<1>2. \A i \in DOMAIN asked : OwnRow(asked[i])' = OwnRow(asked[i])
  BY DEF OwnRow, OwnCells
<1>3. \A i \in DOMAIN results : (OwnRow(asked[i]))' = OwnRow(asked[i])
  BY DEF OwnRow, OwnCells
<1> QED BY <1>1, <1>3 DEF ResultsInv

LEMMA ValuesKept ==
  ASSUME SqlConstantsOK, ValuesInv, [SqlNext]_sqlVars
  PROVE  ValuesInv'
<1>1. CASE Decode
  <2>1. /\ state = "decoding" /\ asked' = asked /\ bindings' = bindings /\ results' = results
        /\ results = <<>> /\ asked \in Scripts
    BY <1>1 DEF Decode, ValuesInv, DecodedInv
  <2>2. DecodedInv'
    <3>1. CASE asked # <<>> /\ \A i \in DOMAIN asked : StepDecodes(asked[i])
      BY <1>1, <2>1, <3>1 DEF Decode, DecodedInv
    <3>2. CASE ~(asked # <<>> /\ \A i \in DOMAIN asked : StepDecodes(asked[i]))
      BY <1>1, <2>1, <3>2 DEF Decode, DecodedInv
    <3> QED BY <3>1, <3>2
  <2>3. BindingsInv'
    BY <2>1 DEF ValuesInv, BindingsInv, Cleared
  <2>4. ResultsInv'
    BY <2>1, RowsKept DEF ValuesInv
  <2> QED BY <2>2, <2>3, <2>4 DEF ValuesInv
<1>2. CASE ExecuteStep
  BY <1>2, ExecuteKeeps
<1>3. CASE AnswerAll
  <2>1. /\ state = "running" /\ state' = "done" /\ asked' = asked /\ steps' = steps
        /\ bindings' = bindings /\ results' = results
    BY <1>3 DEF AnswerAll
  <2>2. DecodedInv'
    BY <2>1 DEF ValuesInv, DecodedInv
  <2>3. BindingsInv'
    BY <2>1 DEF ValuesInv, BindingsInv, Cleared
  <2>4. ResultsInv'
    BY <2>1, RowsKept DEF ValuesInv
  <2> QED BY <2>2, <2>3, <2>4 DEF ValuesInv
<1>4. CASE UNCHANGED sqlVars
  <2>1. state' = state /\ asked' = asked /\ steps' = steps /\ bindings' = bindings /\ results' = results
    BY <1>4 DEF sqlVars
  <2>2. DecodedInv'
    BY <2>1 DEF ValuesInv, DecodedInv
  <2>3. BindingsInv'
    BY <2>1 DEF ValuesInv, BindingsInv, Cleared
  <2>4. ResultsInv'
    BY <2>1, RowsKept DEF ValuesInv
  <2> QED BY <2>2, <2>3, <2>4 DEF ValuesInv
<1> QED BY <1>1, <1>2, <1>3, <1>4 DEF SqlNext

LEMMA ValuesAlways == ASSUME SqlConstantsOK PROVE SqlSpec => []ValuesInv
<1>1. SqlInit => ValuesInv
  BY ValuesInit
<1>2. ValuesInv /\ [SqlNext]_sqlVars => ValuesInv'
  BY ValuesKept
<1> QED BY <1>1, <1>2, PTL DEF SqlSpec

-----------------------------------------------------------------------------
(* Every column of a text has a last place.                                 *)
LEMMA LastHole ==
  ASSUME SqlConstantsOK, NEW text \in DOMAIN Columns, NEW c \in ToSet(Columns[text])
  PROVE  HoleOf(text, c) \in DOMAIN Columns[text] /\ Columns[text][HoleOf(text, c)] = c
<1> DEFINE n == Len(Columns[text])
           T == {d \in Nat : n - d \in DOMAIN Columns[text] /\ Columns[text][n - d] = c}
           R == OpToRel(<, Nat)
<1>1. n \in Nat /\ DOMAIN Columns[text] = 1 .. n
  BY DEF SqlConstantsOK
<1> HIDE DEF n
<1>2. PICK g \in DOMAIN Columns[text] : Columns[text][g] = c
  BY DEF ToSet
<1>3. n - g \in T
  BY <1>1, <1>2
<1>4. \A x, y \in Nat : y < x => <<y, x>> \in R
  BY DEF OpToRel
<1>5. IsWellFoundedOn(R, Nat)
  BY NatLessThanWellFounded
<1>6. PICK d \in T : \A y \in T : ~(<<y, d>> \in R)
  <2>1. T \subseteq Nat /\ T # {}
    BY <1>3
  <2> HIDE DEF T, R
  <2> QED BY <1>5, <2>1, WFMin
<1>7. ASSUME NEW k \in n - d + 1 .. n, Columns[text][k] = c
      PROVE  FALSE
  <2>1. n - k \in T /\ n - k < d
    BY <1>1, <1>7
  <2> QED BY <1>4, <1>6, <2>1
<1>8. /\ n - d \in DOMAIN Columns[text] /\ Columns[text][n - d] = c
      /\ \A k \in n - d + 1 .. Len(Columns[text]) : Columns[text][k] # c
  BY <1>7 DEF n
<1> QED BY <1>8 DEF HoleOf

(* A row has a cell for every column, and it is that of the last place.     *)
LEMMA RowCells ==
  ASSUME SqlConstantsOK, ValuesInv, NEW i \in DOMAIN results, NEW c \in DOMAIN results[i]
  PROVE  LET o == asked[i]
             h == HoleOf(o.sql, c)
         IN  /\ o.params \in Seq(JsValue) /\ StepDecodes(o) /\ h \in Nat \ {0}
             /\ results[i][c] = SqlToJs(IF h =< Len(o.params) THEN BoundTo(SqlFromJs(o.params[h])) ELSE Null)
<1> DEFINE o == asked[i]
           h == HoleOf(o.sql, c)
<1>1. i \in DOMAIN asked /\ asked \in Scripts /\ StepDecodes(o) /\ results[i] = OwnRow(o)
  <2>1. results # <<>> /\ results \in Seq({OwnRow(asked[j]) : j \in DOMAIN asked}) /\ Len(results) =< Len(asked)
    BY DEF ValuesInv, ResultsInv
  <2>2. DOMAIN results = 1 .. Len(results) /\ Len(results) \in Nat
    BY <2>1
  <2>3. state \in {"running", "done", "failed"} /\ asked \in Scripts
    BY <2>1 DEF ValuesInv, DecodedInv
  <2>4. DOMAIN asked = 1 .. Len(asked) /\ Len(asked) \in Nat
    BY <2>3, ScriptTypes
  <2> QED BY <2>1, <2>2, <2>3, <2>4 DEF ValuesInv, DecodedInv, ResultsInv
<1>2. IsStep(o) /\ o.sql \in DOMAIN Columns
  BY <1>1, ScriptTypes
<1> HIDE DEF o
<1>3. o.params \in Seq(JsValue) /\ DOMAIN o.params = 1 .. Len(o.params) /\ Len(o.params) \in Nat
  BY <1>2 DEF IsStep
<1>4. c \in ToSet(Columns[o.sql]) /\ results[i][c] = SqlToJs(OwnCells(o)[h])
  BY <1>1 DEF OwnRow, RowToJs
<1>5. h \in DOMAIN Columns[o.sql]
  BY <1>2, <1>4, LastHole
<1>6. h \in Nat \ {0}
  BY <1>2, <1>5 DEF SqlConstantsOK
<1> HIDE DEF h
<1>7. OwnCells(o)[h] = IF h =< Len(o.params) THEN BoundTo(SqlFromJs(o.params[h])) ELSE Null
  BY <1>3, <1>5, <1>6 DEF OwnCells
<1> QED BY <1>1, <1>3, <1>4, <1>6, <1>7 DEF o, h

LEMMA OwnParametersHold == ASSUME SqlConstantsOK, ValuesInv PROVE OwnParameters
<1> SUFFICES ASSUME NEW i \in DOMAIN results, NEW c \in DOMAIN results[i],
                    HoleOf(asked[i].sql, c) > Len(asked[i].params)
             PROVE  results[i][c].type = "null"
  BY DEF OwnParameters
<1> DEFINE h == HoleOf(asked[i].sql, c)
<1>1. /\ asked[i].params \in Seq(JsValue) /\ h \in Nat \ {0}
      /\ results[i][c] = SqlToJs(IF h =< Len(asked[i].params) THEN BoundTo(SqlFromJs(asked[i].params[h])) ELSE Null)
  BY RowCells
<1>2. ~(h =< Len(asked[i].params))
  <2> HIDE DEF h
  <2> QED BY <1>1 DEF h
<1>3. results[i][c] = SqlToJs(Null)
  BY <1>1, <1>2
<1> QED BY <1>3 DEF SqlToJs, Null, Sql, Js

(* A value that is accepted is given back as the same value.                *)
LEMMA ValueComesBack ==
  ASSUME NEW v \in JsValue, SqlFromJs(v) # NoValue
  PROVE  LET w == SqlToJs(BoundTo(SqlFromJs(v)))
         IN  /\ v # Js("bytes", 0) => Same(v, w)
             /\ w.type = "number" => InSafeRange(w.n)
<1> DEFINE w == SqlToJs(BoundTo(SqlFromJs(v)))
<1>1. CASE v.type = "null"
  <2>1. v = Js("null", 0)
    BY <1>1 DEF JsValue, Numeric, Sized, Js
  <2>2. SqlFromJs(v) = Null
    BY <1>1 DEF SqlFromJs
  <2>3. w = Js("null", 0)
    BY <2>2 DEF BoundTo, SqlToJs, Null, Sql, Js
  <2> QED BY <2>1, <2>3 DEF Same, Numeric, Js
<1>2. CASE v.type = "number"
  <2>1. v.n \in Int /\ SqlFromJs(v) = IF InSafeRange(v.n) THEN Sql("integer", v.n) ELSE NoValue
    BY <1>2 DEF JsValue, Numeric, Sized, SqlFromJs, SqlNumber
  <2>2. InSafeRange(v.n) /\ SqlFromJs(v) = Sql("integer", v.n)
    BY <2>1
  <2>3. w = Js("number", v.n)
    BY <2>2 DEF BoundTo, SqlToJs, IntegerToJs, Sql, Js
  <2> QED BY <1>2, <2>2, <2>3 DEF Same, Numeric, Js
<1>3. CASE v.type = "fraction"
  <2>1. SqlFromJs(v) = Sql("real", v.n)
    BY <1>3 DEF SqlFromJs, SqlNumber
  <2>2. w = Js("fraction", v.n)
    BY <2>1 DEF BoundTo, SqlToJs, Sql, Js
  <2> QED BY <1>3, <2>2 DEF Same, Numeric, Js
<1>4. CASE v.type = "bigint"
  <2>1. SqlFromJs(v) = SqlBigInt(v)
    BY <1>4 DEF SqlFromJs
  <2>2. SqlFromJs(v) = Sql("integer", v.n)
    BY <2>1 DEF SqlBigInt
  <2>3. w = Js(IF InSafeRange(v.n) THEN "number" ELSE "bigint", v.n)
    BY <2>2 DEF BoundTo, SqlToJs, IntegerToJs, Sql, Js
  <2> QED BY <1>4, <2>3 DEF Same, Numeric, Js
<1>5. CASE v.type = "string"
  <2>1. v = Js("string", v.n)
    BY <1>5 DEF JsValue, Numeric, Sized, Js
  <2>2. SqlFromJs(v) = Sql("text", v.n)
    BY <1>5 DEF SqlFromJs
  <2>3. w = Js("string", v.n)
    BY <2>2 DEF BoundTo, SqlToJs, Sql, Js
  <2> QED BY <1>5, <2>1, <2>3 DEF Same, Numeric, Js
<1>6. CASE v.type = "bytes"
  <2>1. v = Js("bytes", v.n)
    BY <1>6 DEF JsValue, Numeric, Sized, Js
  <2>2. SqlFromJs(v) = Sql("blob", v.n)
    BY <1>6 DEF SqlFromJs, BlobFromJs
  <2>3. w = IF v.n = 0 THEN Js("null", 0) ELSE Js("bytes", v.n)
    BY <2>2 DEF BoundTo, SqlToJs, Null, Sql, Js
  <2> QED BY <1>6, <2>1, <2>3 DEF Same, Numeric, Js
<1>7. CASE v.type \notin {"null", "number", "fraction", "bigint", "string", "bytes"}
  BY <1>7 DEF SqlFromJs
<1> QED BY <1>1, <1>2, <1>3, <1>4, <1>5, <1>6, <1>7

LEMMA RoundTripHolds == ASSUME SqlConstantsOK, ValuesInv PROVE RoundTrip
<1> SUFFICES ASSUME NEW i \in DOMAIN results, NEW c \in Returned(i)
             PROVE  /\ Sent(i, c) # Js("bytes", 0) => Same(Sent(i, c), results[i][c])
                    /\ results[i][c].type = "number" => InSafeRange(results[i][c].n)
  BY DEF RoundTrip
<1> DEFINE o == asked[i]
           h == HoleOf(o.sql, c)
<1>1. c \in DOMAIN results[i] /\ h =< Len(o.params)
  BY DEF Returned
<1>2. /\ o.params \in Seq(JsValue) /\ StepDecodes(o) /\ h \in Nat \ {0}
      /\ results[i][c] = SqlToJs(IF h =< Len(o.params) THEN BoundTo(SqlFromJs(o.params[h])) ELSE Null)
  BY <1>1, RowCells
<1>3. Sent(i, c) = o.params[h]
  BY DEF Sent
<1> HIDE DEF h, o
<1>4. h \in DOMAIN o.params /\ o.params[h] \in JsValue /\ SqlFromJs(o.params[h]) # NoValue
  <2>1. h \in DOMAIN o.params /\ o.params[h] \in JsValue
    BY <1>1, <1>2
  <2> QED BY <1>2, <2>1 DEF StepDecodes
<1>5. results[i][c] = SqlToJs(BoundTo(SqlFromJs(o.params[h])))
  BY <1>1, <1>2
<1> QED BY <1>3, <1>4, <1>5, ValueComesBack

(* A step that decodes has one expectation at most and no field that its    *)
(* type is not held to.                                                     *)
LEMMA FieldsHeld ==
  ASSUME NEW o, IsStep(o), StepDecodes(o)
  PROVE  Wrote(o) \subseteq HeldTo(StepType(o)) /\ Cardinality(Wrote(o) \ Limits) =< 1
<1>1. Given(o.limits) \subseteq Limits
  BY DEF IsStep, HasFields, Given
<1>2. \A fields \in o.expects : /\ o.expects = {fields} /\ Given(fields) \subseteq Expectations
                                /\ Cardinality(Given(fields)) = 1
  BY DEF IsStep, HasFields, Given, StepDecodes, ExpectedFromJs
<1>3. FieldsFit(o) /\ StepType(o) \in {"run", "query"}
  BY DEF StepDecodes, StepType
<1>4. CASE StepType(o) = "query"
  <2>1. o.expects = {}
    BY <1>3, <1>4 DEF FieldsFit
  <2>2. Wrote(o) = Given(o.limits)
    BY <2>1 DEF Wrote
  <2>3. Wrote(o) \ Limits = {}
    BY <1>1, <2>2
  <2> QED BY <1>1, <1>4, <2>2, <2>3, FS_EmptySet DEF HeldTo
<1>5. CASE StepType(o) = "run"
  <2>1. Given(o.limits) = {}
    BY <1>3, <1>5 DEF FieldsFit
  <2>2. Wrote(o) = UNION {Given(fields) : fields \in o.expects}
    BY <2>1 DEF Wrote
  <2>3. CASE o.expects = {}
    <3>1. Wrote(o) = {}
      BY <2>2, <2>3
    <3>2. Wrote(o) \ Limits = {}
      BY <3>1
    <3> QED BY <3>1, <3>2, FS_EmptySet
  <2>4. CASE o.expects # {}
    <3>1. PICK fields \in o.expects : o.expects = {fields}
      BY <1>2, <2>4
    <3>2. Wrote(o) = Given(fields)
      BY <2>2, <3>1
    <3>3. Wrote(o) \subseteq Expectations /\ Cardinality(Wrote(o)) = 1
      BY <1>2, <3>1, <3>2
    <3>4. Wrote(o) \ Limits = Wrote(o)
      BY <3>3 DEF Expectations, Limits
    <3> QED BY <1>5, <3>3, <3>4 DEF HeldTo
  <2> QED BY <2>3, <2>4
<1> QED BY <1>3, <1>4, <1>5

LEMMA NothingIgnoredHolds == ASSUME SqlConstantsOK, ValuesInv PROVE NothingIgnored
<1> SUFFICES ASSUME NEW i \in DOMAIN results
             PROVE  Wrote(asked[i]) \subseteq HeldTo(steps[i].type) /\ Cardinality(Wrote(asked[i]) \ Limits) =< 1
  BY DEF NothingIgnored
<1>1. results # <<>> /\ results \in Seq({OwnRow(asked[j]) : j \in DOMAIN asked}) /\ Len(results) =< Len(asked)
  BY DEF ValuesInv, ResultsInv
<1>2. DOMAIN results = 1 .. Len(results) /\ Len(results) \in Nat
  BY <1>1
<1>3. state \in {"running", "done", "failed"} /\ asked \in Scripts
  BY <1>1 DEF ValuesInv, DecodedInv
<1>4. i \in DOMAIN asked
  <2>1. DOMAIN asked = 1 .. Len(asked) /\ Len(asked) \in Nat
    BY <1>3, ScriptTypes
  <2> QED BY <1>1, <1>2, <2>1
<1>5. StepDecodes(asked[i]) /\ steps[i] = StepFromJs(asked[i]) /\ IsStep(asked[i])
  BY <1>3, <1>4, ScriptTypes DEF ValuesInv, DecodedInv
<1>6. steps[i].type = StepType(asked[i])
  BY <1>5 DEF StepFromJs
<1> QED BY <1>5, <1>6, FieldsHeld

-----------------------------------------------------------------------------
(* A ? that a step of a transaction gives no parameter for is NULL, though  *)
(* an earlier step of the same text bound a value to the statement that the *)
(* connection keeps (Statement::bind_all, StatementReset).                  *)
THEOREM ParametersAreOwn == ASSUME SqlConstantsOK PROVE SqlSpec => []OwnParameters
<1>1. ValuesInv => OwnParameters
  BY OwnParametersHold
<1> QED BY <1>1, ValuesAlways, PTL

(* Every value that store_convert.hpp accepts is read back as the same      *)
(* value, whatever the widths of the integers are: a number is not wrapped  *)
(* and not rounded, only empty bytes are lost.                              *)
THEOREM ValuesComeBack == ASSUME SqlConstantsOK PROVE SqlSpec => []RoundTrip
<1>1. ValuesInv => RoundTrip
  BY RoundTripHolds
<1> QED BY <1>1, ValuesAlways, PTL

(* A step that runs is held to every limit and expectation that the script  *)
(* wrote: a field of the other type of step, or a second expectation,       *)
(* refuses the call instead (Converter<TransactionStep>::from_js).          *)
THEOREM FieldsAreHeld == ASSUME SqlConstantsOK PROVE SqlSpec => []NothingIgnored
<1>1. ValuesInv => NothingIgnored
  BY NothingIgnoredHolds
<1> QED BY <1>1, ValuesAlways, PTL
=============================================================================

------------------------------- MODULE Store --------------------------------
(***************************************************************************)
(* vacps:store: Store.open, exec, run, query, transaction and close        *)
(* (src/modules/store.cpp), each a job of the handle's SerialWorker, and   *)
(* the domain Store over one SQLite connection (src/storage/store.cpp,     *)
(* database.cpp).  Two handles may be open on one file, and run at once.   *)
(*                                                                         *)
(* SQLite is modelled by the locks and changes the code relies on: one     *)
(* writer at a time, a busy error for a writer that waits too long, a      *)
(* journal that a crash rolls back.  Scripts do not send BEGIN or COMMIT   *)
(* through exec.  A row holds the number of the call that wrote it.        *)
(***************************************************************************)
EXTENDS Integers, Sequences

CONSTANTS
  Handles, Keys, None,
  MaxCalls,   \* bound: calls of a script
  Uses        \* what the script and the system do: see Use

(* A statement writes a row, matches none, is not DML, breaks a            *)
(* constraint, or one that is deferred to the commit, or reads n rows.     *)
Kinds == {"put", "miss", "other", "fail", "defer", "read"}
(* want: what expectedChanges, or for a read maxRows, asks of n.           *)
Wants == [rel : {"any", "exactly", "atLeast", "atMost"}, n : Nat]
Step == [kind : Kinds, key : Keys, n : Nat, want : Wants]
Call == [handle : Handles, op : {"exec", "run", "query", "transaction", "close"}, steps : Seq(Step)]
Use == [calls : Seq(Call), busy : BOOLEAN, stops : BOOLEAN, crashes : BOOLEAN, opens : BOOLEAN]

(* What the constants are assumed to be. *)
StoreConstantsOK ==
  /\ None \notin Handles /\ MaxCalls \in Nat /\ Uses \subseteq Use
  /\ \A u \in Uses : Len(u.calls) <= MaxCalls

VARIABLES
  rows,    \* the rows on disk
  writer,  \* the connection that holds the write lock, or None
  conn,    \* the connections, each with the rows its transaction sees
  lane,    \* the jobs posted to each handle's strand
  job,     \* the call a worker runs on each handle, and its next step
  call,    \* the calls
  applied, \* units of each call that reached the disk (history)
  stop, use

vars == <<rows, writer, conn, lane, job, call, applied, stop, use>>

Calls == 1 .. Len(use.calls)
Asked(c) == use.calls[c]
HandleOf(c) == Asked(c).handle
Idle == [call |-> 0, next |-> 0]

Init ==
  /\ use \in Uses
  /\ rows = [k \in Keys |-> 0] /\ writer = None
  /\ conn = [h \in Handles |-> [state |-> "none", tx |-> FALSE, sees |-> rows,
                                changes |-> 0, doomed |-> FALSE]]
  /\ lane = [h \in Handles |-> <<>>] /\ job = [h \in Handles |-> Idle]
  /\ call = [c \in 1 .. Len(use.calls) |-> [at |-> "free", out |-> "none"]]
  /\ applied = [c \in 1 .. Len(use.calls) |-> 0]
  /\ stop = FALSE

-----------------------------------------------------------------------------
(* Store.open on a worker: parent directories, connection, pragmas.        *)
Open(h) ==
  /\ conn[h].state = "none"
  /\ conn' = [conn EXCEPT ![h].state = IF stop THEN "failed" ELSE "open"]
  /\ UNCHANGED <<rows, writer, lane, job, call, applied, stop, use>>

OpenFails(h) ==
  /\ conn[h].state = "none" /\ use.opens
  /\ conn' = [conn EXCEPT ![h].state = "failed"]
  /\ UNCHANGED <<rows, writer, lane, job, call, applied, stop, use>>

(* A method posts its job to the strand of the handle; nothing is posted   *)
(* once the runtime has stopped.                                           *)
CallMethod(c) ==
  /\ call[c].at = "free" /\ \A d \in 1 .. c - 1 : call[d].at # "free"
  /\ conn[HandleOf(c)].state \in {"open", "closed"}
  /\ IF stop
     THEN call' = [call EXCEPT ![c] = [at |-> "done", out |-> "cancelled"]] /\ UNCHANGED lane
     ELSE /\ call' = [call EXCEPT ![c].at = "posted"]
          /\ lane' = [lane EXCEPT ![HandleOf(c)] = Append(@, c)]
  /\ UNCHANGED <<rows, writer, conn, job, applied, stop, use>>

(* The strand starts its next job, which is skipped after a stop.          *)
JobStarts(h) ==
  /\ job[h] = Idle /\ lane[h] # <<>>
  /\ lane' = [lane EXCEPT ![h] = Tail(@)]
  /\ IF stop
     THEN call' = [call EXCEPT ![Head(lane[h])] = [at |-> "worked", out |-> "cancelled"]]
          /\ UNCHANGED job
     ELSE call' = [call EXCEPT ![Head(lane[h])].at = "running"]
          /\ job' = [job EXCEPT ![h] = [call |-> Head(lane[h]), next |-> 1]]
  /\ UNCHANGED <<rows, writer, conn, applied, stop, use>>

Running(h) == job[h].call \in Calls
Current(h) == Asked(job[h].call)
InTransaction(h) == Running(h) /\ Current(h).op = "transaction"
StepOf(h) == Current(h).steps[job[h].next]
More(h) == job[h].next <= Len(Current(h).steps)

(* The job returns its outcome and the strand is free again. *)
JobEnds(h, out) ==
  /\ call' = [call EXCEPT ![job[h].call] = [at |-> "worked", out |-> out]]
  /\ job' = [job EXCEPT ![h] = Idle]

(* Store::close, and every method on a connection that is gone. *)
RunsClosed(h) ==
  /\ Running(h) /\ (Current(h).op = "close" \/ conn[h].state = "closed")
  /\ conn' = [conn EXCEPT ![h].state = "closed"]
  /\ JobEnds(h, IF Current(h).op = "close" THEN "ok" ELSE "error")
  /\ UNCHANGED <<rows, writer, lane, applied, stop, use>>

-----------------------------------------------------------------------------
(* check_expected_changes; for a read, max_rows. *)
Meets(want, n) ==
  CASE want.rel = "any" -> TRUE
    [] want.rel = "exactly" -> n = want.n
    [] want.rel = "atLeast" -> n >= want.n
    [] want.rel = "atMost" -> n <= want.n

(* sqlite3_changes after a statement: one that is not DML leaves it alone. *)
Changes(h, s) ==
  CASE s.kind \in {"put", "defer"} -> 1 [] s.kind = "miss" -> 0 [] OTHER -> conn[h].changes

Writes(s) == s.kind \in {"put", "defer"}
Stepped(seen, s, c) == IF Writes(s) THEN [seen EXCEPT ![s.key] = c] ELSE seen
Counted(h, s) == IF s.kind = "read" THEN s.n ELSE Changes(h, s)

(* A statement needs the write lock: it waits, or gives up as busy. *)
MayWrite(h) == writer \in {h, None}
GivesUp(h) == ~MayWrite(h) /\ use.busy

Live(h) == Running(h) /\ Current(h).op # "close" /\ conn[h].state = "open"

(* A statement of exec, run or query, which commits by itself.             *)
Statement(h) ==
  /\ Live(h) /\ ~InTransaction(h) /\ More(h)
  /\ LET s == StepOf(h)
         good == s.kind \notin {"fail", "defer"} /\ (s.kind = "read" => Meets(s.want, s.n))
     IN  \/ /\ good /\ (s.kind = "read" \/ MayWrite(h))
            /\ rows' = Stepped(rows, s, job[h].call)
            /\ applied' = [applied EXCEPT ![job[h].call] = @ + 1]
            /\ conn' = [conn EXCEPT ![h].changes = Changes(h, s)]
            /\ job' = [job EXCEPT ![h].next = @ + 1] /\ UNCHANGED call
         \/ /\ ~good \/ (s.kind # "read" /\ GivesUp(h))
            /\ JobEnds(h, "error") /\ UNCHANGED <<rows, applied, conn>>
  /\ UNCHANGED <<writer, lane, stop, use>>

StatementsEnd(h) ==
  /\ Live(h) /\ ~InTransaction(h) /\ ~More(h)
  /\ JobEnds(h, "ok")
  /\ UNCHANGED <<rows, writer, conn, lane, applied, stop, use>>

(* Mutant: the steps run without a transaction around them. *)
BeginsNothing(h) ==
  /\ Live(h) /\ InTransaction(h) /\ ~conn[h].tx /\ MayWrite(h)
  /\ rows' = IF More(h) /\ Writes(StepOf(h)) THEN Stepped(rows, StepOf(h), job[h].call) ELSE rows
  /\ conn' = [conn EXCEPT ![h].tx = TRUE, ![h].sees = rows']
  /\ writer' = h
  /\ UNCHANGED <<call, job, lane, applied, stop, use>>

(* with_transaction: BEGIN IMMEDIATE *)
Begin(h) ==
  /\ Live(h) /\ InTransaction(h) /\ ~conn[h].tx
  /\ \/ /\ MayWrite(h) /\ writer' = h
        /\ conn' = [conn EXCEPT ![h].tx = TRUE, ![h].sees = rows]
        /\ UNCHANGED <<call, job>>
     \/ GivesUp(h) /\ JobEnds(h, "error") /\ UNCHANGED <<writer, conn>>
  /\ UNCHANGED <<rows, lane, applied, stop, use>>

Ended(h) == [conn EXCEPT ![h].tx = FALSE, ![h].sees = rows, ![h].doomed = FALSE]
Rollback(h) == conn' = Ended(h) /\ writer' = None /\ JobEnds(h, "error")

(* Mutant: only the last step's expectation is looked at. *)
ExpectsAtEnd(h) ==
  /\ Live(h) /\ conn[h].tx /\ More(h)
  /\ LET s == StepOf(h) IN
     IF s.kind = "fail" \/ (job[h].next = Len(Current(h).steps) /\ ~Meets(s.want, Counted(h, s)))
     THEN Rollback(h)
     ELSE /\ conn' = [conn EXCEPT ![h].sees = Stepped(@, s, job[h].call),
                                  ![h].changes = Changes(h, s),
                                  ![h].doomed = @ \/ s.kind = "defer"]
          /\ job' = [job EXCEPT ![h].next = @ + 1] /\ UNCHANGED <<writer, call>>
  /\ UNCHANGED <<rows, lane, applied, stop, use>>

(* One step of Store::transaction; a failed one, or one that changed more  *)
(* or fewer rows than expected, rolls everything back.                     *)
TransactionStep(h) ==
  /\ Live(h) /\ conn[h].tx /\ More(h)
  /\ LET s == StepOf(h) IN
     IF s.kind = "fail" \/ ~Meets(s.want, Counted(h, s))
     THEN Rollback(h)
     ELSE /\ conn' = [conn EXCEPT ![h].sees = Stepped(@, s, job[h].call),
                                  ![h].changes = Changes(h, s),
                                  ![h].doomed = @ \/ s.kind = "defer"]
          /\ job' = [job EXCEPT ![h].next = @ + 1] /\ UNCHANGED <<writer, call>>
  /\ UNCHANGED <<rows, lane, applied, stop, use>>

(* COMMIT, which a deferred constraint refuses: then ROLLBACK. *)
Commit(h) ==
  /\ Live(h) /\ conn[h].tx /\ ~More(h)
  /\ IF conn[h].doomed THEN Rollback(h) /\ UNCHANGED <<rows, applied>>
     ELSE /\ rows' = conn[h].sees /\ conn' = Ended(h) /\ writer' = None
          /\ applied' = [applied EXCEPT ![job[h].call] = @ + 1]
          /\ JobEnds(h, "ok")
  /\ UNCHANGED <<lane, stop, use>>

(* run_blocking resumes on the owner: a stop hides what the job did. *)
Resumes(c) ==
  /\ call[c].at = "worked"
  /\ call' = [call EXCEPT ![c] = [at |-> "done", out |-> IF stop THEN "cancelled" ELSE @.out]]
  /\ UNCHANGED <<rows, writer, conn, lane, job, applied, stop, use>>

-----------------------------------------------------------------------------
RequestStop ==
  /\ use.stops /\ ~stop /\ stop' = TRUE
  /\ UNCHANGED <<rows, writer, conn, lane, job, call, applied, use>>

(* The process dies: nobody is answered, open transactions are rolled back. *)
Crash ==
  /\ use.crashes /\ \E h \in Handles : conn[h].state = "open"
  /\ conn' = [h \in Handles |-> [conn[h] EXCEPT !.state = "crashed", !.tx = FALSE]]
  /\ writer' = None /\ lane' = [h \in Handles |-> <<>>] /\ job' = [h \in Handles |-> Idle]
  /\ call' = [c \in Calls |-> IF call[c].at = "done" THEN call[c]
                              ELSE [at |-> "lost", out |-> "none"]]
  /\ UNCHANGED <<rows, applied, stop, use>>

Works(h) ==
  \/ RunsClosed(h) \/ Statement(h) \/ StatementsEnd(h)
  \/ Begin(h) \/ TransactionStep(h) \/ Commit(h)

Next ==
  \/ \E h \in Handles : Open(h) \/ OpenFails(h) \/ JobStarts(h) \/ Works(h)
  \/ \E c \in Calls : CallMethod(c) \/ Resumes(c)
  \/ RequestStop \/ Crash

(* The pool and the owner loop keep running.  SQLite may keep a writer     *)
(* waiting while the lock is taken, but not while it is free again and     *)
(* again: hence strong fairness for what needs the lock.                   *)
Fairness ==
  /\ \A h \in Handles : WF_vars(JobStarts(h)) /\ SF_vars(Works(h))
  /\ \A c \in 1 .. MaxCalls : WF_vars(c \in Calls /\ Resumes(c))

Spec == Init /\ [][Next]_vars /\ Fairness

-----------------------------------------------------------------------------
(* A transaction is one unit, exec has one per statement, close has none.  *)
WritesOf(steps) == {s.key : s \in {steps[k] : k \in {j \in DOMAIN steps : Writes(steps[j])}}}
UnitsOf(c) ==
  CASE Asked(c).op = "transaction" -> <<WritesOf(Asked(c).steps)>>
    [] Asked(c).op = "close" -> <<>>
    [] OTHER -> [k \in DOMAIN Asked(c).steps |-> WritesOf(<<Asked(c).steps[k]>>)]

Atomic == INSTANCE AtomicStore WITH
  plan <- [c \in Calls |-> [handle |-> HandleOf(c), units |-> UnitsOf(c)]]

(* The rows on disk change as AtomicStore promises, whatever fails, is     *)
(* cancelled or crashes: a transaction entirely or not at all, calls of    *)
(* one handle in order (with_transaction, SerialWorker).                   *)
ImplementsAtomicStore == Atomic!Spec

(* True changes of a DML statement, and what a read returned. *)
Truth(s) == IF s.kind = "read" THEN s.n ELSE IF Writes(s) THEN 1 ELSE 0

(* What a script is told is what happened: ok means all of it is on disk,  *)
(* error means not all of it, and of a transaction nothing.  A transaction *)
(* on disk met every expectation of its DML and read steps.  (A closed     *)
(* store refuses an exec of no statement, too.)                            *)
Answers ==
  \A c \in Calls :
    /\ call[c].out = "ok" => applied[c] = Len(UnitsOf(c))
    /\ call[c].out = "error" => applied[c] < Len(UnitsOf(c)) \/ Asked(c).steps = <<>>
    /\ Asked(c).op = "transaction" /\ applied[c] = 1 =>
         \A k \in DOMAIN Asked(c).steps :
           LET s == Asked(c).steps[k]
           IN  s.kind # "other" => s.kind \notin {"fail", "defer"} /\ Meets(s.want, Truth(s))

Pending(c) == c \in Calls /\ call[c].at \in {"posted", "running", "worked"}

(* Every call is answered, unless the process dies. *)
CallsAnswered == <>[](\A c \in Calls : ~Pending(c))
=============================================================================

----------------------------- MODULE FileHandle -----------------------------
(***************************************************************************)
(* A File of vacps:fs: File.open and the methods of the handle             *)
(* (src/modules/fs.cpp), the FIFO lease that serializes them               *)
(* (file_operation_queue.hpp), the domain File with its two backends       *)
(* (src/fs/file.cpp) and the blocking pool they run on (run_blocking.hpp). *)
(*                                                                         *)
(* The owner executor resumes calls one at a time; between two resumptions *)
(* a worker or the kernel moves bytes, and the runtime may ask to stop.    *)
(* A byte of the file is the number of the call that wrote it.             *)
(***************************************************************************)
EXTENDS Integers, Sequences, SequencesExt

CONSTANTS
  Limit,       \* the largest off_t, and the largest size of a file
  Chunk,       \* the most bytes one system call moves
  DefaultMax, HardMax, \* kDefaultMaxReadBytes, kHardMaxReadBytes
  MaxFileCalls, \* bound: calls a script makes
  FileUses     \* what the script and the system do: see FileUse

Modes == {"read", "read-write", "write", "write-new", "append", "append-read"}
Methods == {"read", "readAt", "write", "writeAt", "truncate", "stat", "flush", "close"}
Default == -1
FileCall == [op : Methods, at : Nat, n : Nat \cup {Default}]
(* Is the io_uring backend available; the mode; the length of the file,    *)
(* Default when there is none; the calls in the script's order; which      *)
(* allocations and descriptor calls may fail at open; whether system calls *)
(* fail; how many bytes another process appends; whether it stops.         *)
FileUse == [asio : BOOLEAN, mode : Modes, size : Nat \cup {Default}, calls : Seq(FileCall),
            openFaults : SUBSET {"dup", "state", "assign", "alloc"}, ioFaults : BOOLEAN,
            outside : Nat, stops : BOOLEAN]

(* What the constants are assumed to be. *)
FileConstantsOK ==
  /\ Limit \in Nat /\ Chunk \in Nat \ {0} /\ DefaultMax \in Nat /\ HardMax \in Nat
  /\ DefaultMax <= HardMax /\ MaxFileCalls \in Nat
  /\ FileUses \subseteq FileUse
  /\ \A u \in FileUses : Len(u.calls) <= MaxFileCalls /\ u.size <= Limit

VARIABLES
  file,     \* File: life_, backend, cursor offset_, and the descriptors it owns
  fds,      \* descriptors of this file the process has open
  content,  \* the bytes of the file on disk
  lease,    \* FileOperationQueue: leased_ and waiters_
  fileOp,   \* the calls
  fileStop, \* the stop token of the runtime
  outside,  \* bytes another process has appended
  fileUse

fileVars == <<file, fds, content, lease, fileOp, fileStop, outside, fileUse>>

FileCalls == 1 .. Len(fileUse.calls)
Called(i) == fileUse.calls[i]

FileInit ==
  /\ fileUse \in FileUses
  /\ file = [life |-> "unopened", asio |-> FALSE, cursor |-> 0]
  /\ fds = {} /\ content = [k \in 1 .. fileUse.size |-> 0]
  /\ lease = [leased |-> FALSE, waiters |-> <<>>]
  /\ fileOp = [i \in FileCalls |-> [at |-> "free", pos |-> 0, got |-> 0, out |-> "none"]]
  /\ fileStop = FALSE /\ outside = 0

-----------------------------------------------------------------------------
(* posix_open_flags *)
Appends(mode) == mode \in {"append", "append-read"}
Readable(mode) == mode \in {"read", "read-write", "append-read"}
Writable(mode) == mode # "read"
Creates(mode) == mode \notin {"read", "read-write"}

(* File.open posts prepare_open to a worker. *)
OpenCalled ==
  /\ file.life = "unopened"
  /\ file' = [file EXCEPT !.life = IF fileStop THEN "failed" ELSE "opening"]
  /\ UNCHANGED <<fds, content, lease, fileOp, fileStop, outside, fileUse>>

(* The worker opens the file: O_CREAT, O_EXCL and O_TRUNC take effect here. *)
OpenWorks ==
  /\ file.life = "opening"
  /\ file' = [file EXCEPT !.life = "prepared"]
  /\ LET exists == fileUse.size # Default
         opens == IF exists THEN fileUse.mode # "write-new" ELSE Creates(fileUse.mode)
     IN  \/ /\ ~fileStop /\ opens
            /\ fds' = {"data"}
            /\ content' = IF fileUse.mode = "write" THEN <<>> ELSE content
         \/ /\ fileStop \/ ~opens \/ fileUse.ioFaults
            /\ UNCHANGED <<fds, content>>
  /\ UNCHANGED <<lease, fileOp, fileStop, outside, fileUse>>

(* adopt_posix: the File, or on a failed allocation nobody, has the descriptor. *)
Adopted(fd, fault) == IF fault = "alloc" THEN {} ELSE {fd}

(* complete_open: which descriptors the File owns after the steps that may *)
(* fail.  Without its control duplicate, or without the state that holds   *)
(* it, the file falls back on the blocking backend; a failed assign leaves *)
(* the duplicate for it.                                                   *)
Owned(fault) ==
  CASE ~fileUse.asio \/ fault \in {"dup", "state"} -> Adopted("data", fault)
    [] fileUse.asio /\ fault = "assign" -> Adopted("control", fault)
    [] fileUse.asio /\ fault = "alloc" -> {}
    [] fileUse.asio /\ fault = "none" -> {"data", "control"}

(* File.open resumes; a PreparedOpen it drops closes its descriptor. *)
OpenResumes ==
  /\ file.life = "prepared"
  /\ \E fault \in {"none"} \cup fileUse.openFaults :
       LET owned == IF fileStop \/ fds = {} THEN {} ELSE Owned(fault) IN
       /\ fds' = owned
       /\ file' = [file EXCEPT !.life = IF owned = {} THEN "failed" ELSE "open",
                               !.asio = owned = {"data", "control"}]
  /\ UNCHANGED <<content, lease, fileOp, fileStop, outside, fileUse>>

-----------------------------------------------------------------------------
Granted(f, i) == [f EXCEPT ![i].at = "granted"]
Done(f, i, out) == [f EXCEPT ![i].at = "done", ![i].out = out]

(* Mutant: the newest waiter takes over. *)
LastIn(f) ==
  IF lease.waiters = <<>>
  THEN fileOp' = f /\ lease' = [leased |-> FALSE, waiters |-> <<>>]
  ELSE /\ fileOp' = Granted(f, Last(lease.waiters))
       /\ lease' = [leased |-> TRUE, waiters |-> Front(lease.waiters)]

(* ~Lease: the first waiter takes over without the queue becoming free. *)
Release(f) ==
  IF lease.waiters = <<>>
  THEN fileOp' = f /\ lease' = [leased |-> FALSE, waiters |-> <<>>]
  ELSE /\ fileOp' = Granted(f, Head(lease.waiters))
       /\ lease' = [leased |-> TRUE, waiters |-> Tail(lease.waiters)]

Returns(i, out) == Release(Done(fileOp, i, out))

(* The script calls its next method, which asks for the lease. *)
CallFile(i) ==
  /\ file.life \in {"open", "closed"}
  /\ fileOp[i].at = "free" /\ \A j \in 1 .. i - 1 : fileOp[j].at # "free"
  /\ CASE fileStop -> fileOp' = Done(fileOp, i, "cancelled") /\ UNCHANGED lease
       [] ~fileStop /\ lease.leased ->
            /\ fileOp' = [fileOp EXCEPT ![i].at = "queued"]
            /\ lease' = [lease EXCEPT !.waiters = Append(@, i)]
       [] ~fileStop /\ ~lease.leased ->
            fileOp' = Granted(fileOp, i) /\ lease' = [lease EXCEPT !.leased = TRUE]
  /\ UNCHANGED <<file, fds, content, fileStop, outside, fileUse>>

(* The cancel_waiter that the stop posted; the lease may have come first. *)
CancelWaiter(i) ==
  /\ fileStop /\ fileOp[i].at = "queued"
  /\ fileOp' = Done(fileOp, i, "cancelled")
  /\ lease' = [lease EXCEPT !.waiters = RemoveFirst(@, i)]
  /\ UNCHANGED <<file, fds, content, fileStop, outside, fileUse>>

-----------------------------------------------------------------------------
(* resolve_read_max *)
ReadMax(n) == IF n = Default THEN DefaultMax ELSE n
Reading(i) == Called(i).op \in {"read", "readAt"}
ByteCount(i) == IF Reading(i) THEN ReadMax(Called(i).n) ELSE Called(i).n

Moving == {"read", "readAt", "write", "writeAt"}
Sequential(i) == Called(i).op \in {"read", "write"}
(* append_write lets the kernel choose the offset *)
AtEnd(i) == Called(i).op = "write" /\ Appends(fileUse.mode)
Base(i) == IF Sequential(i) THEN file.cursor ELSE Called(i).at

(* Refused by the method itself: too large a read, writeAt on an append handle. *)
Refused(i) ==
  \/ Reading(i) /\ ByteCount(i) > HardMax
  \/ Called(i).op = "writeAt" /\ Appends(fileUse.mode)

(* check_range, on the bytes asked for and not on those there are. *)
InRange(i) == AtEnd(i) \/ (Base(i) <= Limit /\ Base(i) + ByteCount(i) - 1 <= Limit)

(* What is decided before any byte moves: "none" when the operation goes on. *)
Early(i) ==
  IF file.life # "open" THEN "error"
  ELSE IF ByteCount(i) = 0 THEN "ok" ELSE IF InRange(i) THEN "none" ELSE "error"

Moves(i, at) == [fileOp EXCEPT ![i].at = at, ![i].pos = Base(i)]

(* File::close *)
ClosesFile == file' = [file EXCEPT !.life = "closed", !.asio = FALSE] /\ fds' = {}

(* The coroutine resumes with the lease and looks at the stop token again. *)
(* The io_uring backend starts here; the blocking one, and an append,      *)
(* goes to the pool.                                                       *)
StartsTransfer(i) ==
  /\ fileOp[i].at = "granted" /\ Called(i).op \in Moving
  /\ LET inPlace == file.asio /\ ~AtEnd(i)
     IN  CASE fileStop -> Returns(i, "cancelled")
           [] ~fileStop /\ Refused(i) -> Returns(i, "error")
           [] ~fileStop /\ ~Refused(i) /\ inPlace /\ Early(i) # "none" -> Returns(i, Early(i))
           [] ~fileStop /\ ~Refused(i) /\ inPlace /\ Early(i) = "none" ->
                fileOp' = Moves(i, "io") /\ UNCHANGED lease
           [] ~fileStop /\ ~Refused(i) /\ ~inPlace ->
                fileOp' = [fileOp EXCEPT ![i].at = "pool"] /\ UNCHANGED lease
  /\ UNCHANGED <<file, fds, content, fileStop, outside, fileUse>>

(* What uses the control descriptor always goes to the pool. *)
StartsControl(i) ==
  /\ fileOp[i].at = "granted" /\ Called(i).op \in {"truncate", "stat", "flush"}
  /\ IF fileStop THEN Returns(i, "cancelled")
     ELSE fileOp' = [fileOp EXCEPT ![i].at = "pool"] /\ UNCHANGED lease
  /\ UNCHANGED <<file, fds, content, fileStop, outside, fileUse>>

(* close does not look at the stop token, but a stopped run_blocking does. *)
StartsClose(i) ==
  /\ fileOp[i].at = "granted" /\ Called(i).op = "close"
  /\ IF file.asio THEN Returns(i, "ok") /\ ClosesFile
     ELSE /\ IF fileStop THEN Returns(i, "cancelled")
             ELSE fileOp' = [fileOp EXCEPT ![i].at = "pool"] /\ UNCHANGED lease
          /\ UNCHANGED <<file, fds>>
  /\ UNCHANGED <<content, fileStop, outside, fileUse>>

-----------------------------------------------------------------------------
Worked(i, out) == [fileOp EXCEPT ![i].at = "worked", ![i].out = out]
(* ftruncate; the cursor stays where it was. *)
Resized(size) == [k \in 1 .. size |-> IF k <= Len(content) THEN content[k] ELSE 0]

(* A worker dequeues the call: it skips it when the runtime has stopped. *)
FileWorkerTakes(i) ==
  /\ fileOp[i].at = "pool" /\ (fileStop \/ Called(i).op \in Moving)
  /\ fileOp' = CASE fileStop -> Worked(i, "none")
             [] ~fileStop /\ Early(i) = "none" -> Moves(i, "work")
             [] OTHER -> Worked(i, Early(i))
  /\ UNCHANGED <<file, fds, content, lease, fileStop, outside, fileUse>>

(* truncate, stat, flush and close of the domain File *)
WorkerControls(i) ==
  /\ fileOp[i].at = "pool" /\ ~fileStop /\ Called(i).op \notin Moving
  /\ LET truncates == Called(i).op = "truncate"
         allowed == file.life = "open" /\ (truncates => Called(i).at <= Limit /\ Writable(fileUse.mode))
     IN  \/ /\ Called(i).op = "close" /\ fileOp' = Worked(i, "ok")
            /\ ClosesFile /\ UNCHANGED content
         \/ /\ Called(i).op # "close" /\ allowed /\ fileOp' = Worked(i, "ok")
            /\ content' = IF truncates THEN Resized(Called(i).at) ELSE content
            /\ UNCHANGED <<file, fds>>
         \/ /\ Called(i).op # "close" /\ (~allowed \/ fileUse.ioFaults) /\ fileOp' = Worked(i, "error")
            /\ UNCHANGED <<file, fds, content>>
  /\ UNCHANGED <<lease, fileStop, outside, fileUse>>

Min2(a, b) == IF a < b THEN a ELSE b
(* Where the next system call of call i works, and the most it can move.   *)
Here(i) == IF AtEnd(i) THEN Len(content) ELSE fileOp[i].pos + fileOp[i].got
Movable(i) ==
  Min2(Min2(Chunk, ByteCount(i) - fileOp[i].got),
       (IF Reading(i) THEN Len(content) ELSE Limit) - Here(i))
Permitted(i) == IF Reading(i) THEN Readable(fileUse.mode) ELSE Writable(fileUse.mode)

Written(i, k) ==
  [p \in 1 .. (IF Here(i) + k > Len(content) THEN Here(i) + k ELSE Len(content)) |->
     IF p \in Here(i) + 1 .. Here(i) + k THEN i
     ELSE IF p <= Len(content) THEN content[p] ELSE 0]

(* pread, pwrite or write moves k bytes, for a worker or through io_uring. *)
Transfers(i) ==
  /\ fileOp[i].at \in {"work", "io"} /\ Permitted(i)
  /\ \E k \in 1 .. Movable(i) :
       /\ fileOp' = [fileOp EXCEPT ![i].got = @ + k,
                           ![i].at = IF @ = "io" THEN "moved" ELSE @]
       /\ content' = IF Reading(i) THEN content ELSE Written(i, k)
  /\ UNCHANGED <<file, fds, lease, fileStop, outside, fileUse>>

(* The system call that ends the loop: all moved, end of file, or an error. *)
EndOf(i) ==
  {out \in {"ok", "error"} :
     IF out = "ok" THEN ByteCount(i) = fileOp[i].got \/ (Reading(i) /\ Permitted(i) /\ Movable(i) <= 0)
     ELSE /\ ByteCount(i) > fileOp[i].got
          /\ fileUse.ioFaults \/ ~Permitted(i) \/ (~Reading(i) /\ Movable(i) <= 0)}

(* Mutant: a worker leaves the cursor to the next call. *)
CursorStays(i) ==
  /\ fileOp[i].at = "work"
  /\ \E out \in EndOf(i) : fileOp' = Worked(i, out)
  /\ UNCHANGED <<file, fds, content, lease, fileStop, outside, fileUse>>

(* The worker is done: read and write move the cursor, a failed one leaves *)
(* it before the bytes it wrote; append_write asks fstat for the size.     *)
FileWorkerEnds(i) ==
  /\ fileOp[i].at = "work"
  /\ \E out \in EndOf(i) :
       /\ fileOp' = Worked(i, out)
       /\ file' = IF out = "ok" /\ Sequential(i)
                  THEN [file EXCEPT !.cursor = IF AtEnd(i) THEN Len(content)
                                               ELSE fileOp[i].pos + fileOp[i].got]
                  ELSE file
  /\ UNCHANGED <<fds, content, lease, fileStop, outside, fileUse>>

(* run_blocking resumes on the owner: a stop hides what the worker did. *)
ResumesAfterWork(i) ==
  /\ fileOp[i].at = "worked"
  /\ Returns(i, IF fileStop THEN "cancelled" ELSE fileOp[i].out)
  /\ UNCHANGED <<file, fds, content, fileStop, outside, fileUse>>

(* io_uring ends the operation: end of file, an error, or aborted by the stop. *)
IoEnds(i) ==
  /\ fileOp[i].at = "io"
  /\ \E out \in EndOf(i) \cup (IF fileStop THEN {"cancelled"} ELSE {}) :
       fileOp' = [fileOp EXCEPT ![i].at = "moved", ![i].out = out]
  /\ UNCHANGED <<file, fds, content, lease, fileStop, outside, fileUse>>

(* async_read_at and async_write_at resume: end of file is looked at       *)
(* before the stop, a transfer after it.  Only a success moves the cursor. *)
ResumesAfterIo(i) ==
  /\ fileOp[i].at = "moved"
  /\ LET out == CASE fileOp[i].out = "ok" -> "ok"
                  [] fileOp[i].out = "cancelled" \/ (fileOp[i].out # "ok" /\ fileStop) -> "cancelled"
                  [] fileOp[i].out = "error" /\ ~fileStop -> "error"
                  [] fileOp[i].out = "none" /\ ~fileStop ->
                       IF fileOp[i].got = ByteCount(i) THEN "ok" ELSE "none"
     IN  /\ IF out = "none" THEN fileOp' = [fileOp EXCEPT ![i].at = "io"] /\ UNCHANGED lease
            ELSE Returns(i, out)
         /\ file' = IF out = "ok" /\ Sequential(i)
                    THEN [file EXCEPT !.cursor = fileOp[i].pos + fileOp[i].got] ELSE file
  /\ UNCHANGED <<fds, content, fileStop, outside, fileUse>>

-----------------------------------------------------------------------------
(* The environment: another process appends; the runtime asks to stop. *)
OthersAppend ==
  /\ outside < fileUse.outside /\ Len(content) < Limit /\ fileUse.size # Default
  /\ content' = Append(content, 0) /\ outside' = outside + 1
  /\ UNCHANGED <<file, fds, lease, fileOp, fileStop, fileUse>>

StopFiles ==
  /\ fileUse.stops /\ ~fileStop /\ fileStop' = TRUE
  /\ UNCHANGED <<file, fds, content, lease, fileOp, outside, fileUse>>

Starts(i) == StartsTransfer(i) \/ StartsControl(i) \/ StartsClose(i)

CallNext(i) ==
  \/ CallFile(i) \/ CancelWaiter(i) \/ Starts(i) \/ FileWorkerTakes(i) \/ WorkerControls(i)
  \/ Transfers(i) \/ FileWorkerEnds(i) \/ ResumesAfterWork(i) \/ IoEnds(i) \/ ResumesAfterIo(i)

FileNext ==
  \/ OpenCalled \/ OpenWorks \/ OpenResumes
  \/ \E i \in FileCalls : CallNext(i)
  \/ OthersAppend \/ StopFiles

(* The owner loop and the pool keep running, and the file is a regular     *)
(* file: each system call returns.                                         *)
FileFairness ==
  /\ WF_fileVars(OpenWorks) /\ WF_fileVars(OpenResumes)
  /\ \A i \in 1 .. MaxFileCalls :
       /\ WF_fileVars(i \in FileCalls /\ CancelWaiter(i))
       /\ WF_fileVars(i \in FileCalls /\ Starts(i))
       /\ WF_fileVars(i \in FileCalls /\ (FileWorkerTakes(i) \/ WorkerControls(i)))
       /\ WF_fileVars(i \in FileCalls /\ (Transfers(i) \/ FileWorkerEnds(i) \/ IoEnds(i)))
       /\ WF_fileVars(i \in FileCalls /\ (ResumesAfterWork(i) \/ ResumesAfterIo(i)))

FileSpec == FileInit /\ [][FileNext]_fileVars /\ FileFairness

-----------------------------------------------------------------------------
HoldsLease(i) == fileOp[i].at \in {"granted", "pool", "work", "worked", "io", "moved"}

(* Calls touch the file one at a time and in the script's order, a call    *)
(* begins only when every earlier one has returned (file_operation_queue,  *)
(* run_blocking), bytes move only through an open descriptor, and the      *)
(* process has exactly the descriptors its open File owns: none is left    *)
(* by a failed or cancelled open or by close.                              *)
Serialized ==
  /\ \A i, j \in FileCalls : i < j /\ HoldsLease(j) => fileOp[i].at = "done"
  /\ \A i \in FileCalls : fileOp[i].at \in {"work", "io"} => fds # {}
  /\ fds # {} => file.life \in {"prepared", "open"}
  /\ file.life = "open" => fds = {"data", "control"} \/ (~file.asio /\ fds \in {{"data"}, {"control"}})

Moved(i) == Sequential(i) /\ fileOp[i].at = "done" /\ fileOp[i].out = "ok" /\ fileOp[i].got > 0

(* The sequential calls a script is told have succeeded read or wrote      *)
(* consecutive ranges: nothing is skipped or read twice, whatever failed,  *)
(* was cancelled or was moved by readAt, writeAt and truncate in between   *)
(* (File::read, File::write, advance_cursor).                              *)
OneStream ==
  ~Appends(fileUse.mode) =>
    \A j \in FileCalls : Moved(j) =>
      LET before == {i \in 1 .. j - 1 : Moved(i)} IN
      IF before = {} THEN fileOp[j].pos = 0
      ELSE LET i == CHOOSE i \in before : \A k \in before : k <= i
           IN  fileOp[j].pos = fileOp[i].pos + fileOp[i].got

FilePending(i) == i \in FileCalls /\ fileOp[i].at \notin {"free", "done"}

(* Every call of the script gets its answer, also when the runtime stops   *)
(* while it waits for the lease or for a worker.                           *)
CallsEnd == <>[](\A i \in FileCalls : ~FilePending(i))
=============================================================================

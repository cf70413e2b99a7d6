------------------------------ MODULE RawImage ------------------------------
(***************************************************************************)
(* RawImage (src/mvisor/images/raw.cc): a disk image file whose reads,    *)
(* writes and flushes are handed to the I/O thread, which calls the        *)
(* request's callback when the operation completes.  A read-only image     *)
(* answers Write and Flush at once with callback(0).  The destructor       *)
(* flushes an open image with a callback that closes fd_.                  *)
(*                                                                         *)
(* Reqs are the requests (and their callbacks) a run may submit; data,     *)
(* positions and lengths are left out: no property tells them apart.       *)
(***************************************************************************)
EXTENDS Naturals

CONSTANT Reqs   \* request slots: one per callback handed to the image

VARIABLES
  img,    \* "new" (constructed, fd_ = -1), "open" (Initialize done), "deleted"
  fd,     \* "none" (-1), "open", "closed"
  req,    \* req[r]: "free", "queued" (with the I/O thread) or "done"
  cb,     \* cb[r]: "device" (the caller's callback) or "close" (the destructor's)
  calls,  \* calls[r]: how often r's callback has run
  readonly  \* readonly_

img_vars == <<img, fd, req, cb, calls, readonly>>

-----------------------------------------------------------------------------
Init ==
  /\ img = "new"
  /\ fd = "none"
  /\ req = [r \in Reqs |-> "free"]
  /\ cb = [r \in Reqs |-> "device"]
  /\ calls = [r \in Reqs |-> 0]
  /\ readonly = FALSE

(* Initialize(path, readonly): open the file, fstat its size.  A missing *)
(* file is MV_PANIC, which Machine's Construct takes as one outcome.      *)
Initialize(ro) ==
  /\ img = "new"
  /\ img' = "open"
  /\ fd' = "open"
  /\ readonly' = ro
  /\ UNCHANGED <<req, cb, calls>>

Submit(r, callback) ==
  /\ req' = [req EXCEPT ![r] = "queued"]
  /\ cb' = [cb EXCEPT ![r] = callback]
  /\ UNCHANGED calls

(* callback(0) on the calling thread. *)
AnswerNow(r) ==
  /\ req' = [req EXCEPT ![r] = "done"]
  /\ calls' = [calls EXCEPT ![r] = @ + 1]
  /\ UNCHANGED cb

Read(r) ==
  /\ img = "open"
  /\ req[r] = "free"
  /\ Submit(r, "device")
  /\ UNCHANGED <<img, fd, readonly>>

Write(r) ==
  /\ img = "open"
  /\ req[r] = "free"
  /\ IF readonly THEN AnswerNow(r) ELSE Submit(r, "device")
  /\ UNCHANGED <<img, fd, readonly>>

Flush(r) ==
  /\ img = "open"
  /\ req[r] = "free"
  /\ IF readonly THEN AnswerNow(r) ELSE Submit(r, "device")
  /\ UNCHANGED <<img, fd, readonly>>

(* ~RawImage: if fd_ != -1, Flush([=] { close(fd_); }).  Read-only, the   *)
(* lambda runs at once and closes the fd; otherwise it is queued behind   *)
(* an fsync and the object is freed before it runs.                       *)
Destroy ==
  /\ img \in {"new", "open"}
  /\ img' = "deleted"
  /\ UNCHANGED readonly
  /\ IF fd = "open"
       THEN IF readonly
              THEN /\ fd' = "closed"
                   /\ UNCHANGED <<req, cb, calls>>
              ELSE \E r \in Reqs :
                     /\ req[r] = "free"
                     /\ Submit(r, "close")
                     /\ UNCHANGED fd
       ELSE UNCHANGED <<fd, req, cb, calls>>

(* Mutant: a completion is reaped again after its callback has run. *)
CompleteNoGuard(r) ==
  /\ req[r] \in {"queued", "done"}
  /\ req' = [req EXCEPT ![r] = "done"]
  /\ calls' = [calls EXCEPT ![r] = @ + 1]
  /\ IF cb[r] = "close" THEN fd' \in {"closed", fd} ELSE UNCHANGED fd
  /\ UNCHANGED <<img, cb, readonly>>

(* The I/O thread completes r and runs its callback.  The destructor's    *)
(* lambda reads this->fd_ from the freed object: the build may still find *)
(* the old value there and close the fd, or find anything else.           *)
Complete(r) ==
  /\ req[r] = "queued"
  /\ req' = [req EXCEPT ![r] = "done"]
  /\ calls' = [calls EXCEPT ![r] = @ + 1]
  /\ IF cb[r] = "close" THEN fd' \in {"closed", fd} ELSE UNCHANGED fd
  /\ UNCHANGED <<img, cb, readonly>>

-----------------------------------------------------------------------------
TypeOK ==
  /\ img \in {"new", "open", "deleted"}
  /\ fd \in {"none", "open", "closed"}
  /\ req \in [Reqs -> {"free", "queued", "done"}]
  /\ cb \in [Reqs -> {"device", "close"}]
  /\ calls \in [Reqs -> 0..2]
  /\ readonly \in BOOLEAN

(* A callback handed to the I/O thread never refers to the image object   *)
(* after it is freed: the destructor's flush callback captures this and   *)
(* reads fd_ when the fsync completes.                                    *)
ImageNoUseAfterFree ==
  \A r \in Reqs : (req[r] = "queued" /\ cb[r] = "close") => img # "deleted"

=============================================================================

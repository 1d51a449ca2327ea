---------------------------- MODULE GnttabArith ----------------------------
(***************************************************************************)
(* Parameter validation and buffer sizing of IoctlGnttabPermitForeignAccess *)
(* and IoctlGnttabMapForeignPages.  NumberPages, NotifyOffset and the byte *)
(* count NumberPages * PAGE_SIZE are ULONGs: the product wraps modulo      *)
(* 2^Width.  In the driver PAGE_SIZE = 2^12, the page limit is 2^20 and    *)
(* Width = 32, so the product wraps exactly at the largest accepted count. *)
(* The instance keeps that ratio on small numbers.                         *)
(***************************************************************************)
EXTENDS Naturals

\* PageSize and MaxPages are positive, Width is a natural, and
\* MaxPages * PageSize <= 2^Width: the product wraps at most at the
\* largest accepted page count, as it does in the driver.
CONSTANTS
    PageSize,   \* PAGE_SIZE
    MaxPages,   \* 1024 * 1024
    Width       \* bits of a ULONG

\* A ULONG result of an unsigned C expression.
ULong(x) == x % (2^Width)

\* NumberPages * PAGE_SIZE: the length given to ExAllocatePoolWithTag,
\* IoAllocateMdl and MmMapIoSpace, and the bound on NotifyOffset.
ByteCount(n) == ULong(n * PageSize)

\* The two checks before any allocation (fail2).
ValidRequest(r) ==
    /\ r.n # 0
    /\ ~(r.n > MaxPages)
    /\ ~(r.useOffset /\ r.offset >= ByteCount(r.n))

Requests == [n : 0 .. (MaxPages + 1), useOffset : BOOLEAN,
             offset : 0 .. (MaxPages * PageSize)]

VARIABLES
    req,       \* the request being handled
    outcome,   \* "none" before validation, then "rejected" or "accepted"
    bufBytes   \* the size of the KernelVa buffer / kernel mapping

vars == <<req, outcome, bufBytes>>

Init ==
    /\ req \in Requests
    /\ outcome = "none"
    /\ bufBytes = 0

\* Validate the request and, when it is accepted, size the buffer.
Validate ==
    /\ outcome = "none"
    /\ IF ValidRequest(req)
          THEN outcome' = "accepted" /\ bufBytes' = ByteCount(req.n)
          ELSE outcome' = "rejected" /\ bufBytes' = 0
    /\ UNCHANGED req

\* The client issues its next request.
NextRequest ==
    /\ outcome # "none"
    /\ req' \in Requests
    /\ outcome' = "none"
    /\ bufBytes' = 0

Next == Validate \/ NextRequest

Spec == Init /\ [][Next]_vars

\* Spec 8 (n = 2^20 succeeds): an accepted request gets a buffer that holds
\* all its pages, so the sharing loop's MmGetMdlPfnArray(Mdl)[Page] and the
\* user mapping stay inside it.
BufferHoldsPages ==
    outcome = "accepted" => req.n * PageSize <= bufBytes

=============================================================================

------------------------------ MODULE PartPlan ------------------------------
(***************************************************************************)
(* The arithmetic by which Kanopy.upload_multipart cuts a video into parts *)
(* (client.py, lines 758-785 and 804-827), as operators over the module's  *)
(* limits.  The limits are the constants at the top of client.py, so every *)
(* statement about the arithmetic is a statement about all their values.   *)
(*                                                                         *)
(* math.ceil of a Python float division is exact here: a quotient of two   *)
(* integers up to 5 TiB that is not an integer is further from the next    *)
(* one than a double rounds, so CeilDiv is integer division rounded up.    *)
(*                                                                         *)
(* A definition marked "fault" is a wrong variant of the one that follows  *)
(* it; nothing uses it (README, "Faults").                                 *)
(***************************************************************************)
EXTENDS Integers

CONSTANTS
    MinPart,       \* MIN_MULTIPART_PART_SIZE, 5 MiB
    MaxPart,       \* MAX_MULTIPART_PART_SIZE, 5 GiB
    MaxBuffered,   \* MAX_BUFFERED_PART_SIZE, 256 MiB
    BufferMemory,  \* MAX_MULTIPART_BUFFER_MEMORY, 512 MiB
    MaxParts,      \* MAX_MULTIPART_PARTS, 10 000
    MaxObject,     \* MAX_MULTIPART_OBJECT_SIZE, 5 TiB
    WorkerLimit    \* the literal 32 of the max_workers check

ASSUME LimitsAssumption ==
    /\ MinPart \in Nat \ {0}
    /\ MaxPart \in Nat /\ MaxBuffered \in Nat /\ BufferMemory \in Nat
    /\ MinPart <= MaxBuffered /\ MaxBuffered <= BufferMemory
    /\ MaxParts \in Nat \ {0}
    /\ MaxObject \in Nat
    /\ WorkerLimit \in Nat \ {0}

AtMost(a, b) == IF a <= b THEN a ELSE b
AtLeast(a, b) == IF a >= b THEN a ELSE b

\* math.ceil(a / b) for integers, b positive
CeilDiv(a, b) == (a + b - 1) \div b

-----------------------------------------------------------------------------
\* effective_part_size: the part size asked for, raised until the object
\* fits into MaxParts parts
EffectiveSizeAsAsked(total, asked) == asked     \* fault
EffectiveSize(total, asked) == AtLeast(asked, CeilDiv(total, MaxParts))

PartCount(total, eff) == CeilDiv(total, eff)

\* the byte range [Offset, Offset + PartBytes) of part n, as submitted
OffsetFromOne(n, eff) == n * eff                    \* fault
Offset(n, eff) == (n - 1) * eff
PartBytesUncut(n, total, eff) == eff            \* fault
PartBytes(n, total, eff) == AtMost(eff, total - Offset(n, eff))

WorkersAsAsked(asked, count, eff) == AtMost(asked, count)    \* fault
BoundedWorkers(asked, count, eff) ==
    AtMost(AtMost(asked, count), AtLeast(1, BufferMemory \div eff))

\* The checks that raise ValueError before the first request.  They all end
\* the call in the same way, so their order is not distinguished.
LegalArguments(total, part, workers, retries) ==
    /\ total > 0 /\ total <= MaxObject
    /\ part >= MinPart /\ part <= MaxPart /\ part <= MaxBuffered
    /\ workers >= 1 /\ workers <= WorkerLimit
    /\ retries >= 1

FitsSmallerBuffers(total, part) ==              \* fault
    EffectiveSize(total, part) < MaxBuffered
FitsBuffers(total, part) == EffectiveSize(total, part) <= MaxBuffered

Accepts(total, part, workers, retries) ==
    /\ LegalArguments(total, part, workers, retries)
    /\ FitsBuffers(total, part)
=============================================================================

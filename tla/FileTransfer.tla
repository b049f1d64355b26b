---------------------------- MODULE FileTransfer ----------------------------
(***************************************************************************)
(* The shell's `bacnet file` dump, export and decode: a snapshot of a File *)
(* object is taken under the task lock, then one chunk at a time is read   *)
(* under the lock and printed outside it, while the BACnet task and other  *)
(* commands create, delete, rename, resize and reconfigure the objects.    *)
(*                                                                         *)
(* One locked section is one step: BacnetTask shows that two of them never *)
(* overlap.  A file's contents live under its pathname, whatever objects   *)
(* name it; of a byte only the pathname it came from is kept.              *)
(***************************************************************************)
EXTENDS Integers, Sequences

CONSTANTS Shells,     \* shell threads
          Files,      \* File object instances
          Paths,      \* pathnames
          NoPath,     \* a null or empty pathname
          MaxOffset,  \* INT32_MAX, the last offset bacfile_read_offset() takes
          DumpLine,   \* the 16 bytes of a dump line
          FileChunk,  \* CONFIG_BACNETSTACK_BACNET_FILE_SHELL_CHUNK_SIZE
          MaxApdu     \* MAX_APDU, the most decode reads for one record

ASSUME ConstantsAssumption ==
    /\ NoPath \notin Paths
    /\ MaxOffset \in Nat
    /\ DumpLine \in Nat \ {0} /\ FileChunk \in Nat \ {0} /\ MaxApdu \in Nat \ {0}

\* Bounds of the file sizes and of the lengths asked for, one past the limit.
MaxSize == MaxOffset + 1

VARIABLES object,   \* the File objects
          size,     \* the length of the contents under each pathname
          config,   \* the Device's configuration-files
          pc,       \* where each shell is
          xfer,     \* its struct file_transfer, and the command's locals
          heap,     \* the strings k_malloc()ed for it and not yet freed
          out,      \* the chunks it has printed
          result    \* what its last command returned

shellVars == <<pc, xfer, heap, out, result>>
fileVars  == <<object, size, config>>
vars      == <<fileVars, shellVars>>

Ops      == {"dump", "export", "decode"}
Strings  == {"pathname", "name", "mime_type"}
Objects  == [valid : BOOLEAN, path : Paths \cup {NoPath}, stream : BOOLEAN]
ChunkSize(op) == CASE op = "dump" -> DumpLine [] op = "export" -> FileChunk
                   [] op = "decode" -> MaxApdu

Min2(a, b) == IF a < b THEN a ELSE b
Max2(a, b) == IF a < b THEN b ELSE a

-----------------------------------------------------------------------------
(***************************************************************************)
(* The snapshot.                                                           *)
(***************************************************************************)
FileSize(f) == size[object[f].path]

\* The checks of file_transfer_capture(), in their order.
CaptureChecks(f) ==
    IF ~ object[f].valid THEN "ENOENT"
    ELSE IF object[f].path = NoPath THEN "EINVAL"
    ELSE IF ~ object[f].stream THEN "ENOTSUP"
    ELSE IF FileSize(f) > MaxOffset THEN "EOVERFLOW"
    ELSE "ok"

\* The strings allocated when the first n of the three k_malloc() succeed.
FirstOwned(n) == IF n = 0 THEN {} ELSE IF n = 1 THEN {"pathname"}
                 ELSE IF n = 2 THEN {"pathname", "name"} ELSE Strings

\* When one fails, those before it are released.
CaptureHeapLeaks(n) == FirstOwned(n)
CaptureHeap(n) == IF n = 3 THEN Strings ELSE {}

\* The command's own checks of the snapshot: decode's in file_backup_open(),
\* dump's of the offset and of the length it was given (-1: none).
LengthUnchecked(op, f, offset, len) ==
    IF op = "decode" /\ f \notin config THEN "EPERM"
    ELSE IF op = "dump" /\ offset > FileSize(f) THEN "EINVAL"
    ELSE "ok"
OffsetUnchecked(op, f, offset, len) ==
    IF op = "decode" /\ f \notin config THEN "EPERM"
    ELSE IF op = "dump" /\ len > MaxOffset - offset THEN "EOVERFLOW"
    ELSE "ok"
CommandChecks(op, f, offset, len) ==
    IF op = "decode" /\ f \notin config THEN "EPERM"
    ELSE IF op = "dump" /\ offset > FileSize(f) THEN "EINVAL"
    ELSE IF op = "dump" /\ len > MaxOffset - offset THEN "EOVERFLOW"
    ELSE "ok"

\* Shell s ends its command, releasing the snapshot: every exit of the three commands
\* that comes after the capture.
Finish(s, status) ==
    /\ pc' = [pc EXCEPT ![s] = "idle"]
    /\ heap' = [heap EXCEPT ![s] = {}]
    /\ result' = [result EXCEPT ![s] = status]

\* A command that never got to its loop has nothing to show.
NoTransfer(f) == [op |-> "dump", file |-> f, path |-> NoPath, fileSize |-> 0, start |-> 0,
                  offset |-> 0, left |-> 0, got |-> 0, from |-> NoPath]
Reset(s, f) == /\ xfer' = [xfer EXCEPT ![s] = NoTransfer(f)]
               /\ out' = [out EXCEPT ![s] = <<>>]

\* The next round of the command's loop, or its end.
Loop(s, left) ==
    IF left > 0
    THEN /\ pc' = [pc EXCEPT ![s] = "read"]
         /\ UNCHANGED <<heap, result>>
    ELSE Finish(s, "ok")

\* file_transfer_open() or file_backup_open() fails: n of its allocations succeed.
OpenFails(s, op, f, n) ==
    /\ pc[s] = "idle"
    /\ CaptureChecks(f) # "ok" => n = 0
    /\ CaptureChecks(f) = "ok" => n < 3
    /\ heap' = [heap EXCEPT ![s] = CaptureHeap(n)]
    /\ result' = [result EXCEPT ![s] =
                      IF CaptureChecks(f) # "ok" THEN CaptureChecks(f) ELSE "ENOMEM"]
    /\ Reset(s, f)
    /\ UNCHANGED <<fileVars, pc>>

\* The snapshot is taken and the command refuses it.
OpenRejected(s, op, f, offset, len) ==
    /\ pc[s] = "idle"
    /\ CaptureChecks(f) = "ok"
    /\ CommandChecks(op, f, offset, len) # "ok"
    /\ Finish(s, CommandChecks(op, f, offset, len))
    /\ Reset(s, f)
    /\ UNCHANGED fileVars

\* The snapshot is taken and the command enters its loop.
OpenSucceeds(s, op, f, offset, len) ==
    /\ pc[s] = "idle"
    /\ CaptureChecks(f) = "ok"
    /\ CommandChecks(op, f, offset, len) = "ok"
    /\ LET left == IF len = -1 THEN FileSize(f) - offset ELSE len
       IN  /\ xfer' = [xfer EXCEPT ![s] =
                          [op |-> op, file |-> f, path |-> object[f].path,
                           fileSize |-> FileSize(f), start |-> offset,
                           offset |-> offset, left |-> left, got |-> 0,
                           from |-> object[f].path]]
           /\ IF left > 0
              THEN /\ pc' = [pc EXCEPT ![s] = "read"]
                   /\ heap' = [heap EXCEPT ![s] = CaptureHeap(3)]
                   /\ UNCHANGED result
              ELSE Finish(s, "ok")
    /\ out' = [out EXCEPT ![s] = <<>>]
    /\ UNCHANGED fileVars

-----------------------------------------------------------------------------
(***************************************************************************)
(* One chunk.                                                              *)
(***************************************************************************)
\* file_transfer_revalidate().
RevalidateNothing(s) == "ok"
Revalidate(s) ==
    LET f == xfer[s].file
    IN  IF ~ object[f].valid \/ object[f].path # xfer[s].path \/ ~ object[f].stream
        THEN "ENOENT"
        ELSE IF FileSize(f) > MaxOffset THEN "EOVERFLOW" ELSE "ok"

Requested(s) == Min2(xfer[s].left, ChunkSize(xfer[s].op))

\* The most bacfile_read_offset() finds of the bytes asked for; it may return less.
Available(s) ==
    LET f == xfer[s].file
    IN  IF object[f].valid /\ object[f].path # NoPath
        THEN Min2(Requested(s), Max2(0, FileSize(f) - xfer[s].offset)) ELSE 0

\* How a command takes n bytes of the r it asked for: dump breaks off its loop at
\* none and after fewer, export wants all of them, decode some.
AcceptAsDump(op, n, r) == IF op = "decode" /\ n = 0 THEN "EIO"
                          ELSE IF n = 0 THEN "break" ELSE "ok"
Accept(op, n, r) == IF (op = "export" /\ n # r) \/ (op = "decode" /\ n = 0) THEN "EIO"
                    ELSE IF op = "dump" /\ n = 0 THEN "break" ELSE "ok"

\* The locked section that reads a chunk, and what follows it up to the output.
ReadFails(s) ==
    /\ pc[s] = "read"
    /\ Revalidate(s) # "ok"
    /\ Finish(s, Revalidate(s))
    /\ UNCHANGED <<fileVars, xfer, out>>

ReadRetried(s, n) ==
    /\ pc[s] = "read"
    /\ Revalidate(s) = "ok"
    /\ Accept(xfer[s].op, n, Requested(s)) # "ok"
    /\ UNCHANGED vars
ReadRefused(s, n) ==
    /\ pc[s] = "read"
    /\ Revalidate(s) = "ok"
    /\ LET a == Accept(xfer[s].op, n, Requested(s))
       IN  a # "ok" /\ Finish(s, IF a = "break" THEN "ok" ELSE a)
    /\ UNCHANGED <<fileVars, xfer, out>>

\* decode's record is malformed or truncated.
RecordMalformed(s, n) ==
    /\ pc[s] = "read"
    /\ xfer[s].op = "decode"
    /\ Revalidate(s) = "ok"
    /\ Accept("decode", n, Requested(s)) = "ok"
    /\ Finish(s, "EBADMSG")
    /\ UNCHANGED <<fileVars, xfer, out>>

\* got bytes are taken: the n that were read, or the record decode finds in them.
ReadChunk(s, n, got) ==
    /\ pc[s] = "read"
    /\ Revalidate(s) = "ok"
    /\ Accept(xfer[s].op, n, Requested(s)) = "ok"
    /\ IF xfer[s].op = "decode" THEN got \in 1..n ELSE got = n
    /\ xfer' = [xfer EXCEPT ![s].got = got, ![s].from = object[xfer[s].file].path]
    /\ pc' = [pc EXCEPT ![s] = IF xfer[s].op = "decode" THEN "record" ELSE "print"]
    /\ UNCHANGED <<fileVars, heap, out, result>>

\* decode's second locked section: is the object still there, its record's object
\* type supported?  Then the initial values are validated.
CheckRecord(s, supported, wellFormed) ==
    /\ pc[s] = "record"
    /\ IF Revalidate(s) # "ok" THEN Finish(s, Revalidate(s))
       ELSE IF ~ supported THEN Finish(s, "ENOTSUP")
       ELSE IF ~ wellFormed THEN Finish(s, "EBADMSG")
       ELSE pc' = [pc EXCEPT ![s] = "print"] /\ UNCHANGED <<heap, result>>
    /\ UNCHANGED <<fileVars, xfer, out>>

\* dump stops after a short read; the others go on until nothing is left.
StopsAfter(s) == xfer[s].op = "dump" /\ xfer[s].got < Requested(s)

\* The chunk is printed, without the lock; the loop goes on.
PrintChunkInPlace(s) ==
    /\ pc[s] = "print"
    /\ out' = [out EXCEPT ![s] = Append(@, [offset |-> xfer[s].offset,
                                            len |-> xfer[s].got, from |-> xfer[s].from])]
    /\ xfer' = [xfer EXCEPT ![s].left = @ - xfer[s].got]
    /\ Loop(s, IF StopsAfter(s) THEN 0 ELSE xfer[s].left - xfer[s].got)
    /\ UNCHANGED fileVars
PrintChunk(s) ==
    /\ pc[s] = "print"
    /\ out' = [out EXCEPT ![s] = Append(@, [offset |-> xfer[s].offset,
                                            len |-> xfer[s].got, from |-> xfer[s].from])]
    /\ xfer' = [xfer EXCEPT ![s].offset = @ + xfer[s].got,
                            ![s].left = @ - xfer[s].got]
    /\ Loop(s, IF StopsAfter(s) THEN 0 ELSE xfer[s].left - xfer[s].got)
    /\ UNCHANGED fileVars

-----------------------------------------------------------------------------
(***************************************************************************)
(* Everyone else, between two locked sections of a transfer.               *)
(***************************************************************************)
\* The BACnet task creates, deletes, renames or reconfigures a File object.
ObjectChanges(f, o) ==
    /\ o.valid \/ (o.path = NoPath /\ ~ o.stream)
    /\ object' = [object EXCEPT ![f] = o]
    /\ UNCHANGED <<size, config, shellVars>>

\* AtomicWriteFile, a backup, a restore or a truncation: a file gets a new length.
Resized(p, n) ==
    /\ size' = [size EXCEPT ![p] = n]
    /\ UNCHANGED <<object, config, shellVars>>

\* `bacnet file write` or `import` of another shell; the backend may stop short.
\* A read-only file is one that no such write reaches.
WriteHex(f, offset, n) ==
    /\ object[f].valid /\ object[f].path # NoPath /\ object[f].stream
    /\ offset <= MaxOffset
    /\ n \in 1..FileChunk
    /\ size' = [size EXCEPT ![object[f].path] = Max2(@, Min2(offset + n, MaxSize))]
    /\ UNCHANGED <<object, config, shellVars>>

\* `bacnet file config` sets the one configuration-files entry.
Configure(f) ==
    /\ object[f].valid
    /\ config' = {f}
    /\ UNCHANGED <<object, size, shellVars>>

-----------------------------------------------------------------------------
Init ==
    /\ object \in [Files -> {o \in Objects : o.valid \/ (o.path = NoPath /\ ~ o.stream)}]
    /\ size = [p \in Paths \cup {NoPath} |-> 0]
    /\ config = {}
    /\ pc = [s \in Shells |-> "idle"]
    /\ \E f \in Files : xfer = [s \in Shells |-> NoTransfer(f)]
    /\ heap = [s \in Shells |-> {}]
    /\ out = [s \in Shells |-> <<>>]
    /\ result = [s \in Shells |-> "none"]

Command(s) ==
    \E op \in Ops, f \in Files :
        \/ \E n \in 0..2 : OpenFails(s, op, f, n)
        \/ \E offset \in 0..MaxOffset, len \in (-1)..MaxSize :
               /\ op # "dump" => offset = 0 /\ len = -1
               /\ OpenRejected(s, op, f, offset, len) \/ OpenSucceeds(s, op, f, offset, len)

Transfer(s) ==
    \/ ReadFails(s)
    \/ \E n \in 0..Available(s) :
           ReadRefused(s, n) \/ RecordMalformed(s, n) \/ \E got \in 0..n : ReadChunk(s, n, got)
    \/ \E supported, wellFormed \in BOOLEAN : CheckRecord(s, supported, wellFormed)
    \/ PrintChunk(s)

Others ==
    \/ \E f \in Files, o \in Objects : ObjectChanges(f, o)
    \/ \E p \in Paths, n \in 0..MaxSize : Resized(p, n)
    \/ \E f \in Files, offset \in 0..MaxOffset, n \in 1..FileChunk : WriteHex(f, offset, n)
    \/ \E f \in Files : Configure(f)

Next == Others \/ \E s \in Shells : Command(s) \/ Transfer(s)

\* A transfer goes on: the lock is handed to it (BacnetTask) and its terminal
\* takes the output.  Nothing is assumed of the other parties.
Spec     == Init /\ [][Next]_vars
FairSpec == Spec /\ \A s \in Shells : WF_vars(Transfer(s))

-----------------------------------------------------------------------------
(***************************************************************************)
(* Properties.                                                             *)
(***************************************************************************)
Results == {"none", "ok", "ENOENT", "EINVAL", "ENOTSUP", "EOVERFLOW", "ENOMEM", "EPERM",
            "EIO", "EBADMSG"}
Chunks  == [offset : Nat, len : Nat, from : Paths \cup {NoPath}]
Transfers == [op : Ops, file : Files, path : Paths \cup {NoPath}, fileSize : Nat,
              start : Nat, offset : Nat, left : Nat, got : Nat,
              from : Paths \cup {NoPath}]

\* The types of the variables; the offsets and lengths of a transfer never go below 0.
TypeOK ==
    /\ object \in [Files -> Objects]
    /\ size \in [Paths \cup {NoPath} -> 0..MaxSize]
    /\ config \subseteq Files
    /\ pc \in [Shells -> {"idle", "read", "record", "print"}]
    /\ xfer \in [Shells -> Transfers]
    /\ heap \in [Shells -> SUBSET Strings]
    /\ out \in [Shells -> Seq(Chunks)]
    /\ result \in [Shells -> Results]

\* Where the output of s has got to: the end of its last chunk.
Reached(s) == IF out[s] = <<>> THEN xfer[s].start
              ELSE out[s][Len(out[s])].offset + out[s][Len(out[s])].len

\* dump's rows can be piped to xxd -r and export's entries imported one by one:
\* each chunk starts where the one before it ended.
OutputContiguous ==
    \A s \in Shells : \A i \in 1..Len(out[s]) :
        out[s][i].offset = IF i = 1 THEN xfer[s].start
                           ELSE out[s][i - 1].offset + out[s][i - 1].len

\* An export that returned success has printed as many bytes as the size it
\* announced, although the file may have shrunk or gone meanwhile.
ExportComplete ==
    \A s \in Shells :
        pc[s] = "idle" /\ result[s] = "ok" /\ xfer[s].op = "export"
            => Reached(s) = xfer[s].fileSize

\* Every byte printed comes from the pathname the snapshot was taken of, also
\* when the object is renamed or replaced between two chunks.
NoForeignBytes ==
    \A s \in Shells : \A i \in 1..Len(out[s]) : out[s][i].from = xfer[s].path

\* The offset handed to bacfile_read_offset() fits its int32_t, to the last byte
\* asked for.
ReadsInRange ==
    \A s \in Shells : pc[s] = "read" => xfer[s].offset + Requested(s) <= MaxOffset

\* A command that has ended, also in a capture that found no memory half-way, holds no
\* string of its snapshot, and one that runs holds all: the pathname is compared with at
\* each chunk.
SnapshotOwned ==
    \A s \in Shells : heap[s] = IF pc[s] = "idle" THEN {} ELSE Strings

\* A transfer ends, whatever the other parties do to the file meanwhile.
TransferEnds == \A s \in Shells : pc[s] # "idle" ~> pc[s] = "idle"
=============================================================================

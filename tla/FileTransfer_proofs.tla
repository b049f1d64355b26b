------------------------ MODULE FileTransfer_proofs ------------------------
(***************************************************************************)
(* Proofs about FileTransfer, for any number of shells, files and paths,   *)
(* any limit of the offsets and any chunk sizes.                           *)
(*                                                                         *)
(* A step of a shell touches the state of that shell only, and a step of   *)
(* anyone else none of it, so the inductive invariant is a conjunction     *)
(* over the shells.  What a chunk still has to respect is what the         *)
(* snapshot promised: offset + left stays within the stream offsets, and   *)
(* the output ends where the offset stands.                                *)
(***************************************************************************)
EXTENDS FileTransfer, SequenceTheorems, TLAPS

\* A command inside its loop.
Running(s) ==
    /\ xfer[s].left > 0
    /\ xfer[s].offset + xfer[s].left <= MaxOffset
    /\ xfer[s].op # "dump" => xfer[s].offset + xfer[s].left = xfer[s].fileSize
    /\ Reached(s) = xfer[s].offset
    /\ pc[s] # "read" => xfer[s].got <= Requested(s) /\ xfer[s].from = xfer[s].path

ContiguousOut(s) ==
    \A i \in 1..Len(out[s]) :
        out[s][i].offset = IF i = 1 THEN xfer[s].start
                           ELSE out[s][i - 1].offset + out[s][i - 1].len

OwnBytes(s) == \A i \in 1..Len(out[s]) : out[s][i].from = xfer[s].path

Complete(s) == pc[s] = "idle" /\ result[s] = "ok" /\ xfer[s].op = "export"
                   => Reached(s) = xfer[s].fileSize

OwnedStrings(s) == heap[s] = IF pc[s] = "idle" THEN {} ELSE Strings

ShellInv(s) == /\ ContiguousOut(s)
               /\ OwnBytes(s)
               /\ Complete(s)
               /\ OwnedStrings(s)
               /\ pc[s] # "idle" => Running(s)

IInv == TypeOK /\ \A s \in Shells : ShellInv(s)

-----------------------------------------------------------------------------
(* Lemmas.                                                                 *)

\* The two assignments to a transfer in its loop respect its type.
LEMMA TransferTakes ==
    ASSUME NEW r \in Transfers, NEW g \in Nat, NEW p \in Paths \cup {NoPath}
    PROVE  [r EXCEPT !.got = g, !.from = p] \in Transfers
BY DEF Transfers

LEMMA TransferAdvances ==
    ASSUME NEW r \in Transfers, NEW o \in Nat, NEW l \in Nat
    PROVE  [r EXCEPT !.offset = o, !.left = l] \in Transfers
BY DEF Transfers

\* A chunk asks for at least one byte and at most for what is left.
LEMMA RequestedBounds ==
    ASSUME TypeOK, NEW s \in Shells, xfer[s].left > 0
    PROVE  Requested(s) \in 1..xfer[s].left
<1>1. xfer[s] \in Transfers
  BY DEF TypeOK
<1>2. xfer[s].op \in Ops /\ xfer[s].left \in Nat
  BY <1>1 DEF Transfers
<1>3. ChunkSize(xfer[s].op) \in Nat \ {0}
  BY <1>2, ConstantsAssumption DEF ChunkSize, Ops
<1> QED
  BY <1>2, <1>3 DEF Requested, Min2

\* The invariant of a shell is about the state of that shell.
LEMMA Untouched ==
    ASSUME NEW t \in Shells, ShellInv(t),
           pc'[t] = pc[t], xfer'[t] = xfer[t], heap'[t] = heap[t], out'[t] = out[t],
           result'[t] = result[t]
    PROVE  ShellInv(t)'
BY DEF ShellInv, ContiguousOut, OwnBytes, Complete, OwnedStrings, Running, Reached,
       Requested

\* A command that ends without success leaves what it printed as it was.
LEMMA FinishPreserves ==
    ASSUME IInv, NEW s \in Shells, NEW status \in Results, Finish(s, status),
           UNCHANGED <<fileVars, xfer, out>>,
           status = "ok" => xfer[s].op # "export"
    PROVE  IInv'
<1>1. TypeOK'
  BY DEF IInv, TypeOK, Finish, fileVars
<1>2. ShellInv(s)'
  BY DEF IInv, TypeOK, Finish, ShellInv, ContiguousOut, OwnBytes, Complete, OwnedStrings
<1>3. \A t \in Shells \ {s} : ShellInv(t)'
  BY Untouched DEF IInv, TypeOK, Finish
<1> QED
  BY <1>1, <1>2, <1>3 DEF IInv

\* A shell that goes on in its loop with the same transfer and the same output.
LEMMA OnlyShell ==
    ASSUME IInv, NEW s \in Shells, TypeOK', ShellInv(s)',
           \A t \in Shells \ {s} :
               /\ pc'[t] = pc[t] /\ xfer'[t] = xfer[t] /\ heap'[t] = heap[t]
               /\ out'[t] = out[t] /\ result'[t] = result[t]
    PROVE  IInv'
BY Untouched DEF IInv

\* The sizes that the checks of the snapshot have let through.
LEMMA CheckedSize ==
    ASSUME TypeOK, NEW f \in Files, CaptureChecks(f) = "ok"
    PROVE  /\ object[f].path \in Paths
           /\ FileSize(f) \in 0..MaxOffset
<1>1. object[f] \in Objects
  BY DEF TypeOK
<1>2. object[f].path \in Paths /\ ~ (FileSize(f) > MaxOffset)
  BY <1>1 DEF CaptureChecks, Objects
<1>3. FileSize(f) \in 0..MaxSize
  BY <1>2 DEF FileSize, TypeOK
<1> QED
  BY <1>2, <1>3, ConstantsAssumption DEF MaxSize

-----------------------------------------------------------------------------
(* The steps of a command.                                                 *)

LEMMA InitIInv == Init => IInv
<1> SUFFICES ASSUME Init PROVE IInv
  OBVIOUS
<1>1. PICK f \in Files : xfer = [s \in Shells |-> NoTransfer(f)]
  BY DEF Init
<1>2. NoTransfer(f) \in Transfers
  BY DEF NoTransfer, Transfers, Ops
<1>3. out \in [Shells -> Seq(Chunks)]
  BY EmptySeq DEF Init
<1>4. TypeOK
  BY <1>1, <1>2, <1>3, ConstantsAssumption DEF Init, TypeOK, Results, MaxSize
<1>5. \A s \in Shells : pc[s] = "idle" /\ heap[s] = {} /\ Len(out[s]) = 0 /\ result[s] = "none"
  BY EmptySeq DEF Init
<1>6. ASSUME NEW s \in Shells PROVE ShellInv(s)
  <2>1. ContiguousOut(s) /\ OwnBytes(s)
    BY <1>5 DEF ContiguousOut, OwnBytes
  <2>2. Complete(s) /\ OwnedStrings(s)
    BY <1>5 DEF Complete, OwnedStrings
  <2> QED
    BY <1>5, <2>1, <2>2 DEF ShellInv
<1> QED
  BY <1>4, <1>6 DEF IInv

LEMMA OpenFailsPreserves ==
    ASSUME IInv, NEW s \in Shells, NEW op \in Ops, NEW f \in Files, NEW n \in 0..2,
           OpenFails(s, op, f, n)
    PROVE  IInv'
<1>1. NoTransfer(f) \in Transfers /\ <<>> \in Seq(Chunks)
  BY EmptySeq DEF NoTransfer, Transfers, Ops
<1>2. CaptureHeap(n) = {}
  BY DEF CaptureHeap
<1>3. CaptureChecks(f) \in Results
  BY DEF CaptureChecks, Results
<1>4. TypeOK'
  BY <1>1, <1>2, <1>3 DEF IInv, TypeOK, OpenFails, Reset, fileVars, Results
<1>5. pc'[s] = "idle" /\ heap'[s] = {} /\ out'[s] = <<>> /\ xfer'[s].op = "dump"
  BY <1>2 DEF IInv, TypeOK, OpenFails, Reset, NoTransfer
<1>6. ShellInv(s)'
  BY <1>5 DEF ShellInv, ContiguousOut, OwnBytes, Complete, OwnedStrings
<1> QED
  BY <1>4, <1>6, OnlyShell DEF OpenFails, Reset, IInv, TypeOK

LEMMA OpenRejectedPreserves ==
    ASSUME IInv, NEW s \in Shells, NEW op \in Ops, NEW f \in Files,
           NEW offset \in 0..MaxOffset, NEW len \in (-1)..MaxSize,
           OpenRejected(s, op, f, offset, len)
    PROVE  IInv'
<1>1. NoTransfer(f) \in Transfers /\ <<>> \in Seq(Chunks)
  BY EmptySeq DEF NoTransfer, Transfers, Ops
<1>3. CommandChecks(op, f, offset, len) \in Results
  BY DEF CommandChecks, Results
<1>4. TypeOK'
  BY <1>1, <1>3 DEF IInv, TypeOK, OpenRejected, Finish, Reset, fileVars
<1>5. pc'[s] = "idle" /\ heap'[s] = {} /\ out'[s] = <<>> /\ xfer'[s].op = "dump"
  BY DEF IInv, TypeOK, OpenRejected, Finish, Reset, NoTransfer
<1>6. ShellInv(s)'
  BY <1>5 DEF ShellInv, ContiguousOut, OwnBytes, Complete, OwnedStrings
<1> QED
  BY <1>4, <1>6, OnlyShell DEF OpenRejected, Finish, Reset, IInv, TypeOK

LEMMA OpenSucceedsPreserves ==
    ASSUME IInv, NEW s \in Shells, NEW op \in Ops, NEW f \in Files,
           NEW offset \in 0..MaxOffset, NEW len \in (-1)..MaxSize,
           op # "dump" => offset = 0 /\ len = -1,
           OpenSucceeds(s, op, f, offset, len)
    PROVE  IInv'
<1> DEFINE left == IF len = -1 THEN FileSize(f) - offset ELSE len
           x == [op |-> op, file |-> f, path |-> object[f].path,
                 fileSize |-> FileSize(f), start |-> offset,
                 offset |-> offset, left |-> left, got |-> 0,
                 from |-> object[f].path]
<1>1. /\ object[f].path \in Paths /\ FileSize(f) \in 0..MaxOffset
      /\ MaxOffset \in Nat /\ offset \in 0..MaxOffset /\ len \in (-1)..(MaxOffset + 1)
  BY CheckedSize, ConstantsAssumption DEF OpenSucceeds, IInv, MaxSize
<1>2. (op = "dump" => offset <= FileSize(f)) /\ (op = "dump" => len <= MaxOffset - offset)
  BY <1>1 DEF OpenSucceeds, CommandChecks
<1>3. left \in Nat /\ offset + left <= MaxOffset
  BY <1>1, <1>2, ConstantsAssumption
<1>4. x \in Transfers
  BY <1>1, <1>3 DEF Transfers
<1> HIDE DEF left
<1>5. xfer' = [xfer EXCEPT ![s] = x] /\ out' = [out EXCEPT ![s] = <<>>]
      /\ UNCHANGED fileVars
  BY DEF OpenSucceeds, left
<1>6. xfer'[s] = x /\ out'[s] = <<>>
  BY <1>5 DEF IInv, TypeOK
<1>7. /\ IF left > 0 THEN pc' = [pc EXCEPT ![s] = "read"]
                          /\ heap' = [heap EXCEPT ![s] = Strings] /\ result' = result
         ELSE Finish(s, "ok")
  BY DEF OpenSucceeds, left, CaptureHeap
<1>8. TypeOK'
  <2>1. xfer' \in [Shells -> Transfers] /\ out' \in [Shells -> Seq(Chunks)]
    BY <1>4, <1>5, EmptySeq DEF IInv, TypeOK
  <2>2. /\ pc' \in [Shells -> {"idle", "read", "record", "print"}]
        /\ heap' \in [Shells -> SUBSET Strings] /\ result' \in [Shells -> Results]
    BY <1>7 DEF IInv, TypeOK, Finish, Results
  <2> QED
    BY <1>5, <2>1, <2>2 DEF IInv, TypeOK, fileVars
<1>9. Len(out'[s]) = 0 /\ Reached(s)' = offset
  BY <1>6 DEF Reached
<1>10. ShellInv(s)'
  <2>1. CASE left > 0
    <3>1. pc'[s] = "read" /\ heap'[s] = Strings
      BY <1>7, <2>1 DEF IInv, TypeOK
    <3>2. op # "dump" => offset + left = FileSize(f)
      BY <1>1 DEF left
    <3> QED
      BY <1>1, <1>3, <1>6, <1>9, <2>1, <3>1, <3>2
         DEF ShellInv, ContiguousOut, OwnBytes, Complete, OwnedStrings, Running
  <2>2. CASE ~ (left > 0)
    <3>1. pc'[s] = "idle" /\ heap'[s] = {}
      BY <1>7, <2>2 DEF IInv, TypeOK, Finish
    <3>2. op = "export" => FileSize(f) = offset
      BY <1>1, <1>3, <2>2 DEF left
    <3> QED
      BY <1>6, <1>9, <3>1, <3>2
         DEF ShellInv, ContiguousOut, OwnBytes, Complete, OwnedStrings
  <2> QED
    BY <2>1, <2>2
<1>11. \A t \in Shells \ {s} :
           /\ pc'[t] = pc[t] /\ xfer'[t] = xfer[t] /\ heap'[t] = heap[t]
           /\ out'[t] = out[t] /\ result'[t] = result[t]
  BY <1>5, <1>7 DEF IInv, TypeOK, Finish
<1> QED
  BY <1>8, <1>10, <1>11, OnlyShell

LEMMA ReadFailsPreserves ==
    ASSUME IInv, NEW s \in Shells, ReadFails(s)
    PROVE  IInv'
<1>1. Revalidate(s) \in {"ENOENT", "EOVERFLOW"}
  BY DEF ReadFails, Revalidate
<1> QED
  BY <1>1, FinishPreserves DEF ReadFails, Results

\* Only dump ends its loop without an error after an empty read.
LEMMA ReadRefusedPreserves ==
    ASSUME IInv, NEW s \in Shells, NEW n \in Nat, ReadRefused(s, n)
    PROVE  IInv'
<1> DEFINE a == Accept(xfer[s].op, n, Requested(s))
           status == IF a = "break" THEN "ok" ELSE a
<1>1. a \in {"EIO", "break"} /\ (a = "break" => xfer[s].op = "dump")
  BY DEF ReadRefused, Accept
<1>2. status \in Results /\ (status = "ok" => xfer[s].op # "export")
  BY <1>1 DEF Results
<1>3. Finish(s, status) /\ UNCHANGED <<fileVars, xfer, out>>
  BY DEF ReadRefused
<1> QED
  BY <1>2, <1>3, FinishPreserves

LEMMA RecordMalformedPreserves ==
    ASSUME IInv, NEW s \in Shells, NEW n \in Nat, RecordMalformed(s, n)
    PROVE  IInv'
BY FinishPreserves DEF RecordMalformed, Results

\* The bytes taken are no more than asked for and come from the snapshot's path.
LEMMA ReadChunkPreserves ==
    ASSUME IInv, NEW s \in Shells, NEW n \in 0..Available(s), NEW got \in 0..n,
           ReadChunk(s, n, got)
    PROVE  IInv'
<1> DEFINE x == [xfer[s] EXCEPT !.got = got, !.from = object[xfer[s].file].path]
<1>1. xfer[s] \in Transfers /\ xfer[s].left > 0 /\ pc[s] = "read"
  BY DEF IInv, ShellInv, Running, TypeOK, ReadChunk
<1>2. Requested(s) \in 1..xfer[s].left
  BY <1>1, RequestedBounds DEF IInv
<1>3. object[xfer[s].file].valid /\ object[xfer[s].file].path = xfer[s].path
  BY DEF ReadChunk, Revalidate
<1>4. Available(s) \in 0..Requested(s)
  <2>1. object[xfer[s].file] \in Objects /\ xfer[s].file \in Files
    BY <1>1 DEF Transfers, IInv, TypeOK
  <2>2. FileSize(xfer[s].file) \in Nat
    BY <2>1, ConstantsAssumption DEF FileSize, Objects, IInv, TypeOK, MaxSize
  <2>3. xfer[s].offset \in Nat /\ xfer[s].left \in Nat
    BY <1>1 DEF Transfers
  <2> QED
    BY <1>2, <2>2, <2>3 DEF Available, Min2, Max2
<1>5. got \in 0..Requested(s)
  BY <1>2, <1>4, <1>1 DEF Transfers
<1>6. x \in Transfers
  <2>1. got \in Nat /\ object[xfer[s].file].path \in Paths \cup {NoPath}
    BY <1>1, <1>2, <1>3, <1>5 DEF Transfers
  <2> QED
    BY <1>1, <2>1, TransferTakes
<1>7. xfer' = [xfer EXCEPT ![s] = x]
  BY DEF ReadChunk, IInv, TypeOK
<1>8. \E p \in {"record", "print"} : pc' = [pc EXCEPT ![s] = p]
  BY DEF ReadChunk
<1>9. UNCHANGED <<fileVars, heap, out, result>>
  BY DEF ReadChunk
<1>10. TypeOK'
  BY <1>6, <1>7, <1>8, <1>9 DEF IInv, TypeOK, fileVars
<1>11. /\ xfer'[s] = x /\ pc'[s] \in {"record", "print"}
       /\ x.left = xfer[s].left /\ x.op = xfer[s].op /\ x.offset = xfer[s].offset
       /\ x.start = xfer[s].start /\ x.fileSize = xfer[s].fileSize
       /\ x.path = xfer[s].path /\ x.got = got /\ x.from = xfer[s].path
  BY <1>1, <1>3, <1>7, <1>8 DEF IInv, TypeOK, Transfers
<1>12. Requested(s)' = Requested(s) /\ Reached(s)' = Reached(s)
  BY <1>9, <1>11 DEF Requested, Reached
<1>13. ShellInv(s)'
  BY <1>1, <1>5, <1>9, <1>11, <1>12
     DEF IInv, ShellInv, Running, ContiguousOut, OwnBytes, Complete, OwnedStrings
<1>14. \A t \in Shells \ {s} : pc'[t] = pc[t] /\ xfer'[t] = xfer[t]
  BY <1>7, <1>8 DEF IInv, TypeOK
<1> QED
  BY <1>9, <1>10, <1>13, <1>14, OnlyShell

LEMMA CheckRecordPreserves ==
    ASSUME IInv, NEW s \in Shells, NEW supported \in BOOLEAN, NEW wellFormed \in BOOLEAN,
           CheckRecord(s, supported, wellFormed)
    PROVE  IInv'
<1>1. CASE \E status \in {"ENOENT", "EOVERFLOW", "ENOTSUP", "EBADMSG"} : Finish(s, status)
  BY <1>1, FinishPreserves DEF CheckRecord, Results
<1>2. CASE pc' = [pc EXCEPT ![s] = "print"] /\ UNCHANGED <<heap, result>>
  <2>1. UNCHANGED <<fileVars, xfer, out, heap, result>> /\ pc[s] = "record"
    BY <1>2 DEF CheckRecord
  <2>2. TypeOK'
    BY <1>2, <2>1 DEF IInv, TypeOK, fileVars
  <2>3. pc'[s] = "print" /\ \A t \in Shells \ {s} : pc'[t] = pc[t]
    BY <1>2 DEF IInv, TypeOK
  <2>4. ShellInv(s)'
    BY <2>1, <2>3 DEF IInv, ShellInv, Running, ContiguousOut, OwnBytes, Complete,
                      OwnedStrings, Reached, Requested
  <2> QED
    BY <2>1, <2>2, <2>3, <2>4, OnlyShell
<1> QED
  BY <1>1, <1>2 DEF CheckRecord, Revalidate

\* Printing a chunk moves the offset by exactly what was printed.
LEMMA PrintChunkPreserves ==
    ASSUME IInv, NEW s \in Shells, PrintChunk(s)
    PROVE  IInv'
<1> DEFINE got  == xfer[s].got
           left == IF StopsAfter(s) THEN 0 ELSE xfer[s].left - got
           c == [offset |-> xfer[s].offset, len |-> got, from |-> xfer[s].from]
           x == [xfer[s] EXCEPT !.offset = @ + got, !.left = @ - got]
<1>1. xfer[s] \in Transfers /\ Running(s) /\ pc[s] = "print" /\ MaxOffset \in Nat
  BY ConstantsAssumption DEF IInv, ShellInv, TypeOK, PrintChunk
<1>2. /\ xfer[s].offset \in Nat /\ xfer[s].left \in Nat /\ got \in Nat
      /\ xfer[s].fileSize \in Nat /\ xfer[s].from \in Paths \cup {NoPath}
  BY <1>1 DEF Transfers
<1>3. Requested(s) \in 1..xfer[s].left /\ got <= xfer[s].left
      /\ xfer[s].from = xfer[s].path
  BY <1>1, <1>2, RequestedBounds DEF IInv, Running
<1>4. c \in Chunks
  BY <1>2 DEF Chunks
<1>5. x \in Transfers
  <2>1. xfer[s].offset + got \in Nat /\ xfer[s].left - got \in Nat
    BY <1>2, <1>3
  <2> QED
    BY <1>1, <2>1, TransferAdvances
<1>6. /\ xfer' = [xfer EXCEPT ![s] = x]
      /\ out' = [out EXCEPT ![s] = Append(out[s], c)]
      /\ Loop(s, left) /\ UNCHANGED fileVars
  BY DEF PrintChunk, IInv, TypeOK
<1>7. out[s] \in Seq(Chunks)
  BY DEF IInv, TypeOK
<1>8. /\ Append(out[s], c) \in Seq(Chunks) /\ Append(out[s], c) # <<>>
      /\ Len(Append(out[s], c)) = Len(out[s]) + 1
      /\ \A i \in 1..Len(out[s]) : Append(out[s], c)[i] = out[s][i]
      /\ Append(out[s], c)[Len(out[s]) + 1] = c
  BY <1>4, <1>7, AppendProperties
<1>9. /\ xfer'[s] = x /\ out'[s] = Append(out[s], c)
      /\ x.offset = xfer[s].offset + got /\ x.left = xfer[s].left - got
      /\ x.op = xfer[s].op /\ x.start = xfer[s].start /\ x.path = xfer[s].path
      /\ x.fileSize = xfer[s].fileSize
      /\ c.offset = xfer[s].offset /\ c.len = got /\ c.from = xfer[s].path
  BY <1>1, <1>3, <1>6 DEF IInv, TypeOK, Transfers
<1>10. Reached(s)' = xfer[s].offset + got
  BY <1>8, <1>9 DEF Reached
<1>11. \/ left > 0 /\ pc' = [pc EXCEPT ![s] = "read"] /\ heap' = heap /\ result' = result
       \/ ~ (left > 0) /\ Finish(s, "ok")
  BY <1>6 DEF Loop
<1>12. TypeOK'
  <2>1. xfer' \in [Shells -> Transfers] /\ out' \in [Shells -> Seq(Chunks)]
    BY <1>5, <1>6, <1>8 DEF IInv, TypeOK
  <2>2. /\ pc' \in [Shells -> {"idle", "read", "record", "print"}]
        /\ heap' \in [Shells -> SUBSET Strings] /\ result' \in [Shells -> Results]
    BY <1>11 DEF IInv, TypeOK, Finish, Results
  <2> QED
    BY <1>6, <2>1, <2>2 DEF IInv, TypeOK, fileVars
<1>13. ContiguousOut(s)'
  <2>1. ContiguousOut(s) /\ Reached(s) = xfer[s].offset /\ Len(out[s]) \in Nat
    BY <1>1, <1>7 DEF IInv, ShellInv, Running
  <2>2. SUFFICES ASSUME NEW i \in 1..(Len(out[s]) + 1)
                 PROVE  Append(out[s], c)[i].offset =
                          IF i = 1 THEN xfer[s].start
                          ELSE Append(out[s], c)[i - 1].offset + Append(out[s], c)[i - 1].len
    BY <1>8, <1>9 DEF ContiguousOut
  <2>3. CASE i \in 1..Len(out[s])
    <3>1. i # 1 => i - 1 \in 1..Len(out[s])
      BY <2>1, <2>3
    <3> QED
      BY <1>8, <2>1, <2>3, <3>1 DEF ContiguousOut
  <2>4. CASE i = Len(out[s]) + 1
    <3>1. CASE i = 1
      <4>1. out[s] = <<>>
        BY <1>7, <2>1, <2>4, <3>1, EmptySeq
      <4> QED
        BY <1>8, <1>9, <2>1, <2>4, <3>1, <4>1 DEF Reached
    <3>2. CASE i # 1
      <4>1. out[s] # <<>> /\ i - 1 = Len(out[s]) /\ Len(out[s]) \in 1..Len(out[s])
        BY <2>1, <2>4, <3>2
      <4> QED
        BY <1>8, <1>9, <2>1, <2>4, <3>2, <4>1 DEF Reached
    <3> QED
      BY <3>1, <3>2
  <2> QED
    BY <2>1, <2>3, <2>4
<1>14. OwnBytes(s)'
  <2>1. OwnBytes(s)
    BY DEF IInv, ShellInv
  <2> QED
    BY <1>7, <1>8, <1>9, <2>1 DEF OwnBytes
<1>15. ShellInv(s)'
  <2>1. CASE left > 0
    <3>1. pc'[s] = "read" /\ heap'[s] = heap[s] /\ ~ StopsAfter(s)
      BY <1>11, <2>1 DEF IInv, TypeOK
    <3>2. Running(s)'
      BY <1>1, <1>2, <1>3, <1>9, <1>10, <2>1, <3>1 DEF Running
    <3> QED
      BY <1>1, <1>13, <1>14, <3>1, <3>2 DEF ShellInv, IInv, Complete, OwnedStrings
  <2>2. CASE ~ (left > 0)
    <3>1. pc'[s] = "idle" /\ heap'[s] = {}
      BY <1>11, <2>2 DEF IInv, TypeOK, Finish
    <3>2. xfer[s].op = "export" => xfer[s].offset + got = xfer[s].fileSize
      <4>1. xfer[s].op = "export" => xfer[s].offset + xfer[s].left = xfer[s].fileSize
        BY <1>1 DEF Running
      <4>2. xfer[s].op = "export" => xfer[s].left - got <= 0
        BY <1>2, <2>2 DEF StopsAfter
      <4> QED
        BY <1>2, <1>3, <4>1, <4>2
    <3> QED
      BY <1>9, <1>10, <1>13, <1>14, <3>1, <3>2 DEF ShellInv, Complete, OwnedStrings
  <2> QED
    BY <2>1, <2>2
<1>16. \A t \in Shells \ {s} :
           /\ pc'[t] = pc[t] /\ xfer'[t] = xfer[t] /\ heap'[t] = heap[t]
           /\ out'[t] = out[t] /\ result'[t] = result[t]
  BY <1>6, <1>11 DEF IInv, TypeOK, Finish
<1> QED
  BY <1>12, <1>15, <1>16, OnlyShell

-----------------------------------------------------------------------------
(* Everyone else, and the next-state relation.                             *)

LEMMA OthersPreserve ==
    ASSUME IInv, Others
    PROVE  IInv'
<1>1. UNCHANGED shellVars
  BY DEF Others, ObjectChanges, Resized, WriteHex, Configure
<1>2. MaxSize \in Nat /\ MaxOffset \in Nat
  BY ConstantsAssumption DEF MaxSize
<1>3. object' \in [Files -> Objects] /\ config' \subseteq Files
  BY DEF Others, ObjectChanges, Resized, WriteHex, Configure, IInv, TypeOK
<1>4. size' \in [Paths \cup {NoPath} -> 0..MaxSize]
  <2>1. ASSUME NEW f \in Files, NEW offset \in 0..MaxOffset, NEW n \in 1..FileChunk,
               WriteHex(f, offset, n)
        PROVE  size' \in [Paths \cup {NoPath} -> 0..MaxSize]
    <3>1. size \in [Paths \cup {NoPath} -> 0..MaxSize]
      BY DEF IInv, TypeOK
    <3>2. object[f].path \in Paths \cup {NoPath}
      BY DEF IInv, TypeOK, Objects
    <3>3. size[object[f].path] \in 0..MaxSize
      BY <3>1, <3>2
    <3>4. Max2(size[object[f].path], Min2(offset + n, MaxSize)) \in 0..MaxSize
      BY <1>2, <3>3, ConstantsAssumption DEF Max2, Min2
    <3> QED
      BY <2>1, <3>1, <3>4 DEF WriteHex
  <2> QED
    BY <2>1 DEF Others, ObjectChanges, Resized, Configure, IInv, TypeOK
<1>5. TypeOK'
  BY <1>1, <1>3, <1>4 DEF IInv, TypeOK, shellVars
<1>6. \A t \in Shells : ShellInv(t)'
  BY <1>1, Untouched DEF IInv, shellVars
<1> QED
  BY <1>5, <1>6 DEF IInv

LEMMA CommandPreserves ==
    ASSUME IInv, NEW s \in Shells, Command(s)
    PROVE  IInv'
BY OpenFailsPreserves, OpenRejectedPreserves, OpenSucceedsPreserves DEF Command

LEMMA TransferPreserves ==
    ASSUME IInv, NEW s \in Shells, Transfer(s)
    PROVE  IInv'
<1>1. \A n \in 0..Available(s) : n \in Nat
  OBVIOUS
<1> QED
  BY <1>1, ReadFailsPreserves, ReadRefusedPreserves, RecordMalformedPreserves,
     ReadChunkPreserves, CheckRecordPreserves, PrintChunkPreserves DEF Transfer

LEMMA NextIInv == IInv /\ [Next]_vars => IInv'
<1> SUFFICES ASSUME IInv, [Next]_vars PROVE IInv'
  OBVIOUS
<1>1. CASE UNCHANGED vars
  <2>1. TypeOK'
    BY <1>1 DEF IInv, TypeOK, vars, fileVars, shellVars
  <2>2. \A t \in Shells : ShellInv(t)'
    BY <1>1, Untouched DEF IInv, vars, shellVars
  <2> QED
    BY <2>1, <2>2 DEF IInv
<1>2. CASE Others
  BY <1>2, OthersPreserve
<1>3. ASSUME NEW s \in Shells, Command(s) \/ Transfer(s) PROVE IInv'
  BY <1>3, CommandPreserves, TransferPreserves
<1> QED
  BY <1>1, <1>2, <1>3 DEF Next

\* What is asked for is left, and what is left is within the offsets.
LEMMA InRange == IInv => ReadsInRange
<1> SUFFICES ASSUME IInv, NEW s \in Shells, pc[s] = "read"
             PROVE  xfer[s].offset + Requested(s) <= MaxOffset
  BY DEF ReadsInRange
<1>1. Running(s) /\ xfer[s] \in Transfers /\ MaxOffset \in Nat
  BY ConstantsAssumption DEF IInv, ShellInv, TypeOK
<1>2. xfer[s].offset \in Nat /\ xfer[s].left \in Nat
  BY <1>1 DEF Transfers
<1>3. Requested(s) \in 1..xfer[s].left
  BY <1>1, RequestedBounds DEF IInv, Running
<1> QED
  BY <1>1, <1>2, <1>3 DEF Running

-----------------------------------------------------------------------------
(* The theorems.                                                           *)

\* Every reachable state satisfies the inductive invariant.
THEOREM Invariance == Spec => []IInv
BY InitIInv, NextIInv, PTL DEF Spec

\* The variables keep their types; no offset or length of a transfer goes below 0.
THEOREM TypeCorrect == Spec => []TypeOK
<1>1. IInv => TypeOK
  BY DEF IInv
<1> QED
  BY <1>1, Invariance, PTL

\* dump's rows and export's entries follow each other without gap or overlap.
THEOREM Contiguity == Spec => []OutputContiguous
<1>1. IInv => OutputContiguous
  BY DEF IInv, ShellInv, ContiguousOut, OutputContiguous
<1> QED
  BY <1>1, Invariance, PTL

\* A successful export has printed as many bytes as it announced.
THEOREM Completeness == Spec => []ExportComplete
<1>1. IInv => ExportComplete
  BY DEF IInv, ShellInv, Complete, ExportComplete
<1> QED
  BY <1>1, Invariance, PTL

\* file_transfer_revalidate() keeps another file's bytes out of the output.
THEOREM Provenance == Spec => []NoForeignBytes
<1>1. IInv => NoForeignBytes
  BY DEF IInv, ShellInv, OwnBytes, NoForeignBytes
<1> QED
  BY <1>1, Invariance, PTL

\* No read reaches past INT32_MAX, whatever offset and length dump is given and
\* however large the file grows.
THEOREM OffsetsInRange == Spec => []ReadsInRange
<1>1. IInv => ReadsInRange
  BY InRange
<1> QED
  BY <1>1, Invariance, PTL

\* The three strings are allocated exactly while a command is in its loop.
THEOREM Ownership == Spec => []SnapshotOwned
<1>1. IInv => SnapshotOwned
  BY DEF IInv, ShellInv, OwnedStrings, SnapshotOwned
<1> QED
  BY <1>1, Invariance, PTL
-----------------------------------------------------------------------------
(* How far a transfer gets.                                                *)

\* A chunk on its way to the output has a byte at least, and export's all it asked for.
Taken(s) ==
    pc[s] \in {"record", "print"} =>
        /\ xfer[s].got >= 1
        /\ xfer[s].op = "export" => xfer[s].got = Requested(s)

\* The chunks of dump and export all have the same length, but for the last one.
Aligned(s) ==
    xfer[s].op # "decode" =>
        /\ \A i \in 1..Len(out[s]) :
               out[s][i].offset = xfer[s].start + (i - 1) * ChunkSize(xfer[s].op)
        /\ pc[s] # "idle" =>
               xfer[s].offset = xfer[s].start + Len(out[s]) * ChunkSize(xfer[s].op)

\* There are no more chunks than bytes.
Counted(s) == Len(out[s]) <= Reached(s) - xfer[s].start /\ Reached(s) <= MaxOffset

StreamInv(s) == Taken(s) /\ Aligned(s) /\ Counted(s)

\* A row of dump's output starts a multiple of 16 bytes after the first, and a chunk of
\* export's a multiple of the chunk size: only the last one may be short.
RowsAligned ==
    \A s \in Shells : xfer[s].op # "decode" =>
        \A i \in 1..Len(out[s]) :
            out[s][i].offset = xfer[s].start + (i - 1) * ChunkSize(xfer[s].op)

\* No command prints more chunks than there are bytes between its first offset and the
\* last one it has reached, which a stream can have.
OutputBounded == \A s \in Shells : Counted(s)

\* The chunk sizes of the commands.
LEMMA ChunkSizes == \A op \in Ops : ChunkSize(op) \in Nat \ {0}
BY ConstantsAssumption DEF ChunkSize, Ops

\* Nothing was printed yet.
LEMMA StreamStarts ==
    ASSUME NEW s \in Shells, out[s] = <<>>, xfer[s] \in Transfers,
           xfer[s].start <= MaxOffset,
           xfer[s].offset = xfer[s].start, pc[s] \in {"idle", "read"}
    PROVE  StreamInv(s)
<1>1. Len(out[s]) = 0 /\ Reached(s) = xfer[s].start
  BY DEF Reached
<1>2. xfer[s].start \in Nat /\ xfer[s].op \in Ops
  BY DEF Transfers
<1>3. 0 * ChunkSize(xfer[s].op) = 0
  BY <1>2, ChunkSizes
<1> QED
  BY <1>1, <1>2, <1>3 DEF StreamInv, Taken, Aligned, Counted

\* A step that prints nothing and does not start over.
LEMMA StreamKept ==
    ASSUME NEW s \in Shells, StreamInv(s), out'[s] = out[s],
           xfer'[s].op = xfer[s].op, xfer'[s].start = xfer[s].start,
           xfer'[s].offset = xfer[s].offset,
           pc'[s] = "idle" \/ pc[s] # "idle", Taken(s)'
    PROVE  StreamInv(s)'
BY DEF StreamInv, Aligned, Counted, Reached

\* A step that does not touch the shell.
LEMMA StreamUntouched ==
    ASSUME NEW s \in Shells, StreamInv(s), out'[s] = out[s], xfer'[s] = xfer[s], pc'[s] = pc[s]
    PROVE  StreamInv(s)'
BY StreamKept DEF Taken, StreamInv, Requested, Aligned, Counted, Reached

\* The bytes that a read hands on.
LEMMA ReadTakes ==
    ASSUME IInv, NEW s \in Shells, NEW n \in 0..Available(s), NEW got \in 0..n,
           ReadChunk(s, n, got)
    PROVE  Taken(s)'
<1>1. xfer[s] \in Transfers /\ xfer[s].left > 0 /\ pc[s] = "read"
  BY DEF IInv, ShellInv, Running, TypeOK, ReadChunk
<1>2. Requested(s) \in 1..xfer[s].left /\ xfer[s].left \in Nat
  BY <1>1, RequestedBounds DEF IInv, Transfers
<1>3. n \in Int /\ n >= 0 /\ got \in Int
  OBVIOUS
<1>4. got >= 1 /\ (xfer[s].op = "export" => got = Requested(s))
  <2>1. CASE xfer[s].op = "decode"
    BY <1>3, <2>1 DEF ReadChunk
  <2>2. CASE xfer[s].op = "export"
    BY <1>2, <2>2 DEF ReadChunk, Accept
  <2>3. CASE xfer[s].op = "dump"
    <3>1. n # 0 /\ got = n
      BY <2>3 DEF ReadChunk, Accept
    <3> QED
      BY <1>3, <2>3, <3>1
  <2> QED
    BY <1>1, <2>1, <2>2, <2>3 DEF Transfers, Ops
<1>5. xfer'[s].got = got /\ xfer'[s].left = xfer[s].left /\ xfer'[s].op = xfer[s].op
  BY <1>1 DEF ReadChunk, IInv, TypeOK, Transfers
<1> QED
  BY <1>4, <1>5 DEF Taken, Requested

\* Printing a chunk: the loop goes on only after a whole one.
LEMMA PrintStreams ==
    ASSUME IInv, NEW s \in Shells, StreamInv(s), PrintChunk(s)
    PROVE  StreamInv(s)'
<1> DEFINE got  == xfer[s].got
           left == IF StopsAfter(s) THEN 0 ELSE xfer[s].left - got
           size1 == ChunkSize(xfer[s].op)
           c == [offset |-> xfer[s].offset, len |-> got, from |-> xfer[s].from]
<1>1. /\ xfer[s] \in Transfers /\ Running(s) /\ pc[s] = "print" /\ MaxOffset \in Nat
      /\ out[s] \in Seq(Chunks)
  BY ConstantsAssumption DEF IInv, ShellInv, TypeOK, PrintChunk
<1>2. /\ xfer[s].offset \in Nat /\ xfer[s].left \in Nat /\ got \in Nat
      /\ xfer[s].start \in Nat /\ Len(out[s]) \in Nat /\ xfer[s].op \in Ops
      /\ size1 \in Nat \ {0} /\ MaxOffset \in Nat
  BY <1>1, ChunkSizes DEF Transfers
<1>3. got <= xfer[s].left /\ got <= Requested(s) /\ got >= 1
      /\ xfer[s].offset + xfer[s].left <= MaxOffset /\ Reached(s) = xfer[s].offset
      /\ (xfer[s].op = "export" => got = Requested(s))
      /\ Requested(s) = Min2(xfer[s].left, size1)
  BY <1>1, <1>2, RequestedBounds DEF IInv, Running, StreamInv, Taken, Requested
<1>4. /\ out'[s] = Append(out[s], c) /\ Loop(s, left)
      /\ xfer'[s].offset = xfer[s].offset + got
      /\ xfer'[s].op = xfer[s].op /\ xfer'[s].start = xfer[s].start
  BY <1>1 DEF PrintChunk, IInv, TypeOK, Transfers
<1>5. /\ Append(out[s], c) # <<>>
      /\ Len(Append(out[s], c)) = Len(out[s]) + 1
      /\ \A i \in 1..Len(out[s]) : Append(out[s], c)[i] = out[s][i]
      /\ Append(out[s], c)[Len(out[s]) + 1] = c
  <2>1. c \in Chunks
    BY <1>1, <1>2 DEF Chunks, Transfers
  <2> QED
    BY <1>1, <2>1, AppendProperties
<1>6. \/ pc'[s] = "read" /\ left > 0
      \/ pc'[s] = "idle"
  BY <1>4 DEF Loop, Finish, IInv, TypeOK
<1>7. Reached(s)' = xfer[s].offset + got
  BY <1>4, <1>5 DEF Reached
<1>8. Counted(s)'
  <2>1. Len(out'[s]) = Len(out[s]) + 1 /\ xfer'[s].start = xfer[s].start
    BY <1>4, <1>5
  <2>2. Len(out[s]) <= xfer[s].offset - xfer[s].start
    BY <1>3 DEF StreamInv, Counted
  <2>3. Len(out[s]) + 1 <= xfer[s].offset + got - xfer[s].start
    <3>1. \A l, o, b, g \in Nat : l <= o - b /\ g >= 1 => l + 1 <= o + g - b
      OBVIOUS
    <3> QED
      BY <1>2, <1>3, <2>2, <3>1
  <2>4. xfer[s].offset + got <= MaxOffset
    <3>1. \A o, l, g, m \in Nat : o + l <= m /\ g <= l => o + g <= m
      OBVIOUS
    <3> QED
      BY <1>2, <1>3, <3>1
  <2>5. Len(out'[s]) <= Reached(s)' - xfer'[s].start /\ Reached(s)' <= MaxOffset
    BY <1>2, <1>7, <2>1, <2>3, <2>4
  <2> QED
    BY <2>5 DEF Counted
<1>9. ASSUME xfer[s].op # "decode", pc'[s] = "read" PROVE got = size1
  <2>1. left > 0 /\ ~ StopsAfter(s)
    BY <1>6, <1>9
  <2>2. xfer[s].left - got > 0 /\ got = Requested(s)
    BY <1>2, <1>3, <1>9, <2>1 DEF StopsAfter, Ops, Min2
  <2> QED
    BY <1>2, <1>3, <2>2 DEF Min2
<1>10. Aligned(s)'
  <2> SUFFICES ASSUME xfer[s].op # "decode"
               PROVE  /\ \A i \in 1..Len(out'[s]) :
                             out'[s][i].offset = xfer[s].start + (i - 1) * size1
                      /\ pc'[s] # "idle" =>
                             xfer'[s].offset = xfer[s].start + Len(out'[s]) * size1
    BY <1>4 DEF Aligned
  <2>1. /\ \A i \in 1..Len(out[s]) : out[s][i].offset = xfer[s].start + (i - 1) * size1
        /\ xfer[s].offset = xfer[s].start + Len(out[s]) * size1
    BY <1>1 DEF StreamInv, Aligned
  <2>2. ASSUME NEW i \in 1..(Len(out[s]) + 1)
        PROVE  out'[s][i].offset = xfer[s].start + (i - 1) * size1
    <3>1. CASE i \in 1..Len(out[s])
      BY <1>4, <1>5, <2>1, <3>1
    <3>2. CASE i = Len(out[s]) + 1
      <4>1. out'[s][i] = c /\ i - 1 = Len(out[s])
        BY <1>2, <1>4, <1>5, <3>2
      <4> QED
        BY <2>1, <4>1
    <3> QED
      BY <1>2, <2>2, <3>1, <3>2
  <2>3. (Len(out[s]) + 1) * size1 = Len(out[s]) * size1 + size1
    BY <1>2
  <2>4. Len(out[s]) * size1 \in Nat
    BY <1>2
  <2>5. pc'[s] # "idle" => xfer'[s].offset = xfer[s].start + (Len(out[s]) + 1) * size1
    <3> DEFINE p == Len(out[s]) * size1
               q == (Len(out[s]) + 1) * size1
    <3>1. p \in Nat /\ q = p + size1 /\ xfer[s].offset = xfer[s].start + p
      BY <2>1, <2>3, <2>4
    <3> HIDE DEF p, q
    <3>2. pc'[s] # "idle" => xfer'[s].offset = xfer[s].start + p + size1
      BY <1>4, <1>6, <1>9, <3>1
    <3> QED
      BY <1>2, <3>1, <3>2 DEF q
  <2>6. Len(out'[s]) = Len(out[s]) + 1
    BY <1>4, <1>5
  <2> QED
    BY <2>2, <2>5, <2>6
<1> QED
  BY <1>6, <1>8, <1>10 DEF StreamInv, Taken

\* The steps of a transfer that end it.
Ends(s) == \E status \in Results : Finish(s, status) /\ UNCHANGED <<fileVars, xfer, out>>

LEMMA TransferCases ==
    ASSUME IInv, NEW s \in Shells, Transfer(s)
    PROVE  \/ Ends(s) /\ pc[s] # "idle"
           \/ \E n \in 0..Available(s) : \E got \in 0..n : ReadChunk(s, n, got)
           \/ /\ pc[s] = "record" /\ pc' = [pc EXCEPT ![s] = "print"]
              /\ UNCHANGED <<fileVars, xfer, out, heap, result>>
           \/ PrintChunk(s)
<1>1. CASE ReadFails(s)
  BY <1>1 DEF ReadFails, Revalidate, Ends, Results
<1>2. CASE \E n \in 0..Available(s) : ReadRefused(s, n)
  BY <1>2 DEF ReadRefused, Accept, Ends, Results
<1>3. CASE \E n \in 0..Available(s) : RecordMalformed(s, n)
  BY <1>3 DEF RecordMalformed, Ends, Results
<1>4. CASE \E supported, wellFormed \in BOOLEAN : CheckRecord(s, supported, wellFormed)
  BY <1>4 DEF CheckRecord, Revalidate, Ends, Results
<1> QED
  BY <1>1, <1>2, <1>3, <1>4 DEF Transfer

\* Where a command starts.
LEMMA CommandStarts ==
    ASSUME IInv, NEW s \in Shells, Command(s)
    PROVE  /\ out'[s] = <<>> /\ xfer'[s].start \in 0..MaxOffset
           /\ xfer'[s].offset = xfer'[s].start /\ pc'[s] \in {"idle", "read"}
<1> DEFINE Starts == /\ out'[s] = <<>> /\ xfer'[s].start \in 0..MaxOffset
                     /\ xfer'[s].offset = xfer'[s].start /\ pc'[s] \in {"idle", "read"}
<1>t. MaxOffset \in Nat
  BY ConstantsAssumption
<1>1. ASSUME NEW op \in Ops, NEW f \in Files, NEW n \in 0..2, OpenFails(s, op, f, n)
      PROVE  Starts
  BY <1>t, <1>1 DEF OpenFails, Reset, NoTransfer, IInv, TypeOK
<1>2. ASSUME NEW op \in Ops, NEW f \in Files, NEW offset \in 0..MaxOffset,
             NEW len \in (-1)..MaxSize, OpenRejected(s, op, f, offset, len)
      PROVE  Starts
  BY <1>t, <1>2 DEF OpenRejected, Finish, Reset, NoTransfer, IInv, TypeOK
<1>3. ASSUME NEW op \in Ops, NEW f \in Files, NEW offset \in 0..MaxOffset,
             NEW len \in (-1)..MaxSize, OpenSucceeds(s, op, f, offset, len)
      PROVE  Starts
  BY <1>t, <1>3 DEF OpenSucceeds, Finish, IInv, TypeOK
<1> HIDE DEF Starts
<1>4. Starts
  BY <1>1, <1>2, <1>3 DEF Command
<1> QED
  BY <1>4 DEF Starts

LEMMA CommandStreams ==
    ASSUME IInv, IInv', NEW s \in Shells, Command(s)
    PROVE  StreamInv(s)'
<1>1. xfer'[s] \in Transfers /\ MaxOffset \in Nat
  BY ConstantsAssumption DEF IInv, TypeOK
<1>2. /\ out'[s] = <<>> /\ xfer'[s].start \in 0..MaxOffset
      /\ xfer'[s].offset = xfer'[s].start /\ pc'[s] \in {"idle", "read"}
  BY CommandStarts
<1>3. Len(out'[s]) = 0 /\ Reached(s)' = xfer'[s].start
  BY <1>2 DEF Reached
<1>4. 0 * ChunkSize(xfer'[s].op) = 0 /\ xfer'[s].start \in Nat
  BY <1>1, ChunkSizes DEF Transfers
<1> QED
  BY <1>1, <1>2, <1>3, <1>4 DEF StreamInv, Taken, Aligned, Counted

LEMMA TransferStreams ==
    ASSUME IInv, NEW s \in Shells, StreamInv(s), Transfer(s)
    PROVE  StreamInv(s)'
<1>1. CASE Ends(s) /\ pc[s] # "idle"
  <2>1. pc'[s] = "idle" /\ UNCHANGED <<xfer, out>>
    BY <1>1 DEF Ends, Finish, IInv, TypeOK
  <2> QED
    BY <2>1, StreamKept DEF Taken
<1>2. ASSUME NEW n \in 0..Available(s), NEW got \in 0..n, ReadChunk(s, n, got)
      PROVE  StreamInv(s)'
  <2>1. /\ xfer'[s].op = xfer[s].op /\ xfer'[s].start = xfer[s].start
        /\ xfer'[s].offset = xfer[s].offset /\ out' = out /\ pc[s] # "idle"
    BY <1>2 DEF ReadChunk, IInv, TypeOK, Transfers
  <2> QED
    BY <1>2, <2>1, ReadTakes, StreamKept
<1>3. CASE /\ pc[s] = "record" /\ pc' = [pc EXCEPT ![s] = "print"]
           /\ UNCHANGED <<fileVars, xfer, out, heap, result>>
  BY <1>3, StreamKept DEF StreamInv, Taken, Requested
<1>4. CASE PrintChunk(s)
  BY <1>4, PrintStreams
<1> QED
  BY <1>1, <1>2, <1>3, <1>4, TransferCases

\* A step of one shell, or of none, does not touch the others.
LEMMA OtherShells ==
    ASSUME IInv, NEW s \in Shells, Command(s) \/ Transfer(s), NEW t \in Shells \ {s}
    PROVE  out'[t] = out[t] /\ xfer'[t] = xfer[t] /\ pc'[t] = pc[t]
<1>1. CASE Command(s)
  BY <1>1 DEF Command, OpenFails, OpenRejected, OpenSucceeds, Reset, Finish, IInv, TypeOK
<1>2. CASE Transfer(s)
  <2>1. Ends(s) => out'[t] = out[t] /\ xfer'[t] = xfer[t] /\ pc'[t] = pc[t]
    BY DEF Ends, Finish, IInv, TypeOK
  <2>2. PrintChunk(s) => out'[t] = out[t] /\ xfer'[t] = xfer[t] /\ pc'[t] = pc[t]
    BY DEF PrintChunk, Loop, Finish, IInv, TypeOK
  <2>3. ASSUME NEW n \in 0..Available(s), NEW got \in 0..n, ReadChunk(s, n, got)
        PROVE  out'[t] = out[t] /\ xfer'[t] = xfer[t] /\ pc'[t] = pc[t]
    BY <2>3 DEF ReadChunk, IInv, TypeOK
  <2> QED
    BY <1>2, <2>1, <2>2, <2>3, TransferCases DEF IInv, TypeOK
<1> QED
  BY <1>1, <1>2

LEMMA OtherParties == Others => UNCHANGED shellVars
BY DEF Others, ObjectChanges, Resized, WriteHex, Configure

LEMMA NextStreams ==
    ASSUME IInv, IInv', \A t \in Shells : StreamInv(t), [Next]_vars
    PROVE  \A t \in Shells : StreamInv(t)'
<1> SUFFICES ASSUME NEW t \in Shells PROVE StreamInv(t)'
  OBVIOUS
<1>1. CASE UNCHANGED shellVars
  BY <1>1, StreamUntouched DEF shellVars
<1>2. ASSUME NEW s \in Shells, Command(s) \/ Transfer(s) PROVE StreamInv(t)'
  <2>1. CASE t = s
    BY <1>2, <2>1, CommandStreams, TransferStreams
  <2>2. CASE t # s
    BY <1>2, <2>2, OtherShells, StreamUntouched
  <2> QED
    BY <2>1, <2>2
<1> QED
  BY <1>1, <1>2, OtherParties DEF Next, vars

LEMMA StreamInvariance == Spec => [](\A t \in Shells : StreamInv(t))
<1> DEFINE Inv == \A t \in Shells : StreamInv(t)
<1>1. Init => Inv
  <2> SUFFICES ASSUME Init, NEW s \in Shells PROVE StreamInv(s)
    OBVIOUS
  <2>1. PICK f \in Files : xfer = [t \in Shells |-> NoTransfer(f)]
    BY DEF Init
  <2>2. xfer[s] = NoTransfer(f) /\ out[s] = <<>> /\ pc[s] = "idle"
    BY <2>1 DEF Init
  <2>3. xfer[s] \in Transfers /\ xfer[s].start = 0 /\ xfer[s].offset = 0
    BY <2>2 DEF NoTransfer, Transfers, Ops
  <2> QED
    BY <2>2, <2>3, StreamStarts, ConstantsAssumption
<1>2. IInv /\ IInv' /\ Inv /\ [Next]_vars => Inv'
  BY NextStreams
<1> QED
  BY <1>1, <1>2, Invariance, PTL DEF Spec

\* The rows of a dump and the chunks of an export are aligned, and no command prints
\* without end, however the files grow and shrink meanwhile.
THEOREM RowsOfOutput == Spec => [](RowsAligned /\ OutputBounded)
<1>1. (\A t \in Shells : StreamInv(t)) => RowsAligned /\ OutputBounded
  BY DEF StreamInv, Aligned, RowsAligned, OutputBounded
<1> QED
  BY <1>1, StreamInvariance, PTL

-----------------------------------------------------------------------------
(* What is left of a transfer.                                             *)

\* A bound of the steps a command still has to take.
StepsLeft(s) ==
    IF pc[s] = "idle" THEN 0
    ELSE 3 * xfer[s].left + (IF pc[s] = "read" THEN 2 ELSE IF pc[s] = "record" THEN 1 ELSE 0)

\* Each step of a command takes it nearer to its end, and no step of another takes it
\* away from there.
Advances(s) ==
    /\ StepsLeft(s) \in Nat /\ (StepsLeft(s) = 0 <=> pc[s] = "idle")
    /\ Transfer(s) => StepsLeft(s)' < StepsLeft(s)
    /\ pc[s] # "idle" => StepsLeft(s)' <= StepsLeft(s)

Advance == \A s \in Shells : Advances(s)

LEMMA StepsCount ==
    ASSUME IInv, NEW s \in Shells
    PROVE  /\ xfer[s].left \in Nat /\ StepsLeft(s) \in Nat
           /\ StepsLeft(s) = 0 <=> pc[s] = "idle"
           /\ pc[s] # "idle" => xfer[s].left > 0
<1>1. xfer[s].left \in Nat /\ (pc[s] # "idle" => xfer[s].left > 0)
  BY DEF IInv, ShellInv, Running, TypeOK, Transfers
<1> QED
  BY <1>1 DEF StepsLeft

LEMMA TransferAdvancesCommand ==
    ASSUME IInv, NEW s \in Shells, StreamInv(s), Transfer(s)
    PROVE  StepsLeft(s)' < StepsLeft(s)
<1>1. pc[s] # "idle"
  BY DEF Transfer, ReadFails, ReadRefused, RecordMalformed, ReadChunk, CheckRecord, PrintChunk
<1>2. xfer[s].left \in Nat /\ xfer[s].left > 0 /\ StepsLeft(s) \in Nat /\ StepsLeft(s) # 0
  BY <1>1, StepsCount
<1>3. CASE Ends(s)
  <2>1. pc'[s] = "idle"
    BY <1>3 DEF Ends, Finish, IInv, TypeOK
  <2>2. StepsLeft(s)' = 0
    BY <2>1 DEF StepsLeft
  <2> QED
    BY <1>2, <2>2
<1>4. ASSUME NEW n \in 0..Available(s), NEW got \in 0..n, ReadChunk(s, n, got)
      PROVE  StepsLeft(s)' < StepsLeft(s)
  <2>1. pc[s] = "read" /\ pc'[s] \in {"record", "print"} /\ xfer'[s].left = xfer[s].left
    BY <1>4 DEF ReadChunk, IInv, TypeOK, Transfers
  <2> QED
    BY <1>2, <2>1 DEF StepsLeft
<1>5. CASE /\ pc[s] = "record" /\ pc' = [pc EXCEPT ![s] = "print"]
           /\ UNCHANGED <<fileVars, xfer, out, heap, result>>
  <2>1. pc'[s] = "print"
    BY <1>5 DEF IInv, TypeOK
  <2> QED
    BY <1>2, <1>5, <2>1 DEF StepsLeft
<1>6. CASE PrintChunk(s)
  <2>1. pc[s] = "print" /\ pc'[s] \in {"read", "idle"}
        /\ xfer'[s].left = xfer[s].left - xfer[s].got
    BY <1>6 DEF PrintChunk, Loop, Finish, IInv, TypeOK, Transfers
  <2>2. xfer[s].got \in Nat /\ xfer[s].got >= 1
    BY <2>1 DEF StreamInv, Taken, IInv, TypeOK, Transfers
  <2> QED
    BY <1>2, <2>1, <2>2 DEF StepsLeft
<1> QED
  BY <1>3, <1>4, <1>5, <1>6, TransferCases

LEMMA StepAdvances ==
    ASSUME IInv, IInv', [Next]_vars, NEW s \in Shells, StreamInv(s)
    PROVE  Advances(s)
<1>1. StepsLeft(s) \in Nat /\ (StepsLeft(s) = 0 <=> pc[s] = "idle") /\ StepsLeft(s)' \in Nat
  <2>1. xfer'[s].left \in Nat
    BY DEF IInv, TypeOK, Transfers
  <2>2. StepsLeft(s)' \in Nat
    BY <2>1 DEF StepsLeft
  <2> QED
    BY <2>2, StepsCount
<1>2. Transfer(s) => StepsLeft(s)' < StepsLeft(s)
  BY TransferAdvancesCommand
<1>3. ASSUME pc[s] # "idle" PROVE StepsLeft(s)' <= StepsLeft(s)
  <2>1. ~ Command(s)
    BY <1>3 DEF Command, OpenFails, OpenRejected, OpenSucceeds
  <2>2. CASE pc'[s] = pc[s] /\ xfer'[s] = xfer[s]
    BY <1>1, <2>2 DEF StepsLeft
  <2>3. CASE Transfer(s)
    BY <1>1, <1>2, <2>3
  <2> QED
    BY <2>1, <2>2, <2>3, OtherShells, OtherParties DEF Next, vars, shellVars
<1> QED
  BY <1>1, <1>2, <1>3 DEF Advances

\* A command in its loop ends after a number of its own steps that the bytes asked for
\* at its start bound, whatever the others do to the file between them.
THEOREM TransferProgress == Spec => [][Advance]_vars
<1>1. IInv /\ IInv' /\ (\A t \in Shells : StreamInv(t)) /\ [Next]_vars => Advance
  BY StepAdvances DEF Advance
<1> QED
  BY <1>1, Invariance, StreamInvariance, PTL DEF Spec

=============================================================================

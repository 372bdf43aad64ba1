------------------------------- MODULE Archive -------------------------------
(***************************************************************************)
(* The permanent history of a conversation on the device                   *)
(* (conversation-archive.ts).  The server appends batches of its history   *)
(* after an entry it names with its chain hash, and uploads files in       *)
(* chunks; a batch or a chunk may come late, twice, or from a server that  *)
(* was restored and went another way.  Every call is one transaction.  A   *)
(* chain hash is the history it stands for.                                *)
(***************************************************************************)
EXTENDS Naturals, Sequences, SequencesExt

CONSTANTS MaxEntries, MaxBytes, Files

VARIABLES histories, archive, told, reader, blob, written

vars == <<histories, archive, told, reader, blob, written>>

(* An entry: its record, and what it is a part of: nothing, or the first or second part of a version   *)
(* of an entity.  The other history leaves the first after some entries, keeps no order of parts, and     *)
(* repeats a record.                                                                                      *)
Kinds == {"plain", "first", "second"}
InOrder(h) == \A i \in DOMAIN h : h[i].part = "second" <=> i > 1 /\ h[i - 1].part = "first"
Parts == [1 .. MaxEntries -> Kinds]
History(parts) == [i \in DOMAIN parts |-> [rec |-> i, part |-> parts[i]]]
Fork(h, fork, parts) ==
  [i \in DOMAIN h |-> IF i <= fork THEN h[i]
                      ELSE [rec |-> IF parts[i] = "plain" THEN 1 ELSE MaxEntries + i, part |-> parts[i]]]
Histories ==
  UNION {{<<h, Fork(h, fork, parts)>> : fork \in 0 .. MaxEntries - 1, parts \in Parts} :
           h \in {x \in {History(parts) : parts \in Parts} : InOrder(x)}}

NoBlob == [file |-> 0, chunks |-> <<>>]
Init ==
  /\ histories \in Histories
  /\ archive = <<>> /\ told = {} /\ blob = NoBlob /\ written = {}
  /\ reader = [seen |-> <<>>, through |-> 0]

First(h, n) == SubSeq(h, 1, n)
Payload == Len(archive)
Reserved == IF blob.file = 0 THEN 0 ELSE 2

(* append: the anchor must be an entry of the archive with this hash; what is there already must be the  *)
(* same, what is new must follow and keep the parts of a version together; all of the batch or nothing.  *)
Accepts(h, after, n) ==
  /\ after <= Len(archive) /\ First(archive, after) = First(h, after)
  /\ \A i \in after + 1 .. n :
       IF i <= Len(archive) THEN archive[i] = h[i]
       ELSE /\ h[i].part = "second" <=> i > 1 /\ h[i - 1].part = "first"
            /\ \A j \in 1 .. i - 1 : h[j].rec # h[i].rec
  /\ n > Len(archive) => n + Reserved <= MaxBytes

AppendBatch(h, after, n) ==
  /\ after < n /\ Accepts(h, after, n)
  /\ archive' = archive \o SubSeq(h, Len(archive) + 1, n)
  /\ told' = told \cup {First(h, n)}
  /\ UNCHANGED <<histories, reader, blob, written>>

(* read: a page after the entry the reader names with its hash, up to where it has begun to read. *)
Opens ==
  /\ reader.through = 0 /\ archive # <<>> /\ reader' = [reader EXCEPT !.through = Len(archive)]
  /\ UNCHANGED <<histories, archive, told, blob, written>>
Reads ==
  LET at == Len(reader.seen)
  IN /\ at < reader.through /\ First(archive, at) = reader.seen
     /\ \E n \in at + 1 .. reader.through : reader' = [reader EXCEPT !.seen = @ \o SubSeq(archive, at + 1, n)]
     /\ UNCHANGED <<histories, archive, told, blob, written>>

(* writeBlob: the first chunk reserves the whole file; a chunk that is there must be the same, another   *)
(* must be the next; the last one must make the file that was announced.  All files    *)
(* begin with the same chunk; a sender may send any.                                                      *)
Chunk(f, k) == IF k = 1 THEN 1 ELSE f + 1
Whole(f) == <<Chunk(f, 1), Chunk(f, 2)>>
Complete == Len(blob.chunks) = 2
WriteBlob(f, k, data) ==
  /\ archive # <<>>
  /\ blob.file \in {0, f}
  /\ IF k <= Len(blob.chunks)
     THEN blob.chunks[k] = data /\ UNCHANGED blob
     ELSE /\ k = Len(blob.chunks) + 1
          /\ blob.file = 0 => Payload + 2 <= MaxBytes
          /\ k = 2 => blob.chunks \o <<data>> = Whole(f)
          /\ blob' = [file |-> f, chunks |-> Append(blob.chunks, data)]
  /\ written' = written \cup {<<f, k, data>>}
  /\ UNCHANGED <<histories, archive, told, reader>>

Next ==
  \/ \E w \in {1, 2}, after, n \in 0 .. MaxEntries : AppendBatch(histories[w], after, n)
  \/ Opens \/ Reads
  \/ \E f \in Files, k \in {1, 2} : \E data \in {Chunk(g, j) : g \in Files, j \in {1, 2}} : WriteBlob(f, k, data)
Spec == Init /\ [][Next]_vars

(* The archive is one server's history, never a mixture of two.  What was answered as committed, entry   *)
(* or chunk, is there and stays, and what was read in pages is one history, too.                          *)
OneHistory ==
  /\ \E w \in {1, 2} : IsPrefix(archive, histories[w])
  /\ \A p \in told : IsPrefix(p, archive)
  /\ IsPrefix(reader.seen, archive)

(* Only the newest version of an entity may miss a part: no other entry stands between two parts.        *)
PartsTogether == InOrder(archive) /\ \A i, j \in DOMAIN archive : i # j => archive[i].rec # archive[j].rec

(* A complete file is the one that was announced, of the chunks that were acknowledged; what is kept     *)
(* stays within what the owner allows, whatever is still to come.                                         *)
FileIsItself ==
  /\ Complete => blob.chunks = Whole(blob.file)
  /\ \A c \in written : c[1] = blob.file /\ blob.chunks[c[2]] = c[3]
  /\ Payload + Reserved <= MaxBytes
=============================================================================

----------------------------- MODULE BulkFiles -----------------------------
(***************************************************************************)
(* The bulk header files of Chaintracks: BulkFileDataManager.ts and the    *)
(* bulk_files table it keeps in step with its own list.  There is one      *)
(* chain, and every header has a work of 1: the header of height h has     *)
(* chain work h + 1, and a file is known by its heights.  A file from the  *)
(* CDN holds at most MaxPerFile headers; the headers the CDN does not have *)
(* yet are in one "incremental" file after them.  Files are merged one     *)
(* after the other under the manager's lock, with awaits in between; a     *)
(* merge changes the list at once, and then each row in an await of its    *)
(* own, which may fail and before which the process may die.               *)
(***************************************************************************)
EXTENDS HeightRange, Sequences, FiniteSets, SequencesExt, FiniteSetsExt

CONSTANTS
  MaxHeight,     \* bound: the heights of headers
  MaxPerFile,    \* maxPerFile
  MaxFaults      \* bound: reads, writes and downloads that fail

ASSUME BulkFilesAssumption ==
  MaxHeight \in Nat /\ MaxPerFile \in Nat \ {0} /\ MaxFaults \in Nat

VARIABLES
  bfds,        \* BulkFileDataManager.bfds
  rows,        \* the bulk_files table
  merging,     \* the files mergeNoLock has still to merge
  saving,      \* the rows that are still to be written for a change of bfds
  thrown,      \* mergeNoLock has thrown
  faults,
  exposed      \* history: the ways, named below, files have lost their order

fileVars == <<bfds, rows, merging, saving, thrown, faults, exposed>>

(* data: the heights of the headers in the file's data, whether that is in *)
(* memory or has to be read; id: fileId, 0 when undefined.                 *)
File == [kind : {"cdn", "incremental"}, first : 0..MaxHeight, count : 1..MaxHeight + 1,
         data : Seq(0..MaxHeight), id : Nat]

(* A write to the table; half: after another one for the same change.      *)
Write == [op : {"insert", "update", "delete"}, row : File, half : BOOLEAN]

Save(op, row, half) == [op |-> op, row |-> row, half |-> half]

(* Nothing is merged.                                                      *)
Settled == merging = <<>> /\ saving = <<>>

Exposures == {
  "kind",      \* an incremental file stands for the CDN file it equals
  "last",      \* the last file was updated in memory, not in storage
  "torn",      \* an incremental file counts headers its data has not
  "unsaved",   \* storage failed after the list had changed
  "stale",     \* a row was left older than the list, or than another row
  "known",     \* the built-in files replaced those in storage
  "live"}      \* CDN files reach into the live headers

End(f) == f.first + f.count
FileRange(f) == Between(f.first, End(f) - 1)
IsIncremental(f) == f.kind = "incremental"

(* The headers of a range, as they should be.                              *)
HeadersOf(r) == [i \in 1 .. Length(r) |-> r.min + i - 1]

NextHeight(files) == IF files = <<>> THEN 0 ELSE End(Last(files))

getHeightRange ==
  IF bfds = <<>> THEN Empty ELSE Between(Head(bfds).first, NextHeight(bfds) - 1)

(* getBfdForHeight: its index, 0 for none.                                 *)
FileAt(h) ==
  IF \E i \in DOMAIN bfds : h \in Heights(FileRange(bfds[i]))
    THEN Min({i \in DOMAIN bfds : h \in Heights(FileRange(bfds[i]))}) ELSE 0

(* selectBulkHeaderFiles, for headers 0..top-1.  The works of CDN files    *)
(* are right: `work' is the chain work a file says it ends with.           *)
CdnFiles(top) ==
  [i \in 1 .. (top + MaxPerFile - 1) \div MaxPerFile |->
     LET first == (i - 1) * MaxPerFile
         count == Lower(MaxPerFile, top - first) IN
     [kind |-> "cdn", first |-> first, count |-> count, work |-> first + count]]

(* The constructor adds the files known at build time, not yet in storage. *)
Known(top) ==
  [i \in DOMAIN CdnFiles(top) |->
     LET f == CdnFiles(top)[i] IN
     [kind |-> "cdn", first |-> f.first, count |-> f.count,
      data |-> HeadersOf(FileRange(f)), id |-> 0]]

(* An id that no row and no file in memory has.                            *)
NewId ==
  LET used == {r.id : r \in rows} \cup {f.id : f \in ToSet(bfds)} IN
  CHOOSE i \in 1 .. Cardinality(used) + 1 :
    i \notin used /\ \A j \in 1 .. i - 1 : j \in used

----------------------------------------------------------------------------
(* setStorageNoLock *)

Sorted(files) == SetToSortSeq(files, LAMBDA f, g : f.first < g.first)

Cdn(files) == SelectSeq(files, LAMBDA f : ~IsIncremental(f))
Incrementals(files) == SelectSeq(files, IsIncremental)

(* heightRangesFromBulkFiles throws when all files, those of the CDN or    *)
(* the incremental ones have a gap.                                        *)
HasGap(files) ==
  \E some \in {files, Cdn(files), Incrementals(files)} :
    \E i \in 2 .. Len(some) :
      \A j \in 1 .. i - 1 : End(some[j]) < some[i].first

CdnLength(files) ==
  Length(FoldSeq(LAMBDA f, r : Union(r, FileRange(f)), Empty, Cdn(files)))

(* Storage wins when it has as many CDN headers: its rows become the list. *)
LoadRows ==
  /\ ~HasGap(Sorted(rows)) /\ ~HasGap(bfds)
  /\ CdnLength(Sorted(rows)) >= CdnLength(bfds)
  /\ bfds' = Sorted(rows)
  /\ UNCHANGED <<rows, saving, faults, exposed>>

(* Otherwise all rows, the incremental file too, are replaced by the list: *)
(* deleted from the last to the first, then written, all one by one.       *)
ReplaceRows ==
  /\ ~HasGap(Sorted(rows)) /\ ~HasGap(bfds)
  /\ CdnLength(Sorted(rows)) < CdnLength(bfds)
  /\ LET gone == Reverse(Sorted(rows)) IN
     saving' = [i \in DOMAIN gone |-> Save("delete", gone[i], FALSE)]
               \o [i \in DOMAIN bfds |-> Save("insert", bfds[i], FALSE)]
  /\ exposed' = exposed \cup (IF rows = {} THEN {} ELSE {"known"})
  /\ UNCHANGED <<bfds, rows, faults>>

setStorageFails == HasGap(Sorted(rows)) \/ HasGap(bfds)

----------------------------------------------------------------------------
(* The next write to the table.  Only an insert tells the list the id; a   *)
(* query for an undefined fileId throws.                                   *)

Identified(w) == w.op = "insert" \/ w.row.id # 0

Perform(w) ==
  IF w.op = "insert"
    THEN /\ rows' = rows \cup {[w.row EXCEPT !.id = NewId]}
         /\ bfds' = [i \in DOMAIN bfds |->
                       IF bfds[i].first = w.row.first
                         THEN [bfds[i] EXCEPT !.id = NewId] ELSE bfds[i]]
    ELSE /\ rows' = {IF r.id = w.row.id THEN w.row ELSE r :
                      r \in {s \in rows : w.op = "update" \/ s.id # w.row.id}}
         /\ UNCHANGED bfds

save ==
  /\ saving # <<>> /\ Identified(Head(saving))
  /\ Perform(Head(saving))
  /\ saving' = Tail(saving)
  /\ UNCHANGED <<merging, thrown, faults, exposed>>

(* What a write that is not made leaves behind: the list does not know; a  *)
(* process that dies has no list any more.                                 *)
Unsaved(w) == {"unsaved"} \cup (IF w.op = "insert" THEN {} ELSE {"stale"})
Halved == IF saving # <<>> /\ Head(saving).half THEN {"stale"} ELSE {}

----------------------------------------------------------------------------
(* mergeNoLock: one action per branch, for the next file.                  *)

Hbf(f) == bfds[FileAt(f.first)]

Identical(f) ==
  /\ FileAt(f.first) # 0
  /\ Hbf(f).first = f.first /\ Hbf(f).count = f.count

Throw ==
  /\ merging' = <<>> /\ saving' = <<>> /\ thrown' = TRUE

Fault == faults < MaxFaults /\ faults' = faults + 1

unchanged(f) ==
  /\ Identical(f)
  /\ merging' = Tail(merging)
  /\ exposed' = exposed \cup (IF Hbf(f).kind = f.kind THEN {} ELSE {"kind"})
  /\ UNCHANGED <<bfds, rows, saving, thrown, faults>>

(* validateFileInfo: the work of the file's headers is added up.           *)
Valid(f) == f.work = End(f)

Merging(f) == merging' = Tail(merging) /\ UNCHANGED thrown

AsFile(f, id) ==
  [kind |-> f.kind, first |-> f.first, count |-> f.count,
   data |-> HeadersOf(FileRange(f)), id |-> id]

(* update *)
CanReplace(f) ==
  /\ ~IsIncremental(f)
  /\ Hbf(f).first = f.first
  /\ IsIncremental(Hbf(f)) \/ f.count > Hbf(f).count
  /\ \/ FileAt(f.first) = Len(bfds)
     \/ /\ FileAt(f.first) = Len(bfds) - 1
        /\ ~IsIncremental(Hbf(f)) /\ IsIncremental(Last(bfds))

(* validateBfdForAdd *)
CanAdd(f) == f.first = NextHeight(bfds)

Extends(f) ==
  IsIncremental(f) /\ bfds # <<>> /\ IsIncremental(Last(bfds))

invalid(f) ==
  /\ ~Identical(f)
  /\ \/ ~Valid(f)
     \/ FileAt(f.first) # 0 /\ ~CanReplace(f)
     \/ FileAt(f.first) = 0 /\ ~Extends(f) /\ ~CanAdd(f)
  /\ Throw
  /\ UNCHANGED <<bfds, rows, faults, exposed>>

(* The file's data has to be downloaded, twice if need be.                 *)
downloadFails(f) ==
  /\ ~Identical(f) /\ ~IsIncremental(f)
  /\ Fault /\ Throw
  /\ UNCHANGED <<bfds, rows, exposed>>

(* The headers of the incremental file t from height h on.                 *)
Truncated_Data(t, h, id) ==                  \* mutant: the wrong end is kept
  [t EXCEPT !.first = h, !.count = End(t) - h, !.id = id,
            !.data = SubSeq(@, 1, End(t) - h)]

Truncated(t, h, id) ==
  [t EXCEPT !.first = h, !.count = End(t) - h, !.id = id,
            !.data = SubSeq(@, h - t.first + 1, Len(@))]

(* A CDN file replaces the last file.  Its fileId is undefined, so the row *)
(* of the file it replaces stays as it is; what is left of an incremental  *)
(* file gets a new row.                                                    *)
replaceLast(f) ==
  /\ ~Identical(f) /\ Valid(f)
  /\ FileAt(f.first) # 0 /\ CanReplace(f) /\ FileAt(f.first) = Len(bfds)
  /\ LET last == Last(bfds)
         more == IF IsIncremental(last) /\ f.count < last.count
                   THEN <<Truncated(last, End(f), 0)>> ELSE <<>> IN
     /\ bfds' = Front(bfds) \o <<AsFile(f, 0)>> \o more
     /\ saving' = [i \in DOMAIN more |-> Save("insert", more[i], FALSE)]
  /\ Merging(f)
  /\ exposed' = exposed \cup {"last"}
  /\ UNCHANGED <<rows, faults>>

HandedOn_Not(f) == 0                         \* mutant: fileId stays undefined
HandedOn(f) == Hbf(f).id

(* The row of the file, unless its fileId is undefined, then that of the   *)
(* incremental file after it.                                              *)
SavesBefore_Swapped(new, last, more) ==      \* mutant: in the other order
  (IF more # <<>> THEN <<Save("update", Head(more), FALSE)>>
   ELSE IF last.id # 0 THEN <<Save("delete", last, FALSE)>> ELSE <<>>)
  \o (IF new.id = 0 THEN <<>> ELSE <<Save("update", new, TRUE)>>)

SavesBefore(new, last, more) ==
  (IF new.id = 0 THEN <<>> ELSE <<Save("update", new, FALSE)>>)
  \o (IF more # <<>> THEN <<Save("update", Head(more), new.id # 0)>>
      ELSE IF last.id # 0 THEN <<Save("delete", last, new.id # 0)>> ELSE <<>>)

(* A CDN file replaces the one before the incremental file, and takes from *)
(* the latter what both have.  Here the fileId is handed on.               *)
replaceBefore(f) ==
  /\ ~Identical(f) /\ Valid(f)
  /\ FileAt(f.first) # 0 /\ CanReplace(f) /\ FileAt(f.first) = Len(bfds) - 1
  /\ LET last == Last(bfds)
         new  == AsFile(f, HandedOn(f))
         more == IF End(f) >= End(last) THEN <<>>
                 ELSE <<Truncated(last, End(f), last.id)>> IN
     /\ bfds' = SubSeq(bfds, 1, Len(bfds) - 2) \o <<new>> \o more
     /\ saving' = SavesBefore(new, last, more)
  /\ Merging(f)
  /\ UNCHANGED <<rows, faults, exposed>>

(* mergeIncremental: the headers go to the end of the incremental file.    *)
(* Its count is changed first; reading its data may then fail.             *)
Longer(last, f, data) ==
  [last EXCEPT !.count = @ + f.count, !.data = data]

mergeIncremental(f) ==
  /\ Valid(f) /\ FileAt(f.first) = 0 /\ Extends(f)
  /\ LET new == Longer(Last(bfds), f, Last(bfds).data \o HeadersOf(FileRange(f))) IN
     /\ bfds' = Front(bfds) \o <<new>>
     /\ saving' = IF new.id = 0 THEN <<>> ELSE <<Save("update", new, FALSE)>>
  /\ Merging(f)
  /\ UNCHANGED <<rows, faults, exposed>>

mergeIncrementalFails(f) ==
  /\ Valid(f) /\ FileAt(f.first) = 0 /\ Extends(f) /\ Last(bfds).id # 0
  /\ Fault /\ Throw
  /\ bfds' = Front(bfds) \o <<Longer(Last(bfds), f, Last(bfds).data)>>
  /\ exposed' = exposed \cup {"torn"}
  /\ UNCHANGED rows

add(f) ==
  /\ Valid(f) /\ FileAt(f.first) = 0 /\ ~Extends(f) /\ CanAdd(f)
  /\ bfds' = Append(bfds, AsFile(f, 0))
  /\ saving' = <<Save("insert", AsFile(f, 0), FALSE)>>
  /\ Merging(f)
  /\ UNCHANGED <<rows, faults, exposed>>

(* The next write is not made, and what was to be merged is not.           *)
saveFails ==
  /\ saving # <<>>
  /\ IF Identified(Head(saving)) THEN Fault ELSE UNCHANGED faults
  /\ Throw
  /\ exposed' = exposed \cup Unsaved(Head(saving))
  /\ UNCHANGED <<bfds, rows>>

MergeNext ==
  /\ saving = <<>> /\ merging # <<>>
  /\ LET f == Head(merging) IN
     \/ unchanged(f) \/ invalid(f) \/ downloadFails(f)
     \/ replaceLast(f) \/ replaceBefore(f)
     \/ mergeIncremental(f) \/ mergeIncrementalFails(f)
     \/ add(f)

(* mergeIncrementalBlockHeaders: headers r, of a work of w together,       *)
(* become an incremental file after the last one.  Headers the files have  *)
(* are dropped, and w is lowered.                                          *)
NewHeaders(r) == Between(Higher(r.min, NextHeight(bfds)), r.max)

Follows(r) == bfds # <<>> /\ NewHeaders(r).min = NextHeight(bfds)

Incremental(r, w) ==
  LET new == NewHeaders(r) IN
  [kind |-> "incremental", first |-> new.min, count |-> Length(new),
   work |-> NextHeight(bfds) + w - (Length(r) - Length(new))]

----------------------------------------------------------------------------
(* BulkFilesReader.read, for a range in one go: from the file of the first *)
(* height on, what each file has of the range; nothing at all unless that  *)
(* makes as many headers as were asked for.                                *)
ReadFile(f, r) ==
  LET in == Intersect(FileRange(f), r) IN
  SubSeq(f.data, in.min - f.first + 1, Lower(in.max - f.first + 1, Len(f.data)))

Read(r) ==
  LET from == FileAt(r.min)
      some == IF from = 0 THEN <<>>
              ELSE SelectSeq(SubSeq(bfds, from, Len(bfds)),
                             LAMBDA f : ~IsEmpty(Intersect(FileRange(f), r)))
      read == FlattenSeq([i \in DOMAIN some |-> ReadFile(some[i], r)]) IN
  IF Len(read) = Length(r) THEN read ELSE <<>>
=============================================================================

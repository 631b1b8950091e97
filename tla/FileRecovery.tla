---------------------------- MODULE FileRecovery ----------------------------
(***************************************************************************)
(* A DataSeries file that was not written to its end or was damaged since,  *)
(* and what is read from it: by dsrecover (src/process/dsrecover.cpp), which *)
(* reads from front to end and goes on after an error, and by a program that *)
(* reads what the index says (TypeIndexModule, in ds2txt, dsselect and       *)
(* dsrepack) and aborts at one.  Both read through DataSeriesSource and      *)
(* Extent::preadExtent, and have set the checks of what they read.           *)
(*                                                                          *)
(* A file is a row of pieces: 0 is the header with the extent of the types,  *)
(* 1..NExtents are extents, then come the index and the tail.  Its unit is a *)
(* word.  The first word of an extent stands for the fields of its prefix    *)
(* that give its length; what a damaged one says, and what is read from the  *)
(* middle of an extent, can be any length.  The checksums are taken to tell  *)
(* every damaged word.                                                       *)
(***************************************************************************)
EXTENDS Integers, Sequences, FiniteSets

CONSTANTS
  NExtents,
  StartAt,          \* the word at which each piece starts; and the end of the file
  PrefixSize,       \* words of the prefix of an extent, and of the tail
  fail_limit,
  MaxDamaged        \* bound: damaged words

Extents == 1..NExtents
IndexExtent == NExtents + 1
FileTail == NExtents + 2
Pieces == 0..FileTail

ASSUME FileAssumption ==
  /\ NExtents \in Nat /\ PrefixSize \in Nat \ {0}
  /\ fail_limit \in Nat /\ MaxDamaged \in Nat
  /\ StartAt \in [0..(FileTail + 1) -> Nat] /\ StartAt[0] = 0
  /\ \A p, q \in 0..(FileTail + 1) : p < q => StartAt[p] < StartAt[q]
  /\ \A p \in Extents \cup {IndexExtent, FileTail} : StartAt[p] + PrefixSize <= StartAt[p + 1]
  /\ StartAt[FileTail] + PrefixSize = StartAt[FileTail + 1]

VARIABLES
  program,          \* what is done with the file
  size,             \* words of it
  damaged,          \* those that are not what was written
  cur_offset,       \* where the next extent is read
  fails,            \* consecutive failures
  recovered         \* the extents that were read, in order

fileVars == <<size, damaged>>
vars == <<program, fileVars, cur_offset, fails, recovered>>

Words(p)  == StartAt[p] .. (StartAt[p + 1] - 1)
Whole(p)  == StartAt[p + 1] <= size
Intact(p) == Whole(p) /\ Words(p) \cap damaged = {}

\* Definitions with a suffix are mutants of the one that follows (README.md,
\* "Mutants").
----------------------------------------------------------------------------
Init ==
  /\ program = "writing"
  /\ size = 0 /\ damaged = {}
  /\ cur_offset = 0 /\ fails = 0 /\ recovered = << >>

\* The sink writes piece after piece.
Write(p) ==
  /\ program = "writing" /\ size = StartAt[p]
  /\ size' = StartAt[p + 1]
  /\ program' = IF p = FileTail THEN "stopped" ELSE "writing"
  /\ UNCHANGED <<damaged, cur_offset, fails, recovered>>

\* A write that fails or is short aborts the program.  When it is the system that
\* fails, the end of what was written may be lost as well: nothing is synced
\* before the tail.
Crash(p) ==
  /\ program = "writing" /\ size = StartAt[p]
  /\ \E s \in 0..(StartAt[p + 1] - 1) : size' = s
  /\ program' = "stopped"
  /\ UNCHANGED <<damaged, cur_offset, fails, recovered>>

Damage ==
  /\ program = "stopped" /\ Cardinality(damaged) < MaxDamaged
  /\ \E w \in 0..(size - 1) : damaged' = damaged \cup {w}
  /\ UNCHANGED <<program, size, cur_offset, fails, recovered>>

----------------------------------------------------------------------------
\* DataSeriesSource::reopenfile: checkHeader and readTypeExtent, and readTailIndex
\* unless it is dsrecover.

TailFound == Intact(FileTail) /\ Intact(IndexExtent)

Opened(as) ==
  /\ program = "stopped"
  /\ program' = as
  /\ cur_offset' = StartAt[1]
  /\ UNCHANGED <<fileVars, fails, recovered>>

Recover == Intact(0) /\ Opened("recovering")

Read == Intact(0) /\ TailFound /\ Opened("reading")

Refused ==
  /\ program = "stopped"
  /\ ~Intact(0) \/ ~TailFound
  /\ program' = "refused"
  /\ UNCHANGED <<fileVars, cur_offset, fails, recovered>>

----------------------------------------------------------------------------
\* dsrecover: one round of the loop of main, with readExtent

Ended(as) ==
  /\ program' = as
  /\ UNCHANGED <<cur_offset, fails, recovered>>

FailsAfterFailure_kept == fails

FailsAfterFailure == fails + 1

\* An exception; next is where preadExtent has left the offset.
Failed(next) ==
  /\ cur_offset' = next
  /\ UNCHANGED recovered
  /\ fails' = FailsAfterFailure
  /\ program' = IF fails' > fail_limit THEN "ended_recovering" ELSE program

FailsAfterSuccess_kept == fails

FailsAfterSuccess == 0

Got(p) ==
  /\ cur_offset' = StartAt[p + 1]
  /\ recovered' = IF p \in Extents THEN Append(recovered, p) ELSE recovered
  /\ fails' = FailsAfterSuccess
  /\ UNCHANGED program

\* The file ends here, or so early that the prefix cannot be read.
ReadEof == cur_offset >= size /\ Ended("ended_recovering")

AfterShort == cur_offset

ReadShort ==
  /\ cur_offset < size /\ size < cur_offset + PrefixSize
  /\ Failed(AfterShort)

\* An extent (or the tail) starts here and says its length.
Known(p) ==
  /\ cur_offset = StartAt[p] /\ cur_offset + PrefixSize <= size
  /\ StartAt[p] \notin damaged

Passes_prefix_only(p) ==
  (StartAt[p] .. (StartAt[p] + PrefixSize - 1)) \cap damaged = {}

Passes(p) == Words(p) \cap damaged = {}

ReadKnown(p) ==
  /\ p \in Extents \cup {IndexExtent} /\ Known(p)
  /\ \/ Whole(p) /\ Passes(p) /\ Got(p)
     \/ Whole(p) /\ ~Passes(p) /\ Failed(StartAt[p + 1])
     \/ ~Whole(p) /\ Failed(cur_offset + PrefixSize)

ReadTail ==
  /\ Known(FileTail)
  /\ \/ Passes(FileTail) /\ Ended("ended_recovering")
     \/ ~Passes(FileTail) /\ Failed(cur_offset + PrefixSize)

\* The length is damaged, or this is not where an extent starts: too large, beyond
\* the end of the file (the prefix is then skipped), or any other.
ReadJunk ==
  /\ cur_offset + PrefixSize <= size
  /\ \A p \in Pieces \ {0} : ~Known(p)
  /\ \E next \in (cur_offset + PrefixSize) .. size : Failed(next)

readExtent ==
  /\ program = "recovering"
  /\ ReadEof \/ ReadShort \/ (\E p \in Extents \cup {IndexExtent} : ReadKnown(p))
       \/ ReadTail \/ ReadJunk
  /\ UNCHANGED fileVars

----------------------------------------------------------------------------
\* The other programs: lockedGetCompressedExtent for the entry of the index that
\* is next, and what unpacks the extent.

ReadEntry(p) ==
  /\ program = "reading" /\ cur_offset = StartAt[p]
  /\ \/ Passes(p) /\ Got(p)
     \/ ~Passes(p) /\ Ended("aborted")
  /\ UNCHANGED fileVars

ReadIndexEnd ==
  /\ program = "reading" /\ cur_offset = StartAt[IndexExtent]
  /\ Ended("ended_reading")
  /\ UNCHANGED fileVars

ReadIndex == ReadIndexEnd \/ \E p \in Extents : ReadEntry(p)

----------------------------------------------------------------------------
Next ==
  \/ \E p \in Pieces : Write(p) \/ Crash(p)
  \/ Damage
  \/ Recover \/ Read \/ Refused
  \/ readExtent \/ ReadIndex

Spec == Init /\ [][Next]_vars

\* A program that reads goes on reading.
FairSpec == Spec /\ WF_vars(readExtent) /\ WF_vars(ReadIndex)

----------------------------------------------------------------------------
\* Properties

TypeOK ==
  /\ program \in {"writing", "stopped", "refused", "recovering", "reading",
                  "ended_recovering", "ended_reading", "aborted"}
  /\ size \in Nat /\ damaged \subseteq 0..(size - 1)
  /\ cur_offset \in 0..size /\ fails \in Nat
  /\ recovered \in Seq(Extents)

\* Whatever is read, also from the middle of an extent after a damaged length, no
\* extent comes out of order or twice, none that is not whole or was damaged.
NothingInvented ==
  /\ \A i, j \in 1..Len(recovered) : i < j => recovered[i] < recovered[j]
  /\ \A i \in 1..Len(recovered) : Intact(recovered[i])

Has(e) == \E i \in 1..Len(recovered) : recovered[i] = e

Excused(e) ==
  \/ Has(e)
  \/ \E d \in 1..(e - 1) : StartAt[d] \in damaged
  \/ \E d \in 1..(e - 1 - fail_limit) : \A i \in d..(d + fail_limit) : ~Intact(i)

\* A program that reads to the end without an error has read everything.  dsrecover
\* "attempts to read as much of a dataseries file as possible" (dsrecover.cpp:23):
\* what is whole is lost only after a damaged length, or after more than fail_limit
\* damaged extents in a row; so nothing that is whole is lost when the writer just
\* stopped.  The offset stays inside the file.
NothingLost ==
  /\ TypeOK
  /\ program = "ended_reading" => recovered = [i \in Extents |-> i]
  /\ program = "ended_recovering" => \A e \in Extents : Intact(e) => Excused(e)

\* Reading ends, whatever the lengths say and wherever the file breaks off.
ReadingEnds ==
  program \in {"recovering", "reading"} ~> program \notin {"recovering", "reading"}
=============================================================================

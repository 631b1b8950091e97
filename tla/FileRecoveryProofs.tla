------------------------- MODULE FileRecoveryProofs -------------------------
(***************************************************************************)
(* Proofs about FileRecovery for any number and lengths of extents, any     *)
(* limit of failures and any number of damaged words.                       *)
(***************************************************************************)
EXTENDS FileRecovery, TLAPS

----------------------------------------------------------------------------
\* The inductive invariant

\* Before anything is read.
FreshInv ==
  /\ program \in {"writing", "stopped"} =>
       cur_offset = 0 /\ fails = 0 /\ recovered = << >>
  /\ program = "writing" => damaged = {}

\* What was recovered lies before the place that is read next.
BehindInv == \A i \in 1..Len(recovered) : StartAt[recovered[i] + 1] <= cur_offset

\* dsrecover has reached the start of p with nothing lost so far, the last pieces
\* being those that have failed.
AtPiece(p) ==
  /\ cur_offset = StartAt[p]
  /\ \A e \in Extents : e < p /\ Intact(e) => Has(e)
  /\ fails < p
  /\ \A i \in (p - fails)..(p - 1) : ~Intact(i)

AllExcused == \A e \in Extents : Intact(e) => Excused(e)

\* Once all is excused it does not matter where dsrecover reads.
RecoverInv ==
  /\ program = "recovering" =>
       AllExcused \/ (fails <= fail_limit /\ \E p \in 1..FileTail : AtPiece(p))
  /\ program = "ended_recovering" => AllExcused

Before(p) == IF p <= NExtents THEN p - 1 ELSE NExtents

ReadAll(p) ==
  /\ cur_offset = StartAt[p]
  /\ recovered = [i \in 1..Before(p) |-> i]

\* The programs that read the index have everything up to where they are, in a file
\* with a tail.
ReaderInv ==
  /\ program = "reading" => Whole(FileTail) /\ \E p \in 1..IndexExtent : ReadAll(p)
  /\ program = "ended_reading" => recovered = [i \in Extents |-> i]

IInv == TypeOK /\ NothingInvented /\ FreshInv /\ BehindInv /\ RecoverInv /\ ReaderInv

----------------------------------------------------------------------------
\* The pieces of a file follow each other

LEMMA PieceOrder ==
  ASSUME NEW p \in 0..(FileTail + 1), NEW q \in 0..(FileTail + 1)
  PROVE  /\ StartAt[p] \in Nat
         /\ p < q => StartAt[p] < StartAt[q]
         /\ StartAt[p] <= StartAt[q] => p <= q
BY FileAssumption DEF FileTail

LEMMA SamePiece ==
  \A p, q \in 1..FileTail : StartAt[p] = StartAt[q] => p = q
<1> SUFFICES ASSUME NEW p \in 1..FileTail, NEW q \in 1..FileTail, StartAt[p] = StartAt[q]
             PROVE  p = q
  OBVIOUS
<1>1. FileTail \in Nat /\ p \in 0..(FileTail + 1) /\ q \in 0..(FileTail + 1)
  BY FileAssumption DEF FileTail
<1> QED
  BY <1>1, PieceOrder

LEMMA PrefixInPiece ==
  ASSUME NEW p \in 1..FileTail
  PROVE  /\ StartAt[p] + PrefixSize <= StartAt[p + 1]
         /\ p = FileTail \/ p \in Extents \cup {IndexExtent}
         /\ StartAt[p] \in Words(p)
<1>1. p \in Extents \cup {IndexExtent, FileTail}
  BY FileAssumption DEF FileTail, Extents, IndexExtent
<1>2. StartAt[p] \in Nat /\ StartAt[p + 1] \in Nat /\ PrefixSize \in Nat \ {0}
  BY <1>1, FileAssumption DEF FileTail, Extents, IndexExtent
<1>3. StartAt[p] + PrefixSize <= StartAt[p + 1]
  BY <1>1, FileAssumption
<1> QED
  BY <1>1, <1>2, <1>3 DEF Words

\* The consequences of being at a piece: what dsrecover leaves behind when it
\* cannot go on from there is excused.
LEMMA ExcusedAtBreak ==
  ASSUME TypeOK, NEW p \in 1..FileTail, AtPiece(p),
         ~Whole(p) \/ StartAt[p] \in damaged \/ p = FileTail
  PROVE  AllExcused
<1> SUFFICES ASSUME NEW e \in Extents, Intact(e) PROVE Excused(e)
  BY DEF AllExcused
<1>1. CASE e < p
  BY <1>1 DEF AtPiece, Excused
<1>2. CASE e >= p
  <2>1. e \in Nat /\ p \in Nat /\ p # FileTail
    BY <1>2, FileAssumption DEF Extents, FileTail
  <2>2. Whole(p)
    <3>1. p + 1 \in 0..(FileTail + 1) /\ e + 1 \in 0..(FileTail + 1)
      BY FileAssumption DEF Extents, FileTail
    <3>2. p + 1 = e + 1 \/ p + 1 < e + 1
      BY <1>2, <2>1
    <3>3. StartAt[p + 1] <= StartAt[e + 1]
      BY <3>1, <3>2, PieceOrder
    <3> QED
      BY <3>1, <3>3, PieceOrder DEF TypeOK, Intact, Whole
  <2>3. StartAt[p] \in damaged
    BY <2>1, <2>2
  <2>4. p # e
    BY <2>3, PrefixInPiece DEF Intact
  <2>5. p \in 1..(e - 1)
    BY <1>2, <2>1, <2>4
  <2> QED
    BY <2>3, <2>5 DEF Excused
<1> QED
  BY <1>1, <1>2, FileAssumption DEF Extents, FileTail

----------------------------------------------------------------------------
\* Before and while the file is opened

LEMMA Initially == Init => IInv
<1> SUFFICES ASSUME Init PROVE IInv
  OBVIOUS
<1>1. TypeOK /\ FreshInv /\ recovered = << >> /\ Len(recovered) = 0
  BY DEF Init, TypeOK, FreshInv
<1>2. NothingInvented /\ BehindInv
  BY <1>1 DEF NothingInvented, BehindInv
<1>3. RecoverInv /\ ReaderInv
  BY DEF Init, RecoverInv, ReaderInv
<1> QED
  BY <1>1, <1>2, <1>3 DEF IInv

\* As long as nothing is read there is nothing to be wrong about it.
LEMMA NothingRead ==
  ASSUME TypeOK', FreshInv', recovered' = << >>,
         program' \in {"writing", "stopped", "refused"}
  PROVE  IInv'
<1>1. Len(recovered') = 0
  OBVIOUS
<1>2. NothingInvented' /\ BehindInv'
  BY <1>1 DEF NothingInvented, BehindInv
<1>3. RecoverInv' /\ ReaderInv'
  BY DEF RecoverInv, ReaderInv
<1> QED
  BY <1>2, <1>3 DEF IInv

LEMMA WriteKeeps ==
  ASSUME IInv, NEW p \in Pieces, Write(p) \/ Crash(p)
  PROVE  IInv'
<1>1. p \in 0..(FileTail + 1) /\ p + 1 \in 0..(FileTail + 1)
  BY FileAssumption DEF Pieces, FileTail
<1>2. StartAt[p] \in Nat /\ StartAt[p + 1] \in Nat /\ StartAt[p] < StartAt[p + 1]
  BY <1>1, PieceOrder
<1>3. /\ damaged = {} /\ recovered = << >> /\ cur_offset = 0 /\ fails = 0
      /\ UNCHANGED <<damaged, cur_offset, fails, recovered>>
  BY DEF IInv, FreshInv, Write, Crash
<1>4. size' \in Nat /\ program' \in {"writing", "stopped"}
  BY <1>2 DEF Write, Crash
<1>5. TypeOK' /\ FreshInv'
  BY <1>3, <1>4 DEF TypeOK, FreshInv, IInv
<1> QED
  BY <1>3, <1>4, <1>5, NothingRead

LEMMA DamageKeeps ==
  ASSUME IInv, Damage
  PROVE  IInv'
<1>1. TypeOK'
  BY DEF IInv, TypeOK, Damage
<1>2. FreshInv' /\ recovered' = << >> /\ program' = "stopped"
  BY DEF IInv, FreshInv, Damage
<1> QED
  BY <1>1, <1>2, NothingRead

LEMMA OpenKeeps ==
  ASSUME IInv, Recover \/ Read \/ Refused
  PROVE  IInv'
<1>1. /\ program = "stopped" /\ recovered = << >> /\ fails = 0
      /\ UNCHANGED <<fileVars, fails, recovered>>
  BY DEF IInv, FreshInv, Recover, Read, Refused, Opened
<1>2. CASE Refused
  <2>1. TypeOK' /\ FreshInv' /\ program' = "refused"
    BY <1>1, <1>2 DEF IInv, TypeOK, FreshInv, Refused, fileVars
  <2> QED
    BY <1>1, <2>1, NothingRead
<1>3. CASE Recover \/ Read
  <2>1. Len(recovered') = 0 /\ recovered' = << >>
    BY <1>1
  <2>2. cur_offset' = StartAt[1] /\ StartAt[1] \in Nat /\ StartAt[1] <= size
    <3>1. 1 \in 0..(FileTail + 1)
      BY FileAssumption DEF FileTail
    <3> QED
      BY <1>3, <3>1, PieceOrder DEF Recover, Read, Opened, Intact, Whole
  <2>3. program' \in {"recovering", "reading"}
    BY <1>3 DEF Recover, Read, Opened
  <2>4. TypeOK' /\ FreshInv'
    BY <1>1, <2>1, <2>2, <2>3 DEF IInv, TypeOK, FreshInv, fileVars
  <2>5. NothingInvented' /\ BehindInv'
    BY <2>1 DEF NothingInvented, BehindInv
  <2>6. 1 \in 1..FileTail /\ 1 \in 1..IndexExtent
    BY FileAssumption DEF FileTail, IndexExtent
  <2>7. AtPiece(1)'
    BY <1>1, <2>2 DEF AtPiece, Extents
  <2>8. RecoverInv'
    BY <1>1, <2>3, <2>6, <2>7, FileAssumption DEF RecoverInv
  <2>9. Read => ReadAll(1)'
    <3>1. Before(1) = 0
      BY FileAssumption DEF Before
    <3>2. [i \in 1..Before(1) |-> i] = << >>
      BY <3>1
    <3> QED
      BY <2>1, <2>2, <3>2 DEF ReadAll, Before
  <2>10. Read => Whole(FileTail)'
    BY <1>1 DEF Read, TailFound, Intact, Whole, fileVars
  <2>11. ReaderInv'
    BY <1>3, <2>3, <2>6, <2>9, <2>10 DEF ReaderInv, Recover, Opened
  <2> QED
    BY <2>4, <2>5, <2>8, <2>11 DEF IInv
<1> QED
  BY <1>2, <1>3

----------------------------------------------------------------------------
\* One round of reading

LEMMA ExcusedStays ==
  ASSUME TypeOK, UNCHANGED fileVars, AllExcused,
         \/ recovered' = recovered
         \/ \E p \in Extents : recovered' = Append(recovered, p)
  PROVE  AllExcused'
<1>1. Len(recovered) \in Nat /\ Len(recovered') \in Nat
      /\ Len(recovered) <= Len(recovered')
      /\ \A i \in 1..Len(recovered) : recovered'[i] = recovered[i]
  BY DEF TypeOK
<1>2. \A e : Has(e) => Has(e)'
  BY <1>1 DEF Has
<1>3. \A e : Intact(e)' <=> Intact(e)
  BY DEF Intact, Whole, Words, fileVars
<1> QED
  BY <1>2, <1>3 DEF AllExcused, Excused, fileVars

\* Ending with all that was left behind excused, or with everything, or by abort.
LEMMA EndedKeeps ==
  ASSUME IInv, UNCHANGED fileVars,
         NEW as \in {"ended_recovering", "ended_reading", "aborted"}, Ended(as),
         as = "ended_recovering" => AllExcused,
         as = "ended_reading" => recovered = [i \in Extents |-> i]
  PROVE  IInv'
<1>1. TypeOK' /\ FreshInv'
  BY DEF IInv, TypeOK, FreshInv, Ended, fileVars
<1>2. NothingInvented' /\ BehindInv'
  BY DEF IInv, NothingInvented, BehindInv, Ended, Intact, Whole, Words, fileVars
<1>3. as = "ended_recovering" => AllExcused'
  BY ExcusedStays DEF IInv, Ended
<1>4. RecoverInv' /\ ReaderInv'
  BY <1>3 DEF RecoverInv, ReaderInv, Ended
<1> QED
  BY <1>1, <1>2, <1>4 DEF IInv

\* The run of failures that makes dsrecover give up at p.
LEMMA RunExcused ==
  ASSUME TypeOK, NEW p \in Extents \cup {IndexExtent}, AtPiece(p), ~Intact(p),
         fails = fail_limit
  PROVE  AllExcused
<1> SUFFICES ASSUME NEW e \in Extents, Intact(e) PROVE Excused(e)
  BY DEF AllExcused
<1>1. p \in Nat /\ e \in Nat /\ fail_limit \in Nat /\ e # p
  BY FileAssumption DEF Extents, IndexExtent
<1>2. CASE e < p
  BY <1>2 DEF AtPiece, Excused
<1>3. CASE p < e
  <2>1. p - fail_limit \in 1..(e - 1 - fail_limit)
    BY <1>1, <1>3 DEF AtPiece
  <2>2. \A i \in (p - fail_limit)..p : ~Intact(i)
    BY <1>1 DEF AtPiece
  <2>3. (p - fail_limit) + fail_limit = p
    BY <1>1
  <2> QED
    BY <2>1, <2>2, <2>3 DEF Excused
<1> QED
  BY <1>1, <1>2, <1>3

LEMMA FailedKeeps ==
  ASSUME IInv, program = "recovering", UNCHANGED fileVars,
         NEW next \in cur_offset..size, Failed(next),
         \/ AllExcused
         \/ \E p \in Extents \cup {IndexExtent} :
              /\ AtPiece(p) /\ fails <= fail_limit
              /\ ~Intact(p) /\ next = StartAt[p + 1]
  PROVE  IInv'
<1>1. /\ cur_offset \in Nat /\ size \in Nat /\ next \in Nat
      /\ cur_offset' = next /\ recovered' = recovered
  BY DEF IInv, TypeOK, Failed
<1>2. TypeOK' /\ FreshInv'
  BY <1>1 DEF IInv, TypeOK, FreshInv, Failed, FailsAfterFailure, fileVars
<1>3. NothingInvented'
  BY <1>1 DEF IInv, NothingInvented, Intact, Whole, Words, fileVars
<1>4. BehindInv'
  <2> SUFFICES ASSUME NEW i \in 1..Len(recovered)
               PROVE  StartAt[recovered[i] + 1] <= next
    BY <1>1 DEF BehindInv
  <2>1. recovered[i] + 1 \in 0..(FileTail + 1)
    <3>1. recovered[i] \in Extents
      BY DEF IInv, TypeOK
    <3>2. NExtents \in Nat
      BY FileAssumption
    <3> QED
      BY <3>1, <3>2 DEF Extents, FileTail
  <2>2. StartAt[recovered[i] + 1] \in Nat /\ StartAt[recovered[i] + 1] <= cur_offset
    BY <2>1, PieceOrder DEF IInv, BehindInv
  <2> QED
    BY <1>1, <2>2
<1>5. RecoverInv'
  <2>2. CASE AllExcused
    <3>1. AllExcused'
      BY <1>1, <2>2, ExcusedStays DEF IInv
    <3> QED
      BY <3>1 DEF RecoverInv
  <2>3. CASE ~AllExcused
    <3>1. PICK p \in Extents \cup {IndexExtent} :
            /\ AtPiece(p) /\ fails <= fail_limit
            /\ ~Intact(p) /\ next = StartAt[p + 1]
      BY <2>3
    <3>2. p \in Nat /\ p + 1 \in 1..FileTail /\ fails \in Nat /\ fail_limit \in Nat
      BY FileAssumption DEF Extents, IndexExtent, FileTail, IInv, TypeOK
    <3>3. fails # fail_limit
      BY <2>3, <3>1, RunExcused DEF IInv
    <3>4. fails' = fails + 1 /\ fails' <= fail_limit /\ program' = "recovering"
      BY <2>3, <3>1, <3>2, <3>3 DEF Failed, FailsAfterFailure
    <3>5. AtPiece(p + 1)'
      <4>1. \A i : Intact(i)' <=> Intact(i)
        BY DEF Intact, Whole, Words, fileVars
      <4>2. \A e \in Extents : e < p + 1 /\ Intact(e) => Has(e)'
        <5> SUFFICES ASSUME NEW e \in Extents, e < p + 1, Intact(e) PROVE Has(e)
          BY <1>1 DEF Has
        <5>1. e \in Nat /\ e # p
          BY <3>1, FileAssumption DEF Extents
        <5> QED
          BY <3>1, <3>2, <5>1 DEF AtPiece
      <4>3. fails + 1 < p + 1
        BY <3>1, <3>2 DEF AtPiece
      <4>4. \A i \in ((p + 1) - (fails + 1))..((p + 1) - 1) : ~Intact(i)
        BY <3>1, <3>2 DEF AtPiece
      <4> QED
        BY <1>1, <3>1, <3>4, <4>1, <4>2, <4>3, <4>4 DEF AtPiece
    <3> QED
      BY <3>2, <3>4, <3>5 DEF RecoverInv
  <2> QED
    BY <2>2, <2>3
<1>6. ReaderInv'
  BY DEF ReaderInv, Failed
<1> QED
  BY <1>2, <1>3, <1>4, <1>5, <1>6 DEF IInv

\* An extent that is read: p is the piece that starts here.
LEMMA GotKeeps ==
  ASSUME IInv, UNCHANGED fileVars, program = "recovering" \/ program = "reading",
         NEW p \in Extents \cup {IndexExtent}, program = "reading" => p \in Extents,
         cur_offset = StartAt[p], Whole(p), Passes(p), Got(p)
  PROVE  IInv'
<1>1. /\ p \in Nat /\ p \in 1..FileTail /\ p + 1 \in 1..FileTail /\ p # FileTail
      /\ fail_limit \in Nat /\ NExtents \in Nat
  BY FileAssumption DEF Extents, IndexExtent, FileTail
<1>2. StartAt[p] \in Nat /\ StartAt[p + 1] \in Nat /\ StartAt[p] < StartAt[p + 1]
  BY <1>1, PieceOrder DEF FileTail
<1>3. cur_offset = StartAt[p] /\ cur_offset' = StartAt[p + 1] /\ StartAt[p + 1] <= size
  BY DEF Got, Whole
<1>4. fails' = 0 /\ program' = program
  BY DEF Got, FailsAfterSuccess
<1>5. TypeOK' /\ FreshInv'
  BY <1>2, <1>3, <1>4 DEF IInv, TypeOK, FreshInv, Got, fileVars
<1>6. \A e : Intact(e)' <=> Intact(e)
  BY DEF Intact, Whole, Words, fileVars
<1>7. \A q \in 1..FileTail : StartAt[q] = StartAt[p] => q = p
  BY <1>1, PieceOrder DEF FileTail
<1>8. \A i \in 1..Len(recovered) : recovered[i] \in Extents /\ recovered[i] < p
  <2> SUFFICES ASSUME NEW i \in 1..Len(recovered)
               PROVE  recovered[i] \in Extents /\ recovered[i] < p
    OBVIOUS
  <2>1. recovered[i] \in Extents
    BY DEF IInv, TypeOK
  <2>2. recovered[i] \in Nat /\ recovered[i] + 1 \in 0..(FileTail + 1)
    BY <1>1, <2>1 DEF Extents, FileTail
  <2>3. StartAt[recovered[i] + 1] <= StartAt[p]
    BY <1>3 DEF IInv, BehindInv
  <2>4. recovered[i] + 1 <= p
    BY <1>1, <2>2, <2>3, PieceOrder DEF FileTail
  <2> QED
    BY <1>1, <2>1, <2>2, <2>4
<1>9. Len(recovered) \in Nat /\ recovered \in Seq(Extents)
  BY DEF IInv, TypeOK
<1>10. CASE p = IndexExtent
  <2>1. recovered' = recovered
    BY <1>1, <1>10 DEF Got, Extents, IndexExtent
  <2>2. NothingInvented'
    BY <1>6, <2>1 DEF IInv, NothingInvented
  <2>3. BehindInv'
    <3> SUFFICES ASSUME NEW i \in 1..Len(recovered)
                 PROVE  StartAt[recovered[i] + 1] <= StartAt[p + 1]
      BY <1>3, <2>1 DEF BehindInv
    <3>1. recovered[i] \in Nat /\ recovered[i] + 1 \in 0..(FileTail + 1)
      BY <1>1, <1>8 DEF Extents, FileTail
    <3>2. StartAt[recovered[i] + 1] \in Nat /\ StartAt[recovered[i] + 1] <= StartAt[p]
      BY <1>3, <3>1, PieceOrder DEF IInv, BehindInv
    <3> QED
      BY <1>2, <3>2
  <2>4. AtPiece(p)  => AtPiece(p + 1)'
    <3> SUFFICES ASSUME AtPiece(p) PROVE AtPiece(p + 1)'
      OBVIOUS
    <3>1. \A e \in Extents : e < p
      BY <1>1, <1>10 DEF Extents, IndexExtent
    <3>2. \A e \in Extents : Intact(e) => Has(e)'
      BY <2>1, <3>1 DEF AtPiece, Has
    <3> QED
      BY <1>1, <1>3, <1>4, <1>6, <3>2 DEF AtPiece
  <2>5. RecoverInv'
    <3>1. AllExcused => AllExcused'
      BY <2>1, ExcusedStays DEF IInv
    <3>2. \A q \in 1..FileTail : AtPiece(q) => q = p
      BY <1>3, <1>7 DEF AtPiece
    <3> QED
      BY <1>1, <1>4, <2>4, <3>1, <3>2 DEF IInv, RecoverInv
  <2>6. ReaderInv'
    BY <1>1, <1>4, <1>10 DEF ReaderInv, Extents, IndexExtent
  <2> QED
    BY <1>5, <2>2, <2>3, <2>5, <2>6 DEF IInv
<1>11. CASE p \in Extents
  <2>1. recovered' = Append(recovered, p)
    BY <1>11 DEF Got
  <2>2. /\ Len(recovered') = Len(recovered) + 1
        /\ \A i \in 1..Len(recovered) : recovered'[i] = recovered[i]
        /\ recovered'[Len(recovered) + 1] = p
    BY <1>9, <1>11, <2>1
  <2>3. \A i \in 1..Len(recovered') : i \in 1..Len(recovered) \/ i = Len(recovered) + 1
    BY <1>9, <2>2
  <2>4. Intact(p)
    BY DEF Intact, Passes
  <2>5. NothingInvented'
    <3>1. \A i \in 1..Len(recovered') : Intact(recovered'[i])
      BY <2>2, <2>3, <2>4 DEF IInv, NothingInvented
    <3>2. ASSUME NEW i \in 1..Len(recovered'), NEW j \in 1..Len(recovered'), i < j
          PROVE  recovered'[i] < recovered'[j]
      <4>1. i \in 1..Len(recovered)
        BY <1>9, <2>2, <3>2
      <4>2. CASE j \in 1..Len(recovered)
        BY <2>2, <3>2, <4>1, <4>2 DEF IInv, NothingInvented
      <4>3. CASE j = Len(recovered) + 1
        BY <1>8, <2>2, <4>1, <4>3
      <4> QED
        BY <2>3, <4>2, <4>3
    <3> QED
      BY <1>6, <3>1, <3>2 DEF NothingInvented
  <2>6. BehindInv'
    <3> SUFFICES ASSUME NEW i \in 1..Len(recovered')
                 PROVE  StartAt[recovered'[i] + 1] <= StartAt[p + 1]
      BY <1>3 DEF BehindInv
    <3>1. CASE i = Len(recovered) + 1
      BY <1>2, <2>2, <3>1
    <3>2. CASE i \in 1..Len(recovered)
      <4>1. recovered[i] \in Nat /\ recovered[i] + 1 \in 0..(FileTail + 1)
        BY <1>1, <1>8, <3>2 DEF Extents, FileTail
      <4>2. StartAt[recovered[i] + 1] \in Nat /\ StartAt[recovered[i] + 1] <= StartAt[p]
        BY <1>3, <3>2, <4>1, PieceOrder DEF IInv, BehindInv
      <4> QED
        BY <1>2, <2>2, <3>2, <4>2
    <3> QED
      BY <2>3, <3>1, <3>2
  <2>7. AtPiece(p)  => AtPiece(p + 1)'
    <3> SUFFICES ASSUME AtPiece(p) PROVE AtPiece(p + 1)'
      OBVIOUS
    <3>1. ASSUME NEW e \in Extents, e < p + 1, Intact(e)
          PROVE  Has(e)'
      <4>1. CASE e = p
        <5>1. Len(recovered) + 1 \in 1..Len(recovered')
          BY <1>9, <2>2
        <5> QED
          BY <2>2, <4>1, <5>1 DEF Has
      <4>2. CASE e < p
        <5>1. PICK i \in 1..Len(recovered) : recovered[i] = e
          BY <3>1, <4>2 DEF AtPiece, Has
        <5>2. i \in 1..Len(recovered')
          BY <1>9, <2>2
        <5> QED
          BY <2>2, <5>1, <5>2 DEF Has
      <4> QED
        BY <1>1, <3>1, <4>1, <4>2 DEF Extents
    <3> QED
      BY <1>1, <1>3, <1>4, <1>6, <3>1 DEF AtPiece
  <2>8. RecoverInv'
    <3>1. AllExcused => AllExcused'
      BY <1>11, <2>1, ExcusedStays DEF IInv
    <3>2. \A q \in 1..FileTail : AtPiece(q) => q = p
      BY <1>3, <1>7 DEF AtPiece
    <3> QED
      BY <1>1, <1>4, <2>7, <3>1, <3>2 DEF IInv, RecoverInv
  <2>9. ReaderInv'
    <3>1. ReadAll(p) => ReadAll(p + 1)'
      <4> SUFFICES ASSUME ReadAll(p)
                   PROVE  recovered' = [i \in 1..Before(p + 1) |-> i]
        BY <1>3 DEF ReadAll
      <4>1. Before(p) = p - 1 /\ Before(p + 1) = p
        BY <1>1, <1>11 DEF Before, Extents
      <4>2. recovered = [i \in 1..(p - 1) |-> i] /\ Len(recovered) = p - 1
        BY <1>1, <4>1 DEF ReadAll
      <4> QED
        BY <1>1, <2>1, <4>1, <4>2
    <3>2. \A q \in 1..IndexExtent : ReadAll(q) => q = p
      BY <1>1, <1>3, <1>7 DEF ReadAll, IndexExtent, FileTail
    <3>3. p + 1 \in 1..IndexExtent
      BY <1>1, <1>11 DEF Extents, IndexExtent
    <3> QED
      BY <1>4, <3>1, <3>2, <3>3 DEF IInv, ReaderInv, Whole, fileVars
  <2> QED
    BY <1>5, <2>5, <2>6, <2>8, <2>9 DEF IInv
<1> QED
  BY <1>10, <1>11

\* Where dsrecover goes on from a piece it has reached, or what excuses it.
LEMMA ReadKeeps ==
  ASSUME IInv, readExtent
  PROVE  IInv'
<1>1. program = "recovering" /\ UNCHANGED fileVars /\ TypeOK
  BY DEF readExtent, IInv
<1>2. /\ cur_offset \in Nat /\ size \in Nat /\ cur_offset <= size
      /\ PrefixSize \in Nat \ {0} /\ FileTail \in Nat /\ FileTail \in 1..FileTail
      /\ NExtents \in Nat
  BY <1>1, FileAssumption DEF TypeOK, FileTail
<1>3. \A p \in 1..FileTail : /\ StartAt[p] \in Nat /\ StartAt[p + 1] \in Nat
                             /\ StartAt[p] + PrefixSize <= StartAt[p + 1]
  <2> SUFFICES ASSUME NEW p \in 1..FileTail
               PROVE  /\ StartAt[p] \in Nat /\ StartAt[p + 1] \in Nat
                      /\ StartAt[p] + PrefixSize <= StartAt[p + 1]
    OBVIOUS
  <2>1. p \in 0..(FileTail + 1) /\ p + 1 \in 0..(FileTail + 1)
    BY <1>2
  <2> QED
    BY <2>1, PieceOrder, PrefixInPiece
<1>4. AllExcused \/ \E p \in 1..FileTail : AtPiece(p) /\ fails <= fail_limit
  BY <1>1 DEF IInv, RecoverInv
<1>6. ASSUME NEW p \in 1..FileTail, cur_offset = StartAt[p], ~Whole(p)
      PROVE  AllExcused
  <2> SUFFICES ASSUME ~AllExcused PROVE FALSE
    OBVIOUS
  <2>1. PICK q \in 1..FileTail : AtPiece(q)
    BY <1>4
  <2>2. q = p
    BY <1>6, <2>1, SamePiece DEF AtPiece
  <2> QED
    BY <1>1, <1>6, <2>1, <2>2, ExcusedAtBreak
<1>7. CASE ReadEof
  <2>1. \A p \in 1..FileTail : cur_offset = StartAt[p] => ~Whole(p)
    BY <1>2, <1>3, <1>7 DEF ReadEof, Whole
  <2>2. AllExcused
    BY <1>4, <1>6, <2>1 DEF AtPiece
  <2> QED
    BY <1>1, <1>7, <2>2, EndedKeeps DEF ReadEof
<1>8. CASE ReadShort
  <2>1. \A p \in 1..FileTail : cur_offset = StartAt[p] => ~Whole(p)
    BY <1>2, <1>3, <1>8 DEF ReadShort, Whole
  <2>2. AllExcused
    BY <1>4, <1>6, <2>1 DEF AtPiece
  <2>3. Failed(cur_offset) /\ cur_offset \in cur_offset..size
    BY <1>2, <1>8 DEF ReadShort, AfterShort
  <2> QED
    BY <1>1, <2>2, <2>3, FailedKeeps
<1>9. ASSUME NEW p \in Extents \cup {IndexExtent}, ReadKnown(p)
      PROVE  IInv'
  <2>1. p \in 1..FileTail /\ p \in Nat /\ p # FileTail /\ Known(p) /\ cur_offset = StartAt[p]
    BY <1>2, <1>9 DEF Extents, IndexExtent, FileTail, ReadKnown, Known
  <2>2. CASE Whole(p) /\ Passes(p) /\ Got(p)
    BY <1>1, <2>1, <2>2, GotKeeps
  <2>3. CASE Whole(p) /\ ~Passes(p) /\ Failed(StartAt[p + 1])
    <3>1. StartAt[p + 1] \in cur_offset..size
      BY <1>2, <1>3, <2>1, <2>3 DEF Whole
    <3>2. ~Intact(p)
      BY <2>3 DEF Passes, Intact
    <3>3. \A q \in 1..FileTail : AtPiece(q) => q = p
      BY <2>1, SamePiece DEF AtPiece
    <3> QED
      BY <1>1, <1>4, <2>1, <2>3, <3>1, <3>2, <3>3, FailedKeeps
  <2>4. CASE ~Whole(p) /\ Failed(cur_offset + PrefixSize)
    <3>1. cur_offset + PrefixSize \in cur_offset..size
      BY <1>2, <2>1 DEF Known
    <3> QED
      BY <1>1, <1>6, <2>1, <2>4, <3>1, FailedKeeps
  <2> QED
    BY <1>9, <2>2, <2>3, <2>4 DEF ReadKnown
<1>10. CASE ReadTail
  <2>1. cur_offset = StartAt[FileTail] /\ cur_offset + PrefixSize <= size
    BY <1>10 DEF ReadTail, Known
  <2>2. AllExcused
    <3> SUFFICES ASSUME ~AllExcused PROVE FALSE
      OBVIOUS
    <3>1. PICK q \in 1..FileTail : AtPiece(q)
      BY <1>4
    <3>2. q = FileTail
      BY <1>2, <2>1, <3>1, SamePiece DEF AtPiece
    <3> QED
      BY <1>1, <3>1, <3>2, ExcusedAtBreak
  <2>4. CASE Ended("ended_recovering")
    BY <1>1, <2>2, <2>4, EndedKeeps
  <2>5. CASE Failed(cur_offset + PrefixSize)
    <3>1. cur_offset + PrefixSize \in cur_offset..size
      BY <1>2, <2>1
    <3> QED
      BY <1>1, <2>2, <2>5, <3>1, FailedKeeps
  <2> QED
    BY <1>10, <2>4, <2>5 DEF ReadTail
<1>11. CASE ReadJunk
  <2>1. cur_offset + PrefixSize <= size /\ \A p \in 1..FileTail : ~Known(p)
    BY <1>2, <1>11 DEF ReadJunk, Pieces
  <2>2. PICK next \in (cur_offset + PrefixSize)..size : Failed(next)
    BY <1>11 DEF ReadJunk
  <2>3. next \in cur_offset..size
    BY <1>2, <2>1
  <2>4. AllExcused
    <3> SUFFICES ASSUME ~AllExcused PROVE FALSE
      OBVIOUS
    <3>1. PICK q \in 1..FileTail : AtPiece(q)
      BY <1>4
    <3>2. StartAt[q] \in damaged
      BY <2>1, <3>1 DEF AtPiece, Known
    <3> QED
      BY <1>1, <3>1, <3>2, ExcusedAtBreak
  <2> QED
    BY <1>1, <2>2, <2>3, <2>4, FailedKeeps
<1> QED
  BY <1>7, <1>8, <1>9, <1>10, <1>11 DEF readExtent

\* The other programs.
LEMMA IndexKeeps ==
  ASSUME IInv, ReadIndex
  PROVE  IInv'
<1>1. program = "reading" /\ UNCHANGED fileVars /\ NExtents \in Nat
  BY FileAssumption DEF ReadIndex, ReadIndexEnd, ReadEntry
<1>2. CASE ReadIndexEnd
  <2>1. PICK p \in 1..IndexExtent : ReadAll(p)
    BY <1>1 DEF IInv, ReaderInv
  <2>2. p \in 1..FileTail /\ IndexExtent \in 1..FileTail
    BY <1>1 DEF IndexExtent, FileTail
  <2>3. p = IndexExtent
    BY <1>2, <2>1, <2>2, SamePiece DEF ReadAll, ReadIndexEnd
  <2>4. recovered = [i \in Extents |-> i]
    BY <1>1, <2>1, <2>3 DEF ReadAll, Before, IndexExtent, Extents
  <2> QED
    BY <1>1, <1>2, <2>4, EndedKeeps DEF ReadIndexEnd
<1>3. ASSUME NEW p \in Extents, ReadEntry(p) PROVE IInv'
  <2>1. Whole(p)
    <3>1. /\ p + 1 \in 0..(FileTail + 1) /\ FileTail + 1 \in 0..(FileTail + 1)
          /\ p + 1 < FileTail + 1
      BY <1>1 DEF Extents, FileTail
    <3>2. /\ StartAt[p + 1] \in Nat /\ StartAt[FileTail + 1] \in Nat
          /\ StartAt[p + 1] < StartAt[FileTail + 1]
      BY <3>1, PieceOrder
    <3> QED
      BY <1>1, <3>2 DEF IInv, TypeOK, ReaderInv, Whole
  <2>2. CASE Passes(p) /\ Got(p)
    BY <1>1, <1>3, <2>1, <2>2, GotKeeps DEF ReadEntry
  <2>3. CASE Ended("aborted")
    BY <1>1, <2>3, EndedKeeps
  <2> QED
    BY <1>3, <2>2, <2>3 DEF ReadEntry
<1> QED
  BY <1>2, <1>3 DEF ReadIndex

----------------------------------------------------------------------------
\* The theorems

LEMMA Inductive == Spec => []IInv
<1>1. IInv /\ [Next]_vars => IInv'
  <2> SUFFICES ASSUME IInv, [Next]_vars PROVE IInv'
    OBVIOUS
  <2>1. CASE \E p \in Pieces : Write(p) \/ Crash(p)
    BY <2>1, WriteKeeps
  <2>2. CASE Damage
    BY <2>2, DamageKeeps
  <2>3. CASE Recover \/ Read \/ Refused
    BY <2>3, OpenKeeps
  <2>4. CASE readExtent
    BY <2>4, ReadKeeps
  <2>5. CASE ReadIndex
    BY <2>5, IndexKeeps
  <2>6. CASE UNCHANGED vars
    <3>1. UNCHANGED <<program, size, damaged, cur_offset, fails, recovered>>
      BY <2>6 DEF vars, fileVars
    <3>2. \A e : (Intact(e)' <=> Intact(e)) /\ (Has(e)' <=> Has(e))
      BY <3>1 DEF Intact, Whole, Words, Has
    <3>3. TypeOK' /\ NothingInvented' /\ FreshInv' /\ BehindInv'
      BY <3>1, <3>2 DEF IInv, TypeOK, NothingInvented, FreshInv, BehindInv
    <3>4. RecoverInv'
      BY <3>1, <3>2 DEF IInv, RecoverInv, AllExcused, Excused, AtPiece
    <3>5. ReaderInv'
      BY <3>1 DEF IInv, ReaderInv, ReadAll, Whole
    <3> QED
      BY <3>3, <3>4, <3>5 DEF IInv
  <2> QED
    BY <2>1, <2>2, <2>3, <2>4, <2>5, <2>6 DEF Next
<1> QED
  BY <1>1, Initially, PTL DEF Spec

\* The types, and that the place of the next read never passes the end of the
\* file, wherever it breaks off and whatever the lengths in it say.
THEOREM TypeCorrect == Spec => []TypeOK
BY Inductive, PTL DEF IInv

\* No reader returns an extent out of order or twice, or one that is not as it was
\* written.
THEOREM NothingIsInvented == Spec => []NothingInvented
BY Inductive, PTL DEF IInv

\* dsrecover loses a whole extent only behind a damaged length or a run of more than
\* fail_limit damaged extents; a program that reads to the end has read everything.
THEOREM NothingIsLost == Spec => []NothingLost
<1>1. IInv => NothingLost
  BY DEF IInv, RecoverInv, ReaderInv, AllExcused, NothingLost
<1> QED
  BY <1>1, Inductive, PTL
=============================================================================

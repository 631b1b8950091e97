---------------------------- MODULE NFSMergeJoins ----------------------------
(***************************************************************************)
(* The joins of nfsdsanalysis (src/analysis/nfs/MergeJoins.cpp):            *)
(* AttrOpsCommonJoin merges common with attr-ops, CommonAttrRWJoin merges   *)
(* what it returns with read-write.  Both are modules that are asked for    *)
(* one extent of output at a time and keep what is left of their inputs.    *)
(* They also share rw_side_data: reads and writes without attributes are    *)
(* not in the output of the first, so the second looks them up there.       *)
(*                                                                          *)
(* One thread runs both.  An action is one turn of a loop: `at' is where    *)
(* CommonAttrRWJoin is, and `join' where AttrOpsCommonJoin is while the     *)
(* other waits for it.                                                      *)
(***************************************************************************)
EXTENDS NFSTrace

CONSTANTS
  Options,          \* what is run, on what: records [pulled, prune, by, range, rows]
  RotateInterval,   \* rotate_interval_raw
  MissingTime,      \* 30 seconds
  Microsecond,
  OutputRows        \* rows of output that are 128 kB

ASSUME NFSMergeJoinsAssumption ==
  /\ \A o \in Options :
       /\ o.pulled \in {"merge12", "merge123"}      \* the join whose output is analysed
       /\ o.prune \in BOOLEAN                       \* prune_entries_after_use
       /\ o.by \in {"nothing", "nfssubset", "time"} \* what cuts the tables
       /\ o.rows \in [{"common", "attrops", "rw"} -> Nat \ {0}] \* in an extent of each
  /\ {RotateInterval, MissingTime, Microsecond, OutputRows} \subseteq Nat \ {0}

VARIABLES
  pulled,           \* the join whose output is analysed
  kept,             \* the record ids that are left in common
  keptRW,           \* the reply ids that are left in read-write
  status,           \* "capture", "reading", "ended", or why the program aborted
  at, join,
  \* AttrOpsCommonJoin
  prune_entries_after_use,
  es_common, es_attrops, outextent, all_done,
  curreqht, prevreqht, last_rotate_time,
  recent, old,      \* the two halves of rw_side_data
  last_side_data_rotate,
  first_keep_time,  \* NotYet in the initial skip mode
  prev_replyid, last_record_id, last_reply_id,
  \* CommonAttrRWJoin
  es_commonattr, es_rw, es_out, commonattr_done, rw_done, last_rw_reply_id,
  typed,            \* does es_out have its type?
  \* history
  joined, merged    \* rows that each of the joins made, that the second returned

inputVars == <<trace, pulled, kept, keptRW, prune_entries_after_use>>
tableVars == <<curreqht, prevreqht, last_rotate_time>>
sideVars  == <<recent, old, last_side_data_rotate>>
seenVars  == <<first_keep_time, prev_replyid, last_record_id, last_reply_id>>
ownVars   == <<es_common, es_attrops, outextent, all_done, joined>>
attrVars  == <<ownVars, tableVars, seenVars>>
rwVars    == <<es_rw, es_out, rw_done, last_rw_reply_id, typed, merged>>
caVars    == <<es_commonattr, commonattr_done>>
readVars  == <<source, at, join, sideVars, attrVars, rwVars, caVars>>
vars      == <<inputVars, status, readVars>>

NotYet == -1
Never  == -RotateInterval - 1      \* before every time by more than the interval

Abort(why) == status' = why /\ UNCHANGED <<inputVars, readVars>>

----------------------------------------------------------------------------
Init ==
  /\ trace = << >> /\ pulled = "merge123" /\ kept = {} /\ keptRW = {}
  /\ prune_entries_after_use = FALSE
  /\ source = [common |-> << >>, attrops |-> << >>, rw |-> << >>]
  /\ status = "capture" /\ at = "begin" /\ join = "idle"
  /\ es_common = NoExtent /\ es_attrops = NoExtent /\ outextent = << >> /\ all_done = FALSE
  /\ curreqht = {} /\ prevreqht = {} /\ last_rotate_time = Never
  /\ recent = {} /\ old = {} /\ last_side_data_rotate = Never
  /\ first_keep_time = NotYet
  /\ prev_replyid = 0 /\ last_record_id = 0 /\ last_reply_id = 0
  /\ es_commonattr = NoExtent /\ es_rw = NoExtent /\ es_out = << >>
  /\ commonattr_done = FALSE /\ rw_done = FALSE /\ last_rw_reply_id = 0 /\ typed = FALSE
  /\ joined = << >> /\ merged = << >>

Capture ==
  /\ status = "capture"
  /\ \/ \E op \in Operations : Request(op)
     \/ \E id \in Ids, n \in UNION {AttrRows[op] : op \in Operations} : Reply(id, n)
  /\ UNCHANGED <<pulled, kept, keptRW, prune_entries_after_use, status, readVars>>

\* The tables as they are on disk, and TimeBoundPrune in front of common
Open ==
  /\ status = "capture" /\ status' = "reading"
  /\ \E o \in Options :
       LET sub(rows) == IF o.by = "nfssubset" THEN Copied(rows, o.range) ELSE rows
           common    == Chopped(IF o.by = "nfssubset" THEN CopiedCommon(Common, o.range)
                                                      ELSE Common, o.rows.common)
           cutCommon == IF o.by = "time" THEN InTime(common, o.range) ELSE common
       IN  /\ source' = [common |-> cutCommon, attrops |-> Chopped(sub(AttrOps), o.rows.attrops),
                         rw |-> Chopped(sub(ReadWrite), o.rows.rw)]
           /\ kept' = ToSet(FlattenSeq(cutCommon)) /\ keptRW' = ToSet(sub(ReadWrite))
           /\ pulled' = o.pulled /\ prune_entries_after_use' = o.prune
  /\ UNCHANGED <<trace, at, join, sideVars, attrVars, rwVars, caVars>>

----------------------------------------------------------------------------
\* AttrOpsCommonJoin::getSharedExtent

Joining(where) == status = "reading" /\ join = where

\* Back to the caller, CommonAttrRWJoin::nextCommonAttrExtent
ReturnJoined(extent) ==
  /\ join' = "idle"
  /\ es_commonattr' = extent
  /\ commonattr_done' = (extent = NoExtent)

CallJoin ==
  /\ Joining("call")
  /\ LET first  == ~all_done /\ es_common = NoExtent
         common == IF first THEN NextExtent("common") ELSE es_common
         attrs  == NextExtent("attrops")
     IN  IF all_done \/ common = NoExtent
           THEN /\ all_done' = TRUE /\ es_attrops' = NoExtent
                /\ ReturnJoined(NoExtent)
                /\ UNCHANGED <<source, es_common, outextent>>
           ELSE /\ source' = [source EXCEPT !.common = IF first THEN AfterNext("common") ELSE @,
                                            !.attrops = AfterNext("attrops")]
                /\ es_common' = common
                /\ IF attrs = NoExtent
                     THEN join' = "final" /\ UNCHANGED <<es_attrops, outextent>>
                     ELSE join' = "row" /\ es_attrops' = attrs /\ outextent' = << >>
                /\ UNCHANGED <<all_done, caVars>>
  /\ UNCHANGED <<inputVars, status, at, joined, sideVars, tableVars, seenVars, rwVars>>

EndOfAttrOps ==
  /\ Joining("row") /\ es_attrops = << >>
  /\ es_attrops' = NoExtent
  /\ ReturnJoined(outextent)
  /\ UNCHANGED <<inputVars, status, source, at, es_common, outextent, all_done, joined,
                 sideVars, tableVars, seenVars, rwVars>>

SideDataRotates_each_extent(time) == last_side_data_rotate < time
SideDataRotates(time) == last_side_data_rotate < time - RotateInterval

RotateSideData(time) ==
  IF SideDataRotates(time)
    THEN old' = recent /\ recent' = {} /\ last_side_data_rotate' = time
    ELSE UNCHANGED sideVars

NextCommon ==
  /\ Joining("row") /\ es_attrops # << >> /\ es_common = << >>
  /\ LET common == NextExtent("common") IN
     IF common = NoExtent
       THEN /\ es_common' = NoExtent /\ es_attrops' = NoExtent
            /\ ReturnJoined(outextent)
            /\ UNCHANGED <<source, sideVars>>
       ELSE /\ source' = [source EXCEPT !.common = AfterNext("common")]
            /\ es_common' = common
            /\ RotateSideData(PacketAt[Head(common)])
            /\ UNCHANGED <<join, es_attrops, caVars>>
  /\ UNCHANGED <<inputVars, status, at, outextent, all_done, joined, tableVars, seenVars, rwVars>>

----------------------------------------------------------------------------
\* One turn of its loop, with a record of common and a reply of attr-ops

Record == Head(es_common)
Row    == Head(es_attrops)

Compares == Joining("row") /\ es_attrops # << >> /\ es_common # << >>
Sorted   == prev_replyid <= Row /\ last_record_id <= Record

Early     == Record < Row
Skipped   == first_keep_time = NotYet /\ Row < Record
Duplicate == Row = last_reply_id

Seen == prev_replyid' = Row /\ last_record_id' = Record

\* rw_side_data gets the record of a read or write.
AddSideData(id) ==
  /\ recent' = IF IsRead(id) THEN recent \union {id} ELSE recent
  /\ UNCHANGED <<old, last_side_data_rotate>>

RemoveSideData(ids) ==
  /\ recent' = recent \ ids /\ old' = old \ ids
  /\ UNCHANGED last_side_data_rotate

TableRotates(time) == last_rotate_time < time - RotateInterval

AddRequest(id) ==
  IF TableRotates(PacketAt[id])
    THEN curreqht' = {id} /\ prevreqht' = curreqht /\ last_rotate_time' = PacketAt[id]
    ELSE curreqht' = curreqht \union {id} /\ UNCHANGED <<prevreqht, last_rotate_time>>

EarlyRecord ==
  /\ Compares /\ Sorted /\ Early
  /\ Seen
  /\ IF IsRequest(Record) THEN AddRequest(Record) ELSE UNCHANGED tableVars
  /\ AddSideData(Record)
  /\ es_common' = Tail(es_common)
  /\ UNCHANGED <<inputVars, status, source, at, join, es_attrops, outextent, all_done, joined,
                 first_keep_time, last_reply_id, rwVars, caVars>>

\* Both ways to skip a row of attr-ops
SkipRow ==
  /\ Compares /\ Sorted /\ ~Early /\ (Skipped \/ Duplicate)
  /\ Seen
  /\ es_attrops' = Tail(es_attrops)
  /\ UNCHANGED <<inputVars, status, source, at, join, es_common, outextent, all_done, joined,
                 first_keep_time, last_reply_id, sideVars, tableVars, rwVars, caVars>>

Lookups == Compares /\ Sorted /\ ~Early /\ ~Skipped /\ ~Duplicate

FirstKeep == IF first_keep_time = NotYet THEN PacketAt[Row] ELSE first_keep_time

BothAdvance ==
  /\ Seen /\ last_reply_id' = Row /\ first_keep_time' = FirstKeep
  /\ es_common' = Tail(es_common) /\ es_attrops' = Tail(es_attrops)
  /\ UNCHANGED <<inputVars, status, source, at, join, all_done, rwVars, caVars>>

Found_only_in_current(request) == request \in curreqht
Found(request) == request \in curreqht \union prevreqht

Pairs == Lookups /\ Record = Row /\ ~IsRequest(Record)

\* The request may have been cut off, in the first 30 seconds.
MayMiss(reply) == Repeatable(reply) \/ PacketAt[reply] - FirstKeep < MissingTime

MissingRequest ==
  /\ Pairs /\ ~Found(RequestOf(Row)) /\ MayMiss(Row)
  /\ BothAdvance
  /\ UNCHANGED <<outextent, joined, tableVars, sideVars>>

JoinError ==
  CASE ~Sorted                                                -> "not sorted"
    [] Lookups /\ Record # Row                                -> "mismatch"
    [] Lookups /\ Record = Row /\ IsRequest(Row)              -> "not a reply"
    [] Pairs /\ ~Found(RequestOf(Row)) /\ ~MayMiss(Row)       -> "old missing request"
    [] OTHER                                                  -> "none"

JoinAborts == Compares /\ JoinError # "none" /\ Abort(JoinError)

\* A reply that is not after its request is moved.
ReplyAt(reply) ==
  IF PacketAt[reply] <= PacketAt[RequestOf(reply)]
    THEN PacketAt[RequestOf(reply)] + Microsecond ELSE PacketAt[reply]

JoinedRow(reply) == [reply      |-> reply,
                     request_at |-> PacketAt[RequestOf(reply)],
                     reply_at   |-> ReplyAt(reply)]

JoinRow ==
  /\ Pairs /\ Found(RequestOf(Row))
  /\ BothAdvance
  /\ outextent' = Append(outextent, JoinedRow(Row))
  /\ joined' = Append(joined, JoinedRow(Row))
  /\ IF prune_entries_after_use
       THEN /\ curreqht' = curreqht \ {RequestOf(Row)}
            /\ prevreqht' = prevreqht \ {RequestOf(Row)}
            /\ UNCHANGED last_rotate_time
            /\ IF IsRead(Row) THEN RemoveSideData({RequestOf(Row)}) ELSE UNCHANGED sideVars
       ELSE UNCHANGED <<tableVars, sideVars>>

\* finalCommonSideData
FinalSideData ==
  /\ Joining("final")
  /\ IF es_common # << >>
       THEN /\ AddSideData(Record)
            /\ es_common' = Tail(es_common)
            /\ UNCHANGED <<source, join, all_done, caVars>>
       ELSE /\ source' = [source EXCEPT !.common = AfterNext("common")]
            /\ es_common' = NextExtent("common")
            /\ IF es_common' = NoExtent
                 THEN all_done' = TRUE /\ ReturnJoined(NoExtent)
                 ELSE UNCHANGED <<join, all_done, caVars>>
            /\ UNCHANGED sideVars
  /\ UNCHANGED <<inputVars, status, at, es_attrops, outextent, joined, tableVars, seenVars, rwVars>>

----------------------------------------------------------------------------
\* CommonAttrRWJoin

\* It runs while AttrOpsCommonJoin does not.
At(where) == status = "reading" /\ join = "idle" /\ at = where

More_but_the_last(extent) == extent # NoExtent /\ Len(extent) > 1
More(extent) == extent # NoExtent /\ extent # << >>

\* nextCommonAttrExtent, going on at `where' when it has returned
NextCommonAttr(where) ==
  /\ at' = where
  /\ join' = IF commonattr_done THEN join ELSE "call"

\* nextRWExtent
NextRW ==
  IF rw_done THEN UNCHANGED <<source, es_rw, rw_done>>
  ELSE /\ es_rw' = NextExtent("rw")
       /\ rw_done' = (es_rw' = NoExtent)
       /\ source' = [source EXCEPT !.rw = AfterNext("rw")]

\* getSharedExtent.  The analysis that calls it stops at the first NULL.
ReturnNull == status' = "ended" /\ UNCHANGED at

BeginExtent ==
  /\ At("begin") /\ pulled = "merge123"
  /\ CASE commonattr_done /\ rw_done      -> ReturnNull /\ UNCHANGED <<join, es_out>>
       [] ~(commonattr_done /\ rw_done) /\ ~typed ->
                                             NextCommonAttr("first") /\ UNCHANGED <<status, es_out>>
       [] OTHER                           -> /\ at' = "loop" /\ es_out' = << >>
                                             /\ UNCHANGED <<status, join>>
  /\ UNCHANGED <<inputVars, source, attrVars, sideVars, caVars, es_rw, rw_done,
                 last_rw_reply_id, typed, merged>>

FirstExtents ==
  /\ At("first")
  /\ IF es_commonattr = NoExtent
       THEN ReturnNull /\ UNCHANGED <<source, es_rw, rw_done, typed>>
       ELSE /\ NextRW
            /\ IF es_rw' = NoExtent THEN ReturnNull /\ UNCHANGED typed
                                    ELSE at' = "loop" /\ typed' = TRUE /\ UNCHANGED status
  /\ UNCHANGED <<inputVars, join, attrVars, sideVars, caVars, es_out, last_rw_reply_id,
                 merged>>

ReturnExtent ==
  /\ merged' = merged \o es_out /\ es_out' = << >> /\ at' = "begin"

\* The top of the loop, which `restart' is too: output grows only before the top.
LoopRW ==
  /\ At("loop")
  /\ IF Len(es_out) >= OutputRows
       THEN ReturnExtent /\ UNCHANGED <<source, es_rw, rw_done>>
       ELSE /\ at' = "loop2"
            /\ IF More(es_rw) THEN UNCHANGED <<source, es_rw, rw_done>> ELSE NextRW
            /\ UNCHANGED <<es_out, merged>>
  /\ UNCHANGED <<inputVars, status, join, attrVars, sideVars, caVars, last_rw_reply_id,
                 typed>>

LoopCommonAttr ==
  /\ At("loop2")
  /\ IF More(es_commonattr) THEN at' = "compare" /\ UNCHANGED join ELSE NextCommonAttr("compare")
  /\ UNCHANGED <<inputVars, status, source, attrVars, sideVars, caVars, rwVars>>

StartFinish ==
  /\ At("compare") /\ (rw_done \/ commonattr_done)
  /\ at' = "finish"
  /\ UNCHANGED <<inputVars, status, source, join, attrVars, sideVars, caVars, rwVars>>

Merges == At("compare") /\ ~rw_done /\ ~commonattr_done

Behind == Head(es_commonattr).reply < Head(es_rw)

\* Why it goes no further, if it does not.  A field of an extent without rows is
\* read from beyond its end; what the program does then is not followed.
MergeError ==
  CASE es_commonattr = << >>                              -> "no row"
    [] es_commonattr # << >> /\ Behind /\ IsRead(Head(es_commonattr).reply)
                                                          -> "attributes of no row"
    [] es_commonattr # << >> /\ ~Behind /\ last_rw_reply_id >= Head(es_rw)
                                                          -> "not sorted"
    [] OTHER                                              -> "none"

MergeAborts == Merges /\ MergeError # "none" /\ Abort(MergeError)

SkipCommonAttr ==
  /\ Merges /\ MergeError = "none" /\ Behind
  /\ es_commonattr' = Tail(es_commonattr)
  /\ at' = IF es_commonattr' = << >> THEN "loop" ELSE at
  /\ UNCHANGED <<inputVars, status, source, join, attrVars, sideVars, commonattr_done, rwVars>>

Ready == Merges /\ MergeError = "none" /\ ~Behind

MergedRow(row, attributes) ==
  [reply |-> row.reply, request_at |-> row.request_at, reply_at |-> row.reply_at,
   attributes |-> attributes]

MatchRow ==
  /\ Ready /\ Head(es_commonattr).reply = Head(es_rw)
  /\ es_out' = Append(es_out, MergedRow(Head(es_commonattr), TRUE))
  /\ es_commonattr' = Tail(es_commonattr) /\ es_rw' = Tail(es_rw)
  /\ last_rw_reply_id' = Head(es_rw)
  /\ at' = "loop"
  /\ UNCHANGED <<inputVars, status, source, join, attrVars, sideVars, commonattr_done, rw_done,
                 typed, merged>>

----------------------------------------------------------------------------
\* handleRWUnmatched: the row comes from rw_side_data.

InSideData(id) == id \in recent \union old

UnmatchedRow(reply) ==
  MergedRow([reply |-> reply, request_at |-> PacketAt[RequestOf(reply)],
             reply_at |-> PacketAt[reply]], FALSE)

HandleRWUnmatched ==
  LET reply == Head(es_rw) request == RequestOf(reply) IN
  IF ~InSideData(request) \/ ~InSideData(reply) THEN Abort("no side data")
  ELSE IF PacketAt[request] >= PacketAt[reply] THEN Abort("turnaround")
  ELSE /\ es_out' = Append(es_out, UnmatchedRow(reply))
       /\ RemoveSideData({request, reply})
       /\ UNCHANGED <<inputVars, status, join, attrVars, caVars, rw_done, typed, merged>>
       /\ \/ /\ at = "compare" /\ at' = "loop"
             /\ last_rw_reply_id' = reply
             /\ es_rw' = Tail(es_rw)
             /\ UNCHANGED source
          \/ /\ at = "finish" /\ at' = at
             \* handleRWUnmatched has advanced es_rw, finishCheck does it again.
             /\ es_rw' = SubSeq(es_rw, 3, Len(es_rw))
             /\ UNCHANGED <<source, last_rw_reply_id>>

UnmatchedInLoop == Ready /\ Head(es_commonattr).reply # Head(es_rw) /\ HandleRWUnmatched

----------------------------------------------------------------------------
\* finishCheck: the rest of read-write, then the rest of the other join

FinishRW ==
  /\ At("finish")
  /\ IF rw_done
       THEN at' = "finish2" /\ UNCHANGED <<source, es_rw, rw_done>>
       ELSE ~More(es_rw) /\ NextRW /\ UNCHANGED at
  /\ UNCHANGED <<inputVars, status, join, attrVars, sideVars, caVars, es_out,
                 last_rw_reply_id, typed, merged>>

UnmatchedInFinish == At("finish") /\ ~rw_done /\ More(es_rw) /\ HandleRWUnmatched

FinishCommonAttr ==
  /\ At("finish2") /\ ~commonattr_done
  /\ IF es_commonattr = << >>
       THEN NextCommonAttr("finish3") /\ UNCHANGED <<inputVars, status, source, attrVars,
                                                     sideVars, caVars, rwVars>>
       ELSE IF IsRead(Head(es_commonattr).reply) THEN Abort("attributes of no row")
       ELSE /\ es_commonattr' = Tail(es_commonattr)
            /\ UNCHANGED <<inputVars, status, source, at, join, attrVars, sideVars,
                           commonattr_done, rwVars>>

FinishAgain ==
  /\ At("finish3")
  /\ IF es_commonattr = << >>       \* SINVARIANT(es_commonattr.morerecords())
       THEN Abort("no row")
       ELSE /\ at' = "finish2"
            /\ UNCHANGED <<inputVars, status, source, join, attrVars, sideVars, caVars, rwVars>>

FinishExtent ==
  /\ At("finish2") /\ commonattr_done
  /\ ReturnExtent
  /\ UNCHANGED <<inputVars, status, source, join, attrVars, sideVars, caVars, es_rw, rw_done,
                 last_rw_reply_id, typed>>

\* Only the first join is analysed: its output is read to the end.
PullJoined ==
  /\ At("begin") /\ pulled = "merge12"
  /\ IF commonattr_done THEN ReturnNull /\ UNCHANGED join
                        ELSE NextCommonAttr("begin") /\ UNCHANGED status
  /\ UNCHANGED <<inputVars, source, attrVars, sideVars, caVars, rwVars>>

----------------------------------------------------------------------------
JoinNext ==
  \/ CallJoin \/ EndOfAttrOps \/ NextCommon
  \/ EarlyRecord \/ SkipRow \/ MissingRequest \/ JoinRow \/ JoinAborts
  \/ FinalSideData

MergeNext ==
  \/ BeginExtent \/ FirstExtents \/ LoopRW \/ LoopCommonAttr \/ StartFinish
  \/ SkipCommonAttr \/ MatchRow \/ MergeAborts \/ UnmatchedInLoop
  \/ FinishRW \/ UnmatchedInFinish \/ FinishCommonAttr \/ FinishAgain \/ FinishExtent
  \/ PullJoined

Next == Capture \/ Open \/ JoinNext \/ MergeNext

Spec == Init /\ [][Next]_vars

\* The program that was started runs on.
FairSpec == Spec /\ WF_vars(JoinNext \/ MergeNext)

----------------------------------------------------------------------------
InCommon(id)  == id \in kept
Timely(reply) == PacketAt[reply] - PacketAt[RequestOf(reply)] <= RotateInterval

\* The replies that have attributes and both of their records
Joinable(reply) ==
  /\ trace[reply].attrs > 0
  /\ InCommon(reply) /\ InCommon(RequestOf(reply))

\* A request that is pruned when it was used has no second reply.
Expected(reply) ==
  /\ Joinable(reply) /\ Timely(reply)
  /\ prune_entries_after_use =>
       \A r \in Replies : r < reply /\ RequestOf(r) = RequestOf(reply) => ~Joinable(r)

Ascending(rows) == \A i, j \in DOMAIN rows : i < j => rows[i].reply < rows[j].reply
RepliesOf(rows) == {rows[i].reply : i \in DOMAIN rows}

\* AttrOpsCommonJoin makes one row for each reply whose request it can find, in
\* order, with the times of that request and reply and the reply the later one.
\* Neither where extents end nor the rotation of the tables loses a reply within
\* the interval; a readdir with many rows in attr-ops makes one.
JoinedRows ==
  /\ Ascending(joined)
  /\ \A i \in DOMAIN joined :
       LET row == joined[i] IN
       /\ Joinable(row.reply)
       /\ row.request_at = PacketAt[RequestOf(row.reply)]
       /\ row.reply_at > row.request_at
       /\ row.reply_at = PacketAt[row.reply] \/ PacketAt[row.reply] <= row.request_at
  /\ \A reply \in Replies :
       /\ Expected(reply)
       /\ commonattr_done \/ (status # "capture" /\ reply <= last_reply_id)
       => reply \in RepliesOf(joined)

\* CommonAttrRWJoin makes one row for each row of read-write it has passed, in order:
\* with attributes exactly if the other join has a row for that reply.  (The rows
\* of finishCheck are not passed in this sense, and those that nfssubset left out
\* were never in its input.)
MergedRows ==
  LET rows == merged \o es_out IN
  /\ Ascending(rows)
  /\ \A i \in DOMAIN rows :
       /\ IsRead(rows[i].reply)
       /\ rows[i].attributes = (rows[i].reply \in RepliesOf(joined))
       /\ rows[i].request_at < rows[i].reply_at
  /\ \A reply \in keptRW : reply <= last_rw_reply_id => reply \in RepliesOf(rows)

\* On the tables of one trace the joins stop with an error only for what they say:
\* a request that is not in common, or was answered later than the tables keep it;
\* a read or write whose packets are not in common, or have been in rw_side_data for
\* longer than the interval; and extents without rows.
AbortsForCause ==
  /\ status \notin {"not sorted", "mismatch", "not a reply", "attributes of no row"}
  /\ status = "old missing request" =>
       \/ ~InCommon(RequestOf(Row)) \/ ~Timely(Row)
  /\ status = "no side data" =>
       LET reply == Head(es_rw) IN
       \/ ~InCommon(RequestOf(reply)) \/ ~InCommon(reply)
       \/ PacketAt[last_record_id] - PacketAt[RequestOf(reply)] > RotateInterval

\* Both tables of requests hold the requests of one interval each, the current
\* one those since the last rotation: they do not grow with the trace.
OneIntervalEach ==
  /\ \A id \in curreqht : PacketAt[id] \in last_rotate_time..(last_rotate_time + RotateInterval)
  /\ \A id, other \in prevreqht : PacketAt[id] - PacketAt[other] <= RotateInterval
  /\ \A id \in prevreqht : PacketAt[id] < last_rotate_time

\* What a reply within the interval needs is still there, and what is too old for
\* every such reply has gone.
KeptForTheInterval == AbortsForCause /\ OneIntervalEach

\* The program that was started ends, or stops with an error.
ReadingEnds == (status = "reading") ~> (status # "reading")

=============================================================================

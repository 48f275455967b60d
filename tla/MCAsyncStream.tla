--------------------------- MODULE MCAsyncStream ---------------------------
(***************************************************************************)
(* Instances of AsyncStream for TLC: which records the user sends and      *)
(* which calls the two threads make.                                       *)
(***************************************************************************)
EXTENDS AsyncStream

Record(type, len) == [type |-> type, len |-> len]

\* One record that fits a context, and FINAL.
ShortRecords == {Record("BULK", 1), Record("FINAL", 1)}

\* With RecordBytes = 2: BULK records that join, one that is cut in two, and a
\* FINAL cut in two.
MixedRecords == {Record("BULK", 1), Record("BULK", 3), Record("FINAL", 3)}

\* An untagged record, which is never cut, and FINAL.
UntaggedRecords == {Record("NONE", 3), Record("FINAL", 1)}

UserCalls == {"user"} \X {"enqueue", "clear", "reset", "destroy"}
StreamCalls == {"user"} \X {"enqueue", "clear"}
WatchdogCalls == UserCalls \union {<<"user", "read">>, <<"ctl", "reset">>}
LiveCalls == {<<"user", "enqueue">>, <<"ctl", "reset">>}
EnqueueAndRead == {"user"} \X {"enqueue", "read"}
ReaderCalls == {<<"user", "enqueue">>, <<"user", "clear">>, <<"user", "destroy">>,
                <<"ctl", "read">>}
SecondThreadCalls == LiveCalls \union ReaderCalls
============================================================================

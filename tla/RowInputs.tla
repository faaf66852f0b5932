------------------------------ MODULE RowInputs ------------------------------
(* Aggregates for SnapshotRows: every combination of nil, empty and filled    *)
(* slices, collections of more than one batch, strings no column can hold,    *)
(* and strings that are no text, two of which become the same one.            *)
EXTENDS Conversions

CONSTANTS x, y, long, garbled, mangled, question

Task(id, assignee) == [id |-> id, assignee |-> assignee]
Record(action, reason, monotonic) == [action |-> action, reason |-> reason, monotonic |-> monotonic]

Data == {Nil, << >>, <<"json">>}
NodeLists == {Nil, << >>, <<Nil>>, << << >> >>, << <<"config">> >>}
Aggregates(initiators, nodeLists, payloads, taskLists, audits) ==
  [initiator : initiators, nodes : nodeLists, data : payloads, tasks : taskLists, audit : audits, version : {1}]

Tasks == {Nil, << >>, <<Task(x, y), Task(y, y), Task(garbled, Blank)>>}
\* The same with identities a column cannot hold.
OddTasks == Tasks \union {<<Task(x, x), Task(Blank, x)>>, <<Task(long, x)>>}
\* Identities that are no text, of tasks that are projected and not, and that collide.
GarbledTasks ==
  {<<Task(garbled, x)>>, <<Task(garbled, Blank)>>,
   <<Task(garbled, Blank), Task(mangled, Blank)>>, <<Task(question, Blank), Task(garbled, Blank)>>}
Records == {Nil, << >>, <<Record(x, x, TRUE)>>}
OddRecords == Records \union {<<Record(x, Blank, TRUE), Record(long, x, TRUE)>>, <<Record(Blank, x, TRUE)>>}
AllStrings == {x, y, long, garbled, mangled, question, Blank}
NotUTF8 == {garbled, mangled}
MadeText == [s \in NotUTF8 |-> question]
TooLong == {long}
Replacements == {<<"json">>}
Appended == {<< >>, <<Record(x, y, TRUE), Record(y, x, TRUE), Record(garbled, mangled, TRUE)>>}

AllFresh ==
  Aggregates({x}, NodeLists, {Nil}, {<<Task(x, x)>>}, {<<Record(x, x, TRUE)>>})
  \union Aggregates({x, long}, {Nil}, {Nil}, OddTasks, OddRecords)
  \union Aggregates({x, garbled}, {Nil}, Data, {<<Task(x, garbled)>>, <<Task(x, x)>>},
                    {<<Record(x, garbled, TRUE)>>})
  \union Aggregates({x}, {Nil}, {Nil}, GarbledTasks, {<<Record(garbled, x, TRUE)>>})
=============================================================================

# AnyDB: a TLA+ model of the pattern compiler, the scan and the queries

AnyDB (the `vlex` program of this repository) extracts rows from a raw text file by a
regular expression with named groups and runs a SQL-like query over them. A pattern is
compiled by a chain of constructions (Thompson NFA, subset construction, a merge of two
automata, vector labels) into an automaton that is scanned with SSE4.2 string
instructions; the rows it extracts are selected, projected or aggregated by the executor,
or handed to Spark. Everything is one thread in one process; what is hard here is not
concurrency but that a dozen hand-written constructions, each of which renumbers, merges
or removes states, must together still mean the regular expression, and that the scan
loop must get the boundaries right (windows of 16 bytes, the end of the buffer, the
partitions of a large file, the place to go on after a match, groups that are still open
when the automaton dies).

## 1. Inventory

| Component | State it keeps | Operations | Correct when |
|---|---|---|---|
| Regex grammar and builders (`generator/regex.*`, `src/regex-node.cpp`) | the parser's value stack of NFAs | one builder per grammar rule | the NFA accepts the language of the expression; every group is tied to its place |
| DFA generator (`src/dfa.cpp:236-464`) | epsilon, powerset, transition tables | `generate` | the DFA is the NFA; groups start and stay open where their NFA states are live |
| DFA merger (`src/dfa.cpp:55-234`) | `srMap`, `rsMap`, `transMap` | `merge` | finds the first match, then follows the pattern alone |
| Needle statistics (`src/pfa.cpp`) | counts per needle | `scanSubString`, `calcSubString` | only performance depends on it |
| Vector automaton (`src/vfa.cpp`) | labels, needles, renumbering | `constructVFA` | the labels are an acceleration only |
| Executor, scan loop (`src/executor.cpp:84-108, 226-316, 1003-1139`) | `ctx`, `i`, `startSMS`, `subMatches` | `exec`, `execWithSpark` | emits the rows of the pattern, inside the buffer, in order, and ends |
| Executor, partitions (`924-1001`) | `prevData`, `prevStart`, `prevSize` | `preExec`, `postExec` | rows do not depend on where the partitions are cut |
| Executor, query (`110-213, 332-563, 684-695`) | `tuple`, `tsize`, `count`, `stmtList`, `aggContexts` | `setQuery`, `materialize`, `selection`, `projection` | the predicate is evaluated on the row's values; every aggregate has its cell |
| Executor, aggregation (`565-682, 697-810`, `hashmap.hpp`) | `agg`, `aggCount`, two hash tables | `aggregation0`, `aggregation1`, printing | the aggregates of the selected rows, one line for each group, up to the limit |
| Executor, Spark rows (`813-922`, `runtime.cpp`, `DefaultSource`) | `curDF`, `rowCount` | `storeToDataFrame`, `constructSparkSchema` | every row has the layout of the schema and stays in its record |
| Hash map (`flat_hash_map.hpp`) | `entries`, `num_slots_minus_one`, `max_lookups`, `num_elements` | `find`, `emplace`, `rehash`, `grow`, `erase`, `clear` | it is a set of keys, and no probe leaves the array |
| Runtime (`src/runtime.cpp`) | automata, partitions | `constructDFA`, `mergeKeys`, `constructVFA`, `exec`, `iexecWithSpark` | the order of construction and scan; keys follow each other |
| ioStream (`src/ios.cpp`) | `pos`, the descriptor's offset, `data` | `seek`, `readFile` | the bytes of the file, padded by 16 zeros |
| Command executor and parser (`src/command.cpp`, `generator/command.*`, `table.hpp`) | `tableMap`, the query's context | a `.scan` line, a query, the calls of the Spark bridge | a query runs on the tables it names, as they were declared, with the groups its columns name |
| Query parser (`generator/query.*`, `src/query-node.cpp`, `query.hpp`) | the value stack, then `QueryContext` | one builder per rule, folding of constants, `mapping` | the tree is true of the rows the WHERE clause is true of |
| Not part of the program | `codegen.cpp`, `query-vexecutor.cpp` and their headers (excluded from the build), `optimizer.cpp`, `charcode.cpp` (never called), `bytell_hash_map.hpp` and `unordered_map.hpp` (never included), `tools/`, `dataset/` | | |

Calls go one way: `CommandExecutor` parses the pattern (`.scan`), keeps the NFA and its
`KeyMap` in a `Table`; a query makes a `Runtime` for each table it names, which builds the
DFA of `p` and of `.*p`, merges them, chains the automata of several keys, reads a sample
of the file, labels the states (`VectFA` with `PFA`), loads the executor (`setFA`), reads
the file and runs `exec`, or reads and runs it partition by partition. The executor calls
`queryExec` (or `storeToDataFrame`) for each row. Three pieces of state outlive a call and
are shared by the next: the executor's context, which goes from one partition to the next;
the position of the `ioStream`, which the sample has moved before the file is read; and
the query's context, which `mapping` fills again for every table of the FROM list.

What is hard to test, and why, is listed line by line under `hazards` in `PROJECT.json`.
In short: renumbering in long chains of builders; states merged or paired in an order a
stack happens to give; chains of states removed although a group starts in them; needles
cut by a window, by their own length or by their statistics; a context that is reset on
leaving the initial state rather than on entering it; the last bytes of a buffer;
groups that are open when a match ends. In the query part: SELECT lists that are reversed
twice and numbered in between; two hash tables filled by different functions in an order
that decides whether the other one has the group; integers handled as doubles; constants
folded away beside AND and OR. Around them: a hash table whose probes rely on an order
that every insertion, removal and growth must restore; buffers freed before they are
replaced; sizes and indices of one partition used in the next; a session in which what a
line does depends on the lines before it.

## 2. Modules

```
RegexNfa ── RegexParser ─┬─────────┐
   │                     │         ├─ MatchDfa
   │                     └─ RegexProofs ── LanguageProofs
   └── DfaGen ── DfaMerge ─────────┤ (MatchDfa)
                    └── MergeKeys ─┐
          Pfa ── Vfa ── SetFa ── Compile ─┬─ Scan        (INSTANCE Executor, twice)
                                          ├─ MCExecutor  (EXTENDS Executor)
                                          └┄ MCSparkScan (INSTANCE Compile)
                               Executor ──── ExecutorProofs
RegexNfa ── SparkScan ─┬─ MCSparkScan    (SparkScan: INSTANCE Executor, twice,
                       └─ SparkProofs                IoStream, SparkRows)

Query ── SqlQuery            (what a query promises)
   └──── QueryExec ─┬─ MCQueryExec    (INSTANCE SqlQuery: refinement)
                    └─ QueryExecProofs
KeySet ┄ HashTable ─┬─ MCHashTable    (INSTANCE KeySet: refinement)
                    └─ HashTableProofs
QueryTree ── QueryParser ── MCQueryParser
Command ─┬─ MCCommand
         └─ CommandProofs
SetInduction                 (used by LanguageProofs, RegexProofs, QueryExecProofs, CommandProofs, SparkProofs)
```

The parts meet at three places. A session (`Command`) ends in runs: a file, the patterns,
and for every column the id of its group; `Compile` and `Scan`, or `SparkScan`, say what
such a run does. The scan hands the executor a range for each group
(`RowsExtract`, `RowsInBuffer`); `QueryExec` starts from the values these ranges hold, and
takes a WHERE clause as the set of rows it is true of; `QueryParser` shows of the clause's
tree which rows those are. The groups of a GROUP BY are functions in `QueryExec`;
`HashTable` shows that the map they are kept in is one.

| Module | Models | How |
|---|---|---|
| `RegexNfa` | the builders of `regex-node.cpp`, `constructRegexNFA` | one operator per builder; an NFA is the C++ struct with `transVec` as a set and `subms` as a sequence, states numbered as the code numbers them, because a group is a range of state numbers |
| `RegexParser` | the semantic actions of `regex.ypp` | one action per grammar rule on the value stack; every pattern of at most `MaxTokens` operands and operators is a behaviour. Beside each NFA the stack carries the language the usual reading of the expression gives it |
| `DfaGen` | `DFAGenerator`, the constructor of `DFA` | subset construction, merging of sets with equal rows, `setInvStates`, group states |
| `DfaMerge` | `DFAMerger`, `RuntimeExpression::constructDFA` | the depth-first pairing in the code's order, sticky copies |
| `MatchDfa` | parser, then `constructDFA`, then a run of the automaton | composes the two above with a text read character by character |
| `Pfa`, `Vfa`, `SetFa` | `PFA`, `VectFA`, `Executor::setFA` | operators from the merged automaton to the executor's tables |
| `MergeKeys` | `RuntimeKeys::constructDFA`, `createStateMaps`, `mergeKeys` | the automata of the keys of a table one behind the other, by the numbers of their states |
| `Compile` | `RuntimeBase::constructVFA` | from the patterns of a table, texts and samples to scans; a table with one pattern has one key |
| `Executor` | `exec`, `execWithSpark` and what they call | one action per case of the switch; a `cmpestri*` call is `Enter` and then one action per window of its `goto loop`; `_mm_cmpestri` is external and defined by the index it returns |
| `Scan` | the vector scan beside a scan with every state labelled `C` | two instances of `Executor` on one merged automaton |
| `IoStream` | `ios.cpp` | the count, the offset and the buffer (NULL, live, deleted, deleted twice) |
| `SparkRows` | `storeToDataFrame`, `constructSparkSchema`, the row as Spark reads it | a row is its words and its texts by their place in bytes |
| `SparkScan` | `iexecWithSpark`, `makePartitions`, `preExec`, `postExec`, `execWithSpark` with a start | one action per step of the loop over the partitions, around the actions of `Executor`; beside it the scan of the whole file, a second instance, which goes first. What is scanned is a constant, any automata and files; `MCSparkScan` takes them from `Compile` |
| `KeySet` | | the abstract specification of the hash map: a set of keys |
| `HashTable` | `sherwood_v3_table` with `fibonacci_hash_policy` | one action per call and per turn of the loops of `emplace_new_key` and `erase`; a probe is one step; the number of buckets, the hashes and `min_lookups` are constants |
| `Query` | `Statement`, `HashTableType`, the lists the grammar derives, `mapOpTree`'s types | rows are functions from keys to values; also what an aggregate of a sequence of rows is |
| `SqlQuery` | | the abstract specification: read rows, then show one line for each group, in any order, up to the limit |
| `QueryExec` | `setStatements`, `setAggregations`, `queryExec`, `aggregation0/1`, `hashmap.hpp`, `queryEndExec` | one action per row, one per turn of an aggregation loop, one per printed line; the hash tables are functions, their order of iteration is any; a fault is an uncaught exception or a dereferenced NULL |
| `QueryTree` | the builders of `query-node.cpp`, `addTypeOp`, `evalOp`, `evalPred`, `evalCond` | trees as records with the fields of the structs |
| `QueryParser` | the WHERE clause of `query.ypp` | one action per group of rules on the value stack. Beside its tree an item carries what SQL takes it for: values row by row, or the conditions and the ANDs and ORs between them |
| `Command` | `command.cpp`, `generator/command.*`, `Table`, `KeyMap`, `QueryContext::mapping`, the native call | one action per kind of line and mode, one per table of a FROM list; words are tokens, patterns opaque; a `Runtime` that is run is recorded with what it is given |
| `ExecutorProofs`, `HashTableProofs`, `QueryExecProofs`, `CommandProofs`, `RegexProofs`, `LanguageProofs`, `SparkProofs` | | the proofs, section 5 |
| `SetInduction` | | induction over the natural numbers and recursion along a list, in the form the provers can use |
| `MC*` | | the instances for TLC |

State numbers: where the code computes with state numbers (NFA, ranges of a group, the
order in which states are paired) the model has the same numbers. The DFA's and VFA's own
numbers are only names; the model numbers them arbitrarily, and `Vfa` does not renumber
after removing chains but maps a removed state to `INV_STATE`, as the missing keys of
`dfas2vfas` do.

Some definitions are followed or preceded by a variant marked as mutant
(`StarNfaInPlace`, `EmitAtEnd`, ...): plausible mistakes that the properties must notice.
No specification uses them.

## 3. Runs

All runs use constants small enough for TLC to exhaust; the bounds are the constants
of the `.cfg` and the sets of the `MC` module.

| Run | Instance | Checks | Shows |
|---|---|---|---|
| `parser` | letters a, b; `[a]`, `[^a]`, `[]`, `\w`; `{1}` `{2}` `{3}`; a group name; 4 tokens; words up to 4 | `TypeOK`, `ThompsonShape`, `LanguageExact`, `SearchExact`, `GroupsInPlace` | every builder yields a Thompson automaton of exactly its language; `.*p` is right; groups start exactly where the expression says (those that a union drops excepted) |
| `parser_numbers` | `INT`, `DOUBLE`, `\d` over - . 0 1 E; 2 tokens; words up to 6 | `LanguageExact` | the two hand-built number automata; 6 characters reach a sign, a point and an exponent |
| `match` | all patterns of 4 tokens over a, b with a group and `{2}`; texts up to 5 | `FirstMatchExact`, `GroupStartExact`, `GroupOpenExact` | up to the end of the first match the merged automaton accepts exactly and knows its groups |
| `scan` | 9 patterns and 3 tables of two and three keys, texts up to 7 over a, b, c, and of 8 that begin with a and end with ab, samples of 0 and 3 bytes; `OrdLength` 2, `Positions` 2, `VecBytes` 3, `MaxRanges` 1 | `VectorExact`, `RowsExtract`, `MatchKept`, `Terminates` | the labels do not change the rows; a row is a match of the pattern, or of the keys one behind the other, cut into its groups; no match is lost but one pending at the end of the buffer; the scan ends, or stands before the head of a needle longer than the register |
| `executor` | 7 compiled patterns, texts up to 6 | `TypeOK`, `ContextInv`, `RowsInBuffer`, `RowsInOrder` | the inductive invariant of the proofs |
| `spark` | 6 tables with INT and TEXT groups, one of which need not take part, and one with a needle that ends in NUL; files of up to 18 bytes over two digits and a letter, in partitions of 7: up to three of them, the last full or shorter; samples of 0 and 2 bytes; texts of 1 byte, numbers of less than 2; fresh sub-matches holding 0 or something large | `BuffersExact`, `FrameExact`, `RowsFit`, `Faultless`, `IexecEnds` | reading piece by piece loses the last byte of the file only; where no match is cut, Spark sees each match of the file once, in order, every column the text or number of its group; a row stays in its record; nothing crashes but for the reasons named; the scan ends |
| `query` | keys TEXT, INT, DOUBLE; 4 rows in two groups, negative values, one row not selected; sums of doubles up to 99, for 2^53; all SELECT lists of 2 statements, those of 3 that fill different tables; GROUP BY none, k, x, (k, x); limits 0, 1, 5; files of 3 rows | `TypeOK`, `GroupsExact`, `CellsExact`, `Implements`, `QueryEnds` | tables and cells are exact at every turn of the loops; the executor implements `SqlQuery` for the queries in `Answered`; every query ends, in its last line or in a fault |
| `table` | 6 keys; hashes of 7 bits under which the keys share a slot of 16, two neighbouring slots, the end of the array, or almost one slot of 32; 4 to 128 buckets; `min_lookups` 4 | `IInv`, `FindExact`, `CountExact`, `Implements`, `CallEnds` | the inductive invariant of the proofs, `TypeOK` among its conjuncts; a probe finds what is there; the hash map implements `KeySet`; growing ends, for keys that are all told apart in a table of 128 slots at the latest |
| `where` | three fragments of the language, chosen in the initial state. Links: x from -1 to 3, constants 1 and 2, `<`, `BETWEEN`, AND, OR, parentheses, 11 tokens. Values: x INT, y DOUBLE from 0 to 2, signed constants, `+ - *`, the six comparisons, 6 tokens. Texts: two texts of one to three bytes in the data, compared by a mask of three bits (`Window`, 64 in the code), a constant text, `==`, 7 tokens | `TypeOK`, `ValuesExact`, `WhereExact` | types, folding, precedence and evaluation; the tree selects what the clause says, of rows whose texts are shorter than the mask. 11 tokens are three linked comparisons and two pairs of parentheses, or a `BETWEEN` and two comparisons linked |
| `command` | sessions of up to 4 lines: declarations of two tables by a pattern and by keys, in both orders of words, two with a pattern that does not parse, malformed lines; queries of one and two tables with columns both, one or none of them have; in the shell and from Spark | `RunsExact`, `ColumnsExact`, `TreeTypesExact`, `FaultsExplained`, `QueryEnds` | the first declaration of a table counts; ids and types are those of the groups the columns name, whatever table was mapped before; every crash of the session, before a scan, has one of four causes; a query ends |

Why the bounds suffice: with 4 tokens every builder is applied to the result of every
other one, on the left and on the right of a concatenation; with a register of 3 bytes
and needles of 2 and 3, texts of 7 have a needle cut by a window, found in its last
position, found behind several windows, and a register that reaches into the padding; texts of 7 also
hold a match with two groups and the two bytes behind it that make it a row, and two
matches of the shorter patterns, so that rows are ordered and the context is
reset. The sizes of the code (16 bytes, 4 positions, needles from 4 characters, 8 ranges)
are used where a run shows what happens at them. Three rows are enough for a group that is first
put into one table by one row and found there by the next, in the presence of another
group and of a row that is not selected; three statements of functions that fill
different tables give every order in which one function can rely on another.

Partitions of 7 bytes hold a match of every table of `spark` and the beginning of another;
a second partition meets every state the first can leave behind, and a third what
`preExec` and a stale size leave. A text of 1 byte and a number of 2 are already cut and
too long. Six keys overflow the 4 lookups of a small table, alone and by displacement, and
make it grow from a rehash; a map of 128 buckets never has to grow. Four lines are two
declarations of one table and two queries, the fewest with which one line can spoil what
another one left.

### What the code does not do

Two runs check a property that the repository's README or a comment leads one to
expect, and TLC refutes it. Each is one pattern on short texts, or one query.

- `star`: the end of a group's range of states is computed as a count
  (`regex-node.cpp:195`), and a star's initial state has the number behind those of its body
  (`regex-node.cpp:288-308`). For a body of two states, as in `b*`, the star starts in 2 and
  accepts in 3, so the group's range is from 2 to 3 - 2 + 1 = 2: it holds the star's initial
  state and misses the states of the body. (For a longer body it is empty.) The group is
  open until the first character of the body is read, and is ended with the next, around
  nothing: an empty text is extracted. The `categories` group of the Quick Start
  (`README.md:40`) has this form.
- `text_const`: a text compared with a constant is always equal to it
  (`executor.cpp:512`).

Other properties hold with a premise, which names what the code does not do; TLC refutes
each of them without it.

- `IexecEnds` (`NeedlesFit`): at the real sizes, a literal of 17 characters whose first 16
  occur makes `cmpestriOrd` return to its loop with the same index (`executor.cpp:238`), and
  the scan never ends. `Terminates` has no such premise: it says that a scan ends or stands
  in this place for ever (`Stuck`), so that nothing else keeps it from ending.
- `VectorExact` (`NeedlesWhole`): a needle is searched for from its rarest position on; the
  head is kept in `backStr` (`vfa.cpp:93`), which the executor never compares (the
  generated code of `codegen.cpp:198-209`, no longer built, did).
- `VectorExact` (`GroupsKept`): a group that starts in the first state behind the source
  of a chain, or in the source itself, is not noticed when the chain becomes a needle
  (`vfa.cpp:54`), and its range is lost.
- `RowsExtract` is checked on groups whose range of states holds those of the body, which
  the range of a starred group does not (`star`).
- `FirstMatchExact` and its neighbours end with the first match: `mapDFAStates`
  (`dfa.cpp:221`) leaves states unpaired, which then read as 0, and behind the first match
  the automaton can accept what is not a match.
- `CellsExact` (`NonNegative`, `wild`): without GROUP BY integers are added and compared as
  doubles (`executor.cpp:573`), and the bits of a negative one are a NaN; sums are exact up
  to 2^53 only (`Exact`, an assumption of the module); `isWildCard` is
  read where only COUNT(*) writes it (`executor.cpp:177`).
- `QueryExec!Implements` (`Answered`, `AvgFirst`): of `avg(x), sum(x)` the sum comes first in
  `aggContexts`, which is in reverse order; it puts the group into the value table, `AVG`
  then believes that both tables have it, and `count` throws (`executor.cpp:623`,
  `hashmap.hpp:109`). Also `count(*)` with GROUP BY and `select *` read the type of an
  expression that is NULL (`executor.cpp:744`, `547`); the groups of `distinct` are put into
  the count table, and the value table is printed; a group key that is not a TEXT is read
  through a pointer; two group keys aggregate nothing; the limit 0 is none for groups.
- `WhereExact` (`TextsFit`): texts are compared by looking for the first difference in a mask
  of 64 bits, the last of which is always set (`executor.cpp:487-505`). What is found is at
  most 64, which is not greater than the size of a text of 64 bytes or more: two equal ones
  compare unequal, though `query.hpp:9` has `==` "both for numerics and text".
  Also OR binds tighter than AND (`query.ypp:55-56`); a condition that folds to a
  constant is false (`executor.cpp:531`); a text equals every longer one it begins, and
  texts that share a byte are not `!=` (`executor.cpp:485-511`).
- `RowsExtract` (`Reopened`): a group is begun again wherever the pattern could begin again,
  and what was noted of it is overwritten (`executor.cpp:296`). Of `a(?P<x>[^c]+)c` the text
  `abac` gives an empty `x`, for the second a begins it anew; of `a(?P<x>b+)c...a` the last
  a, which ends the match, begins `x` behind it. Every row is a match all the same, and a row
  none of whose groups could begin again is cut right. The patterns of the run do not begin
  with a group, which could begin anywhere, and have none side by side.
- `VectorExact` (`StartsOnce`): where a group starts in a state that loops, the scan byte by
  byte starts it with every byte and a vector label once (`executor.cpp:248`, `1030`).
- `VectorExact`, `FrameExact` (`NeedlesPlain`): the walk along a chain does not
  stop where no character leads on (`vfa.cpp:41-60`, `N` is 0), as behind `bb` in
  `a|c|c.*bb`, whose automaton then never dies. It appends a NUL to the needle, takes the dead
  state for its sink and drops the accepting states of the chain. The needle is not found
  where its text is, but in the padding where the text ends a buffer: of `cbb` the vector
  scan makes a row, which the byte-by-byte scan does not; and so does each partition that
  ends in `bb`. At the real sizes it takes a literal of three characters, as in `c.*bbb`.
  `Faultless` has the premise because it speaks of the numbers in the rows of the whole scan;
  `RowsExtract` and `MatchKept` are about the byte-by-byte scan and need none.
- `BuffersExact`, `FrameExact`, `Faultless`: the last byte of the file is never read, and if
  it is a partition of its own (`LastByteAlone`) the deleted buffer is scanned
  (`ios.cpp:18`). With a match across a boundary (`whole` is false) rows are lost, repeated
  or read at indices of the old partition: `preExec` assigns `size` to its parameter
  (`executor.cpp:927`), leaves the match it found to a scan that starts behind it, and
  nothing reads `prevData`. A number longer than its buffer is copied all the same
  (`LongNumber`); sub-matches are not initialised before the first partition.
- `FrameExact` compares rows all of whose groups took part: a group that did not has no
  column, and those behind it shift (`executor.cpp:830`).
- `ColumnsExact`: for a second table of a FROM list the vector of group keys is twice as
  long (`query.hpp:131`), which makes the executor print nothing, and a column the table
  lacks keeps the id of the table before. The FROM list is run from its end; a file name
  without a dot is a grammar error.
- `FaultsExplained`: a key that does not parse, a table nobody declared, a group key or an
  order key the table lacks, and a native call without a declaration bring the program
  down before a scan (`command.cpp:57-97`). A run is recorded in `Command`; the exceptions
  and NULLs of the executor (`executor.cpp:623`, `744`) are faults of `QueryExec`.

### Fairness

`Executor!Spec`, `Scan!Spec`, `SparkScan!Spec` and `QueryExec!Spec` assume weak fairness of
the whole next-state relation: they are one thread that never blocks or waits, so it takes
a step whenever it has one. `HashTable!Spec` is fair to the steps inside a call only
(`Step`): nobody has to call. `Command!Spec` is fair to the loop over the FROM list
(`Tables`): nobody has to type a line, but a query that was typed is executed. The liveness
properties that rest on this are `Terminates`, `IexecEnds`, both `QueryEnds` and
`CallEnds`; a fault counts as an end, and the safety properties say when one is met. The
parsers and `MatchDfa` need no fairness.
`CHECK_DEADLOCK FALSE` is given where a behaviour ends: the pattern is complete, the text
is at its bound, the scan or the session is done.

## 4. Reading the properties

- `ThompsonShape`: the shape on which the other builders rely, nothing enters the initial
  state and nothing leaves the accepting one.
- `LanguageExact` compares the words of length at most `MaxLen` computed from the
  transitions with the language computed from the expression, for every subpattern on
  the stack; `GroupsInPlace` compares the words that lead to a group's first state with the
  words after which the expression lets the group begin.
- `RowsExtract` asks for a way to cut the matched text into the parts of the pattern such
  that every part is in its language, and, if in some such way no group could begin again
  behind its start, for one in which every group's range is its part.
- `MatchKept` excludes that an attempt that failed swallows a match.
- `RowsInBuffer`, `RowsInOrder`: what `queryExec` is handed.
- `GroupsExact` holds in the middle of a row too: a context whose turn has come has the
  row, the others have not (`Done`), and a group is in a table exactly if a function that
  fills this table has seen it.
- `Implements` is the refinement of `SqlQuery`, whose `answered` is the set of groups the
  printing iterator has passed; it allows any step when the query is not in `Answered`,
  which depends on the rows read so far (an average of no rows, a negative integer).
- `WhereExact` compares the rows `evalCond` accepts with those the clause's list of
  conditions selects when AND binds tighter than OR, computed without any tree.
- `FrameExact` compares what Spark reads in a column, through the word and the offset it
  finds there, with the text of the group in the scan of the whole file. `whole` is a
  history variable: no boundary so far left more behind than the state of the automaton
  (`Clean`).
- `HashTable!Implements` takes as the contents of the map what is in the array, what a
  rehash has still to insert and the entry in hand, without the key of the call until it
  is settled (`Contents`).
- `RunsExact`, `ColumnsExact` and `TreeTypesExact` are stated by the lines of the session
  alone: `DeclaredAs` finds the first sound declaration of a name without the map of
  tables, `IsColumn` and `TypeIn` find a column's group without `KeyMap`. The trees are columns and
  aggregates of columns; a constant in a tree has its type in `QueryTree`.

## 5. What is proved

`ExecutorProofs` proves of `Executor`, for every automaton with the shape `IsAutomaton`,
every buffer and every register width (`ExecutorAssumption`: `VecBytes` positive, NUL a
byte, every input an automaton and a sequence of bytes):

| Theorem | States |
|---|---|
| `Invariance` | `Spec => []IInv` |
| `TypeCorrect` | `Spec => []TypeOK`; with `i <= size + VecBytes - 1` |
| `RowsCorrect` | `Spec => []RowsInBuffer` |
| `RowsOrdered` | `Spec => []RowsInOrder` |
| `ContextCorrect` | `Spec => []ContextInv` |

`RowsInBuffer` is not inductive: a row is put together from the recent accepting index
and from group ranges that were noted many turns earlier. `ContextInv` says of each of
these that it lies between `Resumed`, one byte behind the last row's match, and `Limit`,
the byte the scan stands at (one further, where the automaton lives). The off-by-one in
`Limit` is essential: in the dead state the byte that killed the automaton has been read,
so what is remembered is strictly before `i`, and a row ends before the last byte. The
same bounds give the order of rows.

The proof splits `IInv` into the state of the scan and the rows (`ScanOK`, `RowsOK`) and
proves for the pieces a step computes (the kept or reset context, the end of a group, the
accepting state noted) that they are within bounds; then there is one lemma for each
action (`EnterOK`, ..., `EmitOK`), of which only `EmitOK` touches the rows. `NextOK`
collects them.

`HashTableProofs` proves of `HashTable`, for every set of keys, every set of hash functions
and of sizes (`TableAssumption`: a hash picks one of the buckets, `min_lookups` is at least
3; nothing is assumed of how the keys are spread):

| Theorem | States |
|---|---|
| `Invariance` | `Spec => []IInv` |
| `TypeCorrect` | `Spec => []TypeOK`; no step reads or writes outside the array |
| `FindCorrect` | `Spec => []FindExact` |
| `CountCorrect` | `Spec => []CountExact` |
| `Refinement` | `Spec => Map!Spec`: the hash map implements `KeySet` |

That a probe finds every key rests on the order of the distances (`OrderedBut`), which does
not hold in the middle of an operation. Three conjuncts say how it is broken there: while
`erase` closes the gap, the order holds of all positions but the hole, which is where
`current_entry` stands (`ShiftOK`); while an entry moves on, it holds of the array, and the
entry in hand may take the place the loop has reached (`HandOK`), which is what keeps the
order when it is put there, and why it is nowhere else; and a rehash holds keys that are in
no array, of which none may be in the table already (`PendingOK`), or a later `emplace`
would find it and lose the count. `EmptyOK` is needed for the array all empty maps share:
its capacity of no buckets would else not bound what is in it. The bound of the probes
follows from `Homed`: a distance never reaches `max_lookups`, so a probe stops at the
sentinel at the latest, which nothing overwrites.

The lemmas `StopOK` and `FoundIsStored` state what a probe does under the invariant,
`PutOK` and `PutOut` what putting an entry somewhere does to it and to the entry put out,
`RehashOK` what growing keeps; then there is one lemma for each action, each of which also
says what happens to `Contents`. `Refinement` collects these: an action leaves the contents
alone but the one that settles the key of the call, `Erase` and `Clear`.

`QueryExecProofs` proves of `QueryExec`, for every set of rows, every query, limit and
number of rows (`QueryAssumption`: rows have a value for every key, numbers where the key is
one, and a query's lists are those the grammar derives; `QueryExecAssumption`: no sum of a
column over the rows of a file, nor one row's value, reaches `Lowest` or `Largest`, the ends
of the range of an `int64_t` or a `double`, which MAX and MIN start from, and no sum that the
code computes with doubles, of a DOUBLE or, without GROUP BY, of an INT that is never
negative, exceeds `Exact`, 2^53):

| Theorem | States |
|---|---|
| `Invariance` | `Spec => []IInv` |
| `TypeCorrect` | `Spec => []TypeOK` |
| `GroupsAreExact` | `Spec => []GroupsExact` |
| `CellsAreExact` | `Spec => []CellsExact` |
| `Refinement` | `Spec => Implements`: the executor implements `SqlQuery` |

`GroupsExact` and `CellsExact` say what the tables hold at every turn of an aggregation
loop, as far as it has come; they follow from each other's steps only together with
`LoopInv`, which says that a loop runs for a row that was selected, and that which of the
two loops runs agrees with the GROUP BY. `OutInv` counts: `count` the selected rows, `out`
the lines a projection may print, or one line for each group the iterator has passed,
which does not move before the end of the data; the refinement needs it to map the printed
lines. The run `query` checks three of the five conjuncts; the whole of `IInv` holds on the
same instance. What a table holds is stated by the recursive
functions of `Query` (`Total`, `Among`) over the rows read; the lemmas of their one-step
equations and of how a row changes them use `SetInduction`. For the refinement
`AvgDoesNotThrow` shows that the count table has every group the value table has,
`AllGroups` that the groups printed are those of the rows, `TotalLineCorrect` and
`GroupLineCorrect` that a printed line is the one `SqlQuery` asks for; `RefinesRead`,
`RefinesLoops`, `RefinesPrint` and `RefinesEnd` show for each action which step of
`SqlQuery` it is, or that it is none.

`CommandProofs` proves of `Command`, for all names, declarations, queries and any number of
lines (`CommandAssumption`: what the constants declared are):

| Theorem | States |
|---|---|
| `RunsAreExact` | `Spec => []RunsExact` |
| `ColumnsAreExact` | `Spec => []ColumnsExact` |
| `TreeTypesAreExact` | `Spec => []TreeTypesExact` |
| `FaultsAreExplained` | `Spec => []FaultsExplained` |

The first three are not inductive: they speak of the runs of a query, which were made from
the map of tables and the context that the run before left. `TablesDeclared` ties the map to
the log of lines, each table to the first sound declaration of its name (`OneMoreLine`: a
line adds a declaration only where there is none); `TodoIs` ties the tables still to run,
and what the context still owes (its lists of keys are empty before the first table only),
to the query in hand; `RunsAre` says of each run what it was given, in words of the log.
`KeysMapped` and `TreeMapped` are the lemmas on `mapping`; they rest on `FlattenSeqType` of
`SetInduction`, since the groups of a table are those of its patterns, one list after the
other.

`RegexProofs` proves of `RegexParser`, for every alphabet, every set of bracket expressions,
keywords, names and repetition counts and patterns of any length (`CharsAssumption`,
`ParserAssumption`: the codes are bytes below 128, a bracket expression consists of codes, a
repetition count is positive):

| Theorem | States |
|---|---|
| `Invariance` | `Spec => []Inv`: every value on the stack is of a grammar category and `Sound` |
| `TypeCorrect` | `Spec => []TypeOK` |
| `ShapeCorrect` | `Spec => []ThompsonShape` |

`Sound` is `Thompson`, typed, with every group starting at one of the automaton's states;
there is one lemma for each builder (`StepSound`, `ConcatSound`, `UnionSound`, `StarSound`,
`PlusSound`, `NumSound`, `SubmatchSound`, `KeywordSound`), and one for each kind of
reduction. The copies of `{n}` are the only place with arithmetic in it: `InCopy` says that
the copies lie one behind the other.

`LanguageProofs` goes on from there, under the same assumptions, to what the automata
accept, for words of any length:

| Theorem | States |
|---|---|
| `Faithfulness` | `Spec => [](Inv /\ LInv)` |
| `LanguageCorrect` | `Spec => []LanguageExact` |
| `SearchCorrect` | `Spec => []SearchExact` |
| `GroupsCorrect` | `Spec => []GroupsInPlace` |

The properties speak of words up to `MaxLen`, computed from sets of states. This is not what
the induction over the reductions is about: a word of a concatenation within the bound says
nothing unless both halves are known, and a set of states does not survive renumbering.
`Before(n, q)` therefore is the unbounded set of texts that lead to a state `q`, as the
least family of sets, one for each state, that has the empty text in the initial state and
follows every transition. A least family needs no induction over paths: that an automaton
reads no more than it should is shown by naming a family that follows it. `Embedded` says
what every gluing does to an operand (renumbered by `k` and entered after the texts of `L`,
it reads what it read, after them), and for each builder there is one lemma that gives
`Before` of all its states (`ConcatReads`, `UnionReads`, `StarReads`, `SelectReads`,
`NumReads`). These are where the shape of a Thompson automaton is needed: were the initial
state entered from inside or the accepting one left, the family named for a star or a union
would not follow it.

From there three steps lead to the properties. `CatOf`, `StarOf` and `PowerOf` show that the
reference languages, which cut at the bound after every operation, are the cut of the
unbounded ones; `StarOf` needs that a word of length `MaxLen` has no more than `MaxLen`
factors once the empty ones are left out. `ExactConcat`, ..., `ExactKeyword` and
`GroupsConcat`, ..., `GroupsKeyword` put the two together for each builder. And
`WordsToExact` shows that the words the model computes are `Before` up to the bound:
`ClosureExact`, that the closure is complete after as many rounds as there are states, since
each round that adds something makes the set larger, and `MoveExact`, that the sets of
states are those the texts lead to. The invariant `LInv` says that the language and the
groups of each value of the stack are those of its automaton in terms of `Before`. TLC cannot evaluate
`LInv`, as it speaks of infinite sets; by `Computed` it is what the run `parser` checks as
`LanguageExact` and `GroupsInPlace`, with the count of values on a complete pattern.

`SparkProofs` proves of `SparkScan`, for every automaton, schema, file, length of the sample,
size of partitions, room for a text and register width (`SparkAssumption`: the automata are
tables of states as `setFA` holds them, with one pattern type for each group; what a fresh
sub-match holds is any number):

| Theorem | States |
|---|---|
| `Invariance` | `Spec => []Inv` |
| `BuffersAreExact` | `Spec => []BuffersExact` |
| `RowsAlwaysFit` | `Spec => []RowsFit` |
| `ScansAgree` | `Spec => [](Inv /\ (NeedlesPlain => WholeInv /\ PartsInv))` |
| `FrameIsExact` | `Spec => []FrameExact` |
| `NeverFaults` | `Spec => []Faultless` |

`BuffersExact` needs to know that the count of the stream, its descriptor and the runtime's
partition stay together (`IoInv`): at the start of each turn both stand where the partition
begins, and while it is scanned where the next begins, unless it is the last. Three things
make this delicate. The sample was read before, by the same two counters, which `seek` puts
back. `readFile` drops the last byte of the file, so that after the last partition the count
is one short; this must not be needed any more. And a buffer that was deleted because there
was nothing to read must be the last one, or the next read deletes it again:
`ReadPartitionIo` shows that this happens only where the last partition is a single byte.
The arithmetic is in `Cut` (all partitions but the last are full) and `Sizes`. The first
attempt at it failed for partitions of one byte, where a former `LastByteAlone`, written
with `Len(file) % PartitionSize = 1`, missed the case. `PieceSeen` puts the pieces and the
padding together to what the scan of the whole file sees.

`RowsFit` must hold of ranges that nothing bounds: one partition leaves indices to the next,
and a group may end before it starts. `Typed` says no more of a range than that its ends are
whole numbers, and is preserved by each action of the scan (`EnterTyped`, ...,
`EmitTyped`); `TextFits` shows that the size of a text is cut to its room also where the
difference wraps, and `RoomFor` that the room counted by `ti` is one that
`constructSparkSchema` reserved. `StoredFits` concludes for a row.

`FrameExact` compares two scans that do not run in step: a window of the one ends where
nothing happens in the other, the rows of the one are found in a partition's indices, and the
scan of the whole file is done before the first partition is read. What both have in common
are the bytes that matter: in a state with a needle the byte it begins at, in a state with a
set the next byte that leaves it, in any other state the next byte. Between two such
*events* nothing changes but the index. A *point* is what a scan knows after an event, with
the indices of the file; `After` gives the point an event leads to, and the points that are
`Reached` from the first one are a single sequence (`ReachedLast`), which depends on the
automaton and the file only. So it is enough to show of each scan by itself that it stays on
this sequence:

- `ScanIsTurn` and `WholeIsTurn` say that every step of the loop, of either scan, is one of
  eight turns, stated by what the turn does and not by how a `cmpestri` finds it. This is
  where the lengths of the windows, the padding and the indices the instructions return are
  dealt with (`OrdIndex`, `SetIndex`).
- `TurnAt` says that a turn goes to the next point or stays at the point (`Anchored`). A
  needle that reaches over the end of the data is the one event a scan may have passed.
- `EndsAtRest` says that a partition that ends `Clean` has passed no event
  (`NeedleIsCut`) and leaves nothing behind but the state, so that the next one begins at the
  same point (`BeginsAt`), even if it then enters the window of a state in the middle of the
  bytes the state dwells on.
- `RowShown` says that what is stored of a row with indices into the partition is what
  Spark is to see of the row with indices into the file. `PlacesApart` is needed for it: the
  texts of two columns lie at different offsets, so the one does not replace the other.
- At the end of the file no event is left (`EndOfFile`), both scans are at the last point,
  and the rows are the same.

That no needle holds a NUL (`NeedlesPlain`) is used where a window reaches into the padding:
such a needle would be found there, and the padding is not at the same place for both scans.
It had first been taken for a property of every pattern; the attempt to justify it found the
patterns for which it is false (section 3).

`PartsInv` says this of the partitions as long as `whole` holds; what it says of `fault` gives
`Faultless`. Its conjunct `part > 0 => MatchesBounded` (`InPart`) is about memory that was not
clean: a fresh sub-match is not reset before the first event, so that a group may start
behind the end of the data in a file of one partition without any event, and nowhere else.
`PartsInv` quantifies over all sequences of points, so TLC
cannot evaluate it; what it is for, `FrameExact` and `Faultless`, the run `spark` checks.

`SetInduction` has induction over the natural numbers as a statement about sets of numbers
(`Induction`), since the library's theorems take an operator, which the provers cannot
instantiate; from it `Recursion`: what is computed from a first value by one step per number
exists and stays within its type. It also has what is needed of lists whose elements have no
common type (`IsList`).

Only model-checked: everything that is built on `DfaGen`, `DfaMerge`, `Vfa` and `QueryTree`,
which use recursive operators (the prover's back ends cannot use them, in whatever module
they are reached from): the match of the merged automaton (`FirstMatchExact`,
`GroupStartExact`, `GroupOpenExact`), the equivalence of the scan with needles and windows
and the one without (`VectorExact`, `RowsExtract`, `MatchKept`), the parser of queries and
the trees of a WHERE clause (`ValuesExact`, `WhereExact`); and every liveness property
(`Terminates`, `IexecEnds`, `QueryEnds`, `CallEnds`), since fairness and `ENABLED` are
out of the prover's reach.

## 6. What is left out

- Patterns that match the empty string: `merge` starts them in a sticky state and
  `createStateMap` and `createTransTable` then disagree on the numbers of rows; the model
  would be of undefined contents. `MatchDfa!Construct` and the patterns of `MCScan` exclude
  them.
- Bytes above 127 (`setTransTable` reads 256 entries of a table of 128), automata of 256
  states and more (`ST_TYPE` is `uint8_t`), two groups of one name (their ids then exceed
  the arrays), 64 groups and more.
- A sequence of code points is a sequence of small numbers; escapes of the lexer and the
  printed form of a pattern are not modelled.
- Queries: DIV, IS NULL, BETWEEN of three constants (its operands are deleted twice),
  text on the left of a comparison with a constant or in an order, ORDER BY (parsed, then
  ignored), arithmetic in a SELECT list, keys the table does not have. DOUBLE values are
  whole numbers, and sums of doubles stay within 2^53 (`Exact`), so that they do not round;
  integers do not overflow. The 64 bytes a text
  comparison loads beyond the padding are taken for zeros.
- Files that cannot be opened and reads that fail or come short (`readFile` tests neither);
  the values of DOUBLE columns in a data frame (their texts are kept); more than 64
  columns; tables of more than one FROM entry in Spark beyond what `Command` records.
- Of the hash map: erasing a range, copying, moving, swapping, `reserve` and
  `shrink_to_fit`, other hash policies: nothing uses them. A rehash takes the entries of
  the old array in their order; the model in any, which includes it. Sizes are bounded by
  the largest in `Sizes`, which is never outgrown in the run (`CallEnds` would fail).
- The characters of a command: a line is a sequence of words with their kind.
- A group that takes no part in a match, in a query: the rows of `QueryExec` have a value
  for every key.
- Not modelled at all, since the program does not contain or never calls them: the code
  generator and the vectorised query executor, the optimizer, the character codes, the
  other two hash maps, the tools and data sets.

## 7. What could follow

The plan of this project is done but for these:

1. The executor's rows with groups that took no part, in a query.
2. Patterns that match the empty string, once it is decided what `merge` should make of
   them.

------------------------------ MODULE Command ------------------------------
(***************************************************************************)
(* CommandExecutor (src/src/command.cpp): the shell's loop and the calls   *)
(* of the Spark bridge.  A .scan line declares a table: a file and the     *)
(* pattern, or the keys, its rows are read with.  A query names tables;    *)
(* for each of them its columns are mapped to the groups of the pattern    *)
(* and a Runtime is built and run.  Compile and Scan say what such a run   *)
(* does; here it is recorded with all it is given.                         *)
(*                                                                         *)
(* A line is split into words.  Patterns and names are opaque: what        *)
(* RegexParser finds in a pattern is given by GroupsOf.                    *)
(***************************************************************************)
EXTENDS Integers, SequencesExt

CONSTANTS
    Lines,      \* the lines that are typed: [words, query]
    Names,      \* the names in them, of files and tables
    Dotted,     \* those with a dot
    Patterns,   \* the patterns in them
    GroupsOf,   \* each pattern that parses -> its groups, nfa->subms
    Columns,    \* the names of groups, and of columns in queries
    Declarations, \* the tables that the lines of .scan declare
    MaxLines,   \* bound: lines in a session
    NULL,
    Unset,      \* a field of an OpTree that nothing was assigned to
    NoQuery     \* what QueryParser cannot parse

\* The shell, or a call from Spark with a command and a query.
Modes == {"shell", "native"}

----------------------------------------------------------------------------
\* What is typed.

\* The text of a keyword, and of what is not given.
NoText == ""

Keywords == {".scan", "-t", "-e", "-k", "[", "]", "comma", "sql"}

\* A word of a line: what the lexer tells apart, and the text of the rest.
Words == [kind : Keywords, text : {NoText}] \cup [kind : {"name"}, text : Names]
             \cup [kind : {"pattern"}, text : Patterns]

KeyTypes == {"INT", "DOUBLE", "TEXT"}
Groups   == [name : Columns, type : KeyTypes]
Nodes    == [ftype : {"NONE", "DISTINCT", "COUNT", "SUM", "AVG", "MAX", "MIN"}, varKey : Columns]

IsQuery(q) == /\ q.tables \in Seq(Names)
              /\ q.trees \in Seq(Seq(Nodes))
              /\ q.gKeys \in Seq(Columns) /\ q.oKeys \in Seq(Columns)

----------------------------------------------------------------------------
\* The lexer and the grammar of a .scan line, and CommandContext.

\* A name without a dot matches two rules of one length; the first one wins.
Token(w) == IF w.kind # "name" THEN w.kind
            ELSE IF w.text \in Dotted THEN "filename" ELSE "identifier"
Tokens(words) == [i \in DOMAIN words |-> Token(words[i])]

IsTablename(ws) == Tokens(ws) = <<"-t", "identifier">>
IsExp(ws)  == Tokens(ws) = <<"-e", "pattern">>
IsKeys(ws) ==
    \E n \in 1..Len(ws) :
        /\ Len(ws) = 2 * n + 2
        /\ Token(ws[1]) = "-k" /\ Token(ws[2]) = "[" /\ Token(ws[2 * n + 2]) = "]"
        /\ \A k \in 1..n : Token(ws[2 * k + 1]) = "pattern"
        /\ \A k \in 2..n : Token(ws[2 * k]) = "comma"
IsExpression(ws) == IsExp(ws) \/ IsKeys(ws)

\* arguments, split into the tablename and the expression in either order.
Arguments(ws) ==
    {[t |-> SubSeq(ws, 1, 2), e |-> SubSeq(ws, 3, Len(ws))],
     [t |-> SubSeq(ws, Len(ws) - 1, Len(ws)), e |-> SubSeq(ws, 1, Len(ws) - 2)]}
IsArguments(a) == IsTablename(a.t) /\ IsExpression(a.e)

\* buildPatterns and buildIdents put a new element in front of the list.
Build(list, x) == <<x>> \o list
BuildList(xs) ==
    LET built[n \in 0..Len(xs)] == IF n = 0 THEN <<>> ELSE Build(built[n - 1], xs[n])
    IN  built[Len(xs)]

\* assignKeys: over a stack, which turns the list around again.
AssignKeys(slist) == Reverse(slist)

\* The patterns of a list of keys, between its commas.
KeyPatterns(ws) == [n \in 1..(Len(ws) - 2) \div 2 |-> ws[2 * n + 1].text]

CommandContext(file, a) ==
    [mode |-> "SCAN", filename |-> file, tablename |-> a.t[2].text,
     keys |-> IF IsKeys(a.e) THEN AssignKeys(BuildList(KeyPatterns(a.e))) ELSE <<>>,
     pattern |-> IF IsExp(a.e) THEN a.e[2].text ELSE NoText]

\* CommandParser::parse: NULL when the words are no command.
ParseScan(ws) ==
    LET split == {a \in Arguments(SubSeq(ws, 3, Len(ws))) : IsArguments(a)}
    IN  IF Len(ws) >= 6 /\ Token(ws[2]) = "filename" /\ split # {}
        THEN CommandContext(ws[2].text, CHOOSE a \in split : TRUE)
        ELSE NULL

\* parseCommand: a line that does not start with .scan is a query.
ParseCommand(line) ==
    IF Len(line.words) < 2 THEN NULL
    ELSE IF line.words[1].kind = ".scan" THEN ParseScan(line.words)
    ELSE [mode |-> "EXEC", query |-> line.query, keys |-> <<>>, pattern |-> NoText]

Parses(pattern) == pattern \in DOMAIN GroupsOf
IsScanByKeys(c) == c.keys # <<>>
PatternsOf(c)   == IF IsScanByKeys(c) THEN c.keys ELSE <<c.pattern>>

----------------------------------------------------------------------------
\* What a line of .scan means.

\* The words a table is declared with, in both orders.
Word(kind, text) == [kind |-> kind, text |-> text]
KeyWords(ps) ==
    [n \in 1..2 * Len(ps) |-> IF n % 2 = 0 THEN Word("pattern", ps[n \div 2])
                              ELSE Word(IF n = 1 THEN "[" ELSE "comma", NoText)]
NamedWords(d) == <<Word("-t", NoText), Word("name", d.name)>>
RowWords(d) ==
    IF d.isKeys THEN <<Word("-k", NoText)>> \o KeyWords(d.patterns) \o <<Word("]", NoText)>>
    ELSE <<Word("-e", NoText), Word("pattern", d.patterns[1])>>
Sentences(d) ==
    LET start == <<Word(".scan", NoText), Word("name", d.filename)>>
    IN  {start \o NamedWords(d) \o RowWords(d), start \o RowWords(d) \o NamedWords(d)}

\* A table can be declared by n patterns.
AllDeclarations(n) ==
    {d \in [name : Names \ Dotted, filename : Names \cap Dotted,
            patterns : UNION {[1..k -> Patterns] : k \in 1..n}, isKeys : BOOLEAN] :
        d.isKeys \/ Len(d.patterns) = 1}

\* A line is long enough for so many.
PatternsIn(l) == (Len(l.words) - 4) \div 2

Declared(l) == {d \in Declarations : l.words \in Sentences(d)}
Sound(d) == \A i \in DOMAIN d.patterns : Parses(d.patterns[i])

\* The empty pattern does not parse, NULL is no command.
ASSUME CommandAssumption ==
    /\ NoText \notin DOMAIN GroupsOf
    /\ \A p \in DOMAIN GroupsOf : GroupsOf[p] \in Seq(Groups)
    /\ \A l \in Lines : l.words \in Seq(Words) /\ (l.query = NoQuery \/ IsQuery(l.query))
    /\ \A d \in Declarations : d \in AllDeclarations(Len(d.patterns))
    /\ \A l \in Lines : \A d \in AllDeclarations(PatternsIn(l)) :
            l.words \in Sentences(d) => d \in Declarations
    /\ NULL \notin [mode : {"SCAN"}, filename : Names, tablename : Names,
                     keys : Seq(Patterns), pattern : Patterns \cup {NoText}]
    /\ \A l \in Lines : NULL # [mode |-> "EXEC", query |-> l.query, keys |-> <<>>, pattern |-> NoText]
    /\ Unset \notin KeyTypes

----------------------------------------------------------------------------
\* KeyMap and Table.

\* addKey: map::insert keeps the first of two groups with one name; the id is
\* the place in the list of all groups.
KeyMap(groups) ==
    [name \in {groups[i].name : i \in DOMAIN groups} |->
        LET first == SelectInSeq(groups, LAMBDA g : g.name = name)
        IN  [id |-> first - 1, type |-> groups[first].type]]

Table(c) == [filename |-> c.filename, patterns |-> PatternsOf(c), isKeys |-> IsScanByKeys(c),
             keyMap |-> KeyMap(FlattenSeq([i \in DOMAIN PatternsOf(c) |-> GroupsOf[PatternsOf(c)[i]]]))]

\* Mutant: the second scan of a table takes the place of the first.
InsertReplaces(tables, name, table) ==
    [n \in DOMAIN tables \cup {name} |-> IF n = name THEN table ELSE tables[n]]

\* tableMap.insert
Insert(tables, name, table) ==
    [n \in DOMAIN tables \cup {name} |-> IF n \in DOMAIN tables THEN tables[n] ELSE table]

----------------------------------------------------------------------------
\* QueryContext.  A tree is the VAR and AGGFUNC nodes of a statement or of a
\* predicate, in the order of a breadth-first walk.

UnsetTree(tree) == [n \in DOMAIN tree |-> [id |-> Unset, type |-> Unset]]

NewQuery(q) == [tables |-> BuildList(q.tables),
                trees  |-> q.trees,
                vars   |-> [i \in DOMAIN q.trees |-> UnsetTree(q.trees[i])],
                gKeys  |-> BuildList(q.gKeys), gKeyVec |-> <<>>,
                oKeys  |-> BuildList(q.oKeys), oKeyVec |-> <<>>]

NodeType(node, key) == IF node.ftype = "COUNT" THEN "INT" ELSE key.type

\* Mutant: a node that has an id is not looked up again.
MapNodeOnce(node, var, keyMap) ==
    IF var.id # Unset THEN var
    ELSE [id |-> keyMap[node.varKey].id, type |-> NodeType(node, keyMap[node.varKey])]

MapNode(node, var, keyMap) ==
    [id |-> keyMap[node.varKey].id, type |-> NodeType(node, keyMap[node.varKey])]

\* mapOpTree: the walk returns at the first column the table does not have,
\* and leaves the rest of the tree as it was.
MapOpTree(tree, vars, keyMap) ==
    LET unknown(n) == tree[n].varKey \notin DOMAIN keyMap
    IN  [n \in DOMAIN tree |-> IF \E k \in 1..n : unknown(k) THEN vars[n]
                               ELSE MapNode(tree[n], vars[n], keyMap)]

\* Mutant: DOUBLE is lost when it comes first.
CombineLast(lt, rt) == rt

\* addTypeOp, for the operands of a tree from left to right.
Combine(lt, rt) ==
    CASE lt = rt -> lt
      [] {lt, rt} = {"INT", "DOUBLE"} -> "DOUBLE"
      [] OTHER -> "INVALID"
TreeType(vars) ==
    LET combined[n \in 1..Len(vars)] ==
            IF n = 1 THEN vars[1].type ELSE Combine(combined[n - 1], vars[n].type)
    IN  IF vars = <<>> \/ \E n \in DOMAIN vars : vars[n].type = Unset THEN Unset
        ELSE combined[Len(vars)]

KnowsAll(keyMap, names) == \A i \in DOMAIN names : names[i] \in DOMAIN keyMap
KeysAt(keyMap, names)   == [i \in DOMAIN names |-> keyMap[names[i]].id]

\* mapping: at() throws for a column that is not there, which nothing catches.
Mapping(q, keyMap) ==
    [q EXCEPT !.vars = [i \in DOMAIN q.trees |-> MapOpTree(q.trees[i], q.vars[i], keyMap)],
              !.gKeyVec = @ \o KeysAt(keyMap, q.gKeys),
              !.oKeyVec = @ \o KeysAt(keyMap, q.oKeys)]

----------------------------------------------------------------------------
VARIABLES mode,      \* shell or native
          pc,        \* read, query, tables, fault or exit
          tableMap,  \* name -> Table
          line,      \* the line that is being executed
          log,       \* the .scan lines this executor was given
          count,     \* the lines read
          ctx,       \* the query that is being executed
          todo,      \* tbn: the rest of its FROM list
          runs       \* the Runtimes built and run for it

vars == <<mode, pc, tableMap, line, log, count, ctx, todo, runs>>

NoLine == [words |-> <<>>, query |-> NoQuery]

Init == /\ mode \in Modes
        /\ pc = "read"
        /\ tableMap = <<>>
        /\ line = NoLine
        /\ log = <<>>
        /\ count = 0
        /\ ctx = NULL
        /\ todo = <<>>
        /\ runs = <<>>

\* A line is read; whatever it is, the runs of the one before are over.
Read(l) == /\ count < MaxLines
           /\ count' = count + 1
           /\ line' = l
           /\ runs' = <<>>

\* Mutant: a pattern that does not parse is not noticed.
NoPatternNever(c) == FALSE

\* NULL is tested for a single pattern, and for no key.
NoPattern(c) == ~IsScanByKeys(c) /\ ~Parses(c.pattern)
CrashesOn(c) == ~NoPattern(c) /\ \E i \in DOMAIN PatternsOf(c) : ~Parses(PatternsOf(c)[i])

\* The SCAN branch of execCommand, and execScan.
ScanTable(c, tables, next) ==
    /\ pc' = IF CrashesOn(c) THEN "fault" ELSE next
    /\ tableMap' = IF NoPattern(c) \/ CrashesOn(c) THEN tables
                   ELSE Insert(tables, c.tablename, Table(c))

\* exec: no command.
Reenter(l) ==
    /\ mode = "shell" /\ pc = "read"
    /\ ParseCommand(l) = NULL
    /\ Read(l)
    /\ log' = Append(log, l)
    /\ UNCHANGED <<mode, pc, tableMap, ctx, todo>>

Scan(l) ==
    LET c == ParseCommand(l)
    IN  /\ mode = "shell" /\ pc = "read"
        /\ c # NULL /\ c.mode = "SCAN"
        /\ Read(l)
        /\ log' = Append(log, l)
        /\ ScanTable(c, tableMap, "read")
        /\ UNCHANGED <<mode, ctx, todo>>

\* qparser->parse, and the loop's first table.
StartQuery(q) ==
    IF q = NoQuery THEN pc' = "read" /\ UNCHANGED <<ctx, todo>>
    ELSE /\ ctx' = NewQuery(q)
         /\ todo' = NewQuery(q).tables
         /\ pc' = "tables"

Exec(l) ==
    LET c == ParseCommand(l)
    IN  /\ mode = "shell" /\ pc = "read"
        /\ c # NULL /\ c.mode = "EXEC"
        /\ Read(l)
        /\ StartQuery(c.query)
        /\ UNCHANGED <<mode, tableMap, log>>

\* VlexNative.parse: a new executor, execScan of whatever the command was, and
\* execWithSpark.  A command that does not parse is not tested for NULL; one
\* that is no .scan has the empty pattern, which does not parse.
NativeScan(l) ==
    LET c == ParseCommand(l)
    IN  /\ mode = "native" /\ pc = "read"
        /\ Read(l)
        /\ log' = <<l>>
        /\ IF c = NULL THEN pc' = "fault" /\ tableMap' = <<>>
           ELSE ScanTable(c, <<>>, "query")
        /\ UNCHANGED <<mode, ctx, todo>>

NativeQuery(l) ==
    /\ mode = "native" /\ pc = "query"
    /\ Read(l)
    /\ StartQuery(l.query)
    /\ UNCHANGED <<mode, tableMap, log>>

\* find has a table, and at() has the columns that QueryContext asks it for.
CanMap(name) == /\ name \in DOMAIN tableMap
                /\ KnowsAll(tableMap[name].keyMap, ctx.gKeys)
                /\ KnowsAll(tableMap[name].keyMap, ctx.oKeys)

\* tbn = tbn->next
NextTable(list) == Tail(list)

Run(name, q) == [table |-> name, filename |-> tableMap[name].filename,
                 patterns |-> tableMap[name].patterns, isKeys |-> tableMap[name].isKeys,
                 vars |-> q.vars, types |-> [i \in DOMAIN q.vars |-> TreeType(q.vars[i])],
                 gKeyVec |-> q.gKeyVec, oKeyVec |-> q.oKeyVec]

\* The body of the loop over the FROM list: the columns are mapped, the
\* Runtime of the table is built and run.
RunTable ==
    /\ pc = "tables" /\ todo # <<>>
    /\ CanMap(Head(todo))
    /\ LET q == Mapping(ctx, tableMap[Head(todo)].keyMap)
       IN  /\ ctx' = q
           /\ runs' = Append(runs, Run(Head(todo), q))
    /\ todo' = NextTable(todo)
    /\ UNCHANGED <<mode, pc, tableMap, line, log, count>>

\* Mutant: a table that is not there is waited for.
NoTableWaits == pc = "tables" /\ todo # <<>> /\ ~CanMap(Head(todo)) /\ UNCHANGED vars

\* find() is at the end and is dereferenced, or at() throws.
NoTable ==
    /\ pc = "tables" /\ todo # <<>>
    /\ ~CanMap(Head(todo))
    /\ pc' = "fault"
    /\ UNCHANGED <<mode, tableMap, line, log, count, ctx, todo, runs>>

EndQuery ==
    /\ pc = "tables" /\ todo = <<>>
    /\ pc' = "read"
    /\ UNCHANGED <<mode, tableMap, line, log, count, ctx, todo, runs>>

\* getline fails.
Quit == /\ mode = "shell" /\ pc = "read"
        /\ pc' = "exit"
        /\ UNCHANGED <<mode, tableMap, line, log, count, ctx, todo, runs>>

Tables == RunTable \/ NoTable \/ EndQuery

Next == \/ \E l \in Lines : Reenter(l) \/ Scan(l) \/ Exec(l) \/ NativeScan(l) \/ NativeQuery(l)
        \/ Tables
        \/ Quit

\* Nobody has to type, but what was typed is executed.
Spec == Init /\ [][Next]_vars /\ WF_vars(Tables)

----------------------------------------------------------------------------
\* What a session means, by the lines alone.

\* The first sound declaration of a table stays.
Declares(l, name) == {d \in Declared(l) : d.name = name /\ Sound(d)}
DeclaredAs(name) ==
    UNION {Declares(log[n], name) : n \in {k \in DOMAIN log :
                                             \A j \in 1..k - 1 : Declares(log[j], name) = {}}}

GroupsIn(d)  == FlattenSeq([i \in DOMAIN d.patterns |-> GroupsOf[d.patterns[i]]])
ColumnsIn(d) == {GroupsIn(d)[i].name : i \in DOMAIN GroupsIn(d)}

\* The group a column names: as many groups come before it as its id says.
IsColumn(d, name, id) ==
    /\ id \in 0..Len(GroupsIn(d)) - 1
    /\ GroupsIn(d)[id + 1].name = name
    /\ \A i \in 1..id : GroupsIn(d)[i].name # name
TypeIn(d, node) == IF node.ftype = "COUNT" THEN "INT"
                   ELSE GroupsIn(d)[SelectInSeq(GroupsIn(d), LAMBDA g : g.name = node.varKey)].type

Asked == line.query
FromReversed == Reverse(Asked.tables)

\* Every table of the FROM list is run once, from the last to the first, on
\* the file and with the patterns of the first declaration of its name; a
\* later one changes nothing (execCommand, buildIdents, map::insert).
RunsExact ==
    runs # <<>> =>
        /\ IsPrefix([i \in DOMAIN runs |-> runs[i].table], FromReversed)
        /\ pc = "read" => Len(runs) = Len(FromReversed)
        /\ \A i \in DOMAIN runs : \E d \in DeclaredAs(runs[i].table) :
              /\ runs[i].filename = d.filename
              /\ runs[i].patterns = d.patterns
              /\ runs[i].isKeys = d.isKeys

\* A tree whose columns the table has is mapped to the groups they name,
\* whatever the tables before it were; so are the columns of GROUP BY and
\* ORDER BY for the first table that is run (mapping, mapOpTree, KeyMap).
ColumnsExact ==
    \A i \in DOMAIN runs : \E d \in DeclaredAs(runs[i].table) :
        /\ \A t \in DOMAIN Asked.trees :
              LET tree == Asked.trees[t]
              IN  (\A n \in DOMAIN tree : tree[n].varKey \in ColumnsIn(d))
                  => \A n \in DOMAIN tree :
                        /\ IsColumn(d, tree[n].varKey, runs[i].vars[t][n].id)
                        /\ runs[i].vars[t][n].type = TypeIn(d, tree[n])
        /\ i = 1 => LET g == Reverse(Asked.gKeys)
                        o == Reverse(Asked.oKeys)
                    IN  /\ Len(runs[i].gKeyVec) = Len(g)
                        /\ Len(runs[i].oKeyVec) = Len(o)
                        /\ \A k \in DOMAIN g : IsColumn(d, g[k], runs[i].gKeyVec[k])
                        /\ \A k \in DOMAIN o : IsColumn(d, o[k], runs[i].oKeyVec[k])

\* A number only of numbers, DOUBLE when one of them is.
TypeOfAll(types) ==
    CASE types = {"TEXT"} -> "TEXT"
      [] types = {"INT"}  -> "INT"
      [] "TEXT" \in types /\ types # {"TEXT"} -> "INVALID"
      [] OTHER -> "DOUBLE"

\* The type of a tree that is mapped is decided by all its columns: a number
\* only of numbers, DOUBLE when one of them is (addTypeOp).  The trees are of
\* columns; constants are typed in QueryTree.
TreeTypesExact ==
    \A i \in DOMAIN runs : \E d \in DeclaredAs(runs[i].table) :
        \A t \in DOMAIN Asked.trees :
            LET tree  == Asked.trees[t]
                types == {TypeIn(d, tree[n]) : n \in DOMAIN tree}
            IN  (tree # <<>> /\ \A n \in DOMAIN tree : tree[n].varKey \in ColumnsIn(d))
                => runs[i].types[t] = TypeOfAll(types)

\* A session is brought down before a scan by four things only: keys of which one does not
\* parse, a query of a table nobody declared, one that groups or orders by a
\* column which a table of its FROM list lacks, and a command from Spark that
\* declares nothing.
FaultsExplained ==
    pc = "fault" =>
        \/ \E d \in Declared(line) : d.isKeys /\ ~Sound(d)
        \/ mode = "native" /\ Declared(line) = {}
        \/ /\ Asked # NoQuery
           /\ \E i \in DOMAIN Asked.tables :
                \/ DeclaredAs(Asked.tables[i]) = {}
                \/ \E d \in DeclaredAs(Asked.tables[i]) :
                      ToSet(Asked.gKeys \o Asked.oKeys) \ ColumnsIn(d) # {}

\* A query comes to its end, or the program does.
QueryEnds == pc = "tables" ~> pc \in {"read", "fault"}
=============================================================================

------------------------------- MODULE Tables -------------------------------
(***************************************************************************)
(* From rows to tables: what make and tools/container-exec.sh do with      *)
(* results.csv in one working directory.  Every run of a benchmark appends *)
(* to it, and only `make clean` removes it: rows of several builds meet.   *)
(* tools/results.py turns the rows of one kind of build into tables, or    *)
(* raises an exception.  Make has it write results.md and                  *)
(* results-extended.md, the same two files for both kinds of build, and    *)
(* takes one that is newer than results.csv to be up to date, whether the  *)
(* script that wrote it failed or not.                                     *)
(*                                                                         *)
(* A command at a time runs in the directory.  The means and deviations of *)
(* the times, the order of the entries and the wording are left out: an    *)
(* entry holds the times that are averaged.  So is a row lost to a full    *)
(* disk, for which see BuildZig.                                           *)
(***************************************************************************)
EXTENDS Integers, FiniteSets, SequencesExt

CONSTANTS
    Tests,              \* the benchmarks, in the order `run` takes them
    Iterations,         \* ITERATIONS: 7
    Untrimmed,          \* as many times are all averaged: 6
    Changes,            \* the sets of tests whose code a new build changes
    Times,              \* the times measured, row by row: their number is
                        \*   a bound on the rows
    MaxBuilds           \* the bound on the builds

\* There is a benchmark, and where two times are dropped there are two.
ASSUME TablesAssumption ==
    /\ Tests \in Seq(ToSet(Tests)) /\ Tests # <<>>
    /\ Iterations \in Nat \ {0} /\ Untrimmed \in Nat \ {0}
    /\ Changes \subseteq SUBSET ToSet(Tests)
    /\ Times \in Seq(Int) /\ MaxBuilds \in Nat

Docs == {"results.md", "results-extended.md"}
Kinds == {"Speed", "Size"}

\* OBJECT_SIZES, and defaultTestObjectSizes of build.zig.
ObjectSizes(opt) == IF opt = "Size" THEN <<2>> ELSE <<2, 4>>

\* The arguments of cp.
Files == <<"results.md", "results.csv", "results-extended.md">>

VARIABLES
    csv,                \* results.csv
    code,               \* the code size of each executable, as a number
    docs,               \* what results.py has written into each file
    fresh,              \* the files that are newer than results.csv
    copied,             \* what /opt holds of each of the files
    command,            \* the command under way or done
    pc,                 \* where it is
    iteration,          \* i of run-iterations
    next,               \* the test that `run` comes to next, or the file
                        \*   that cp does
    failed,             \* whether a test of this iteration has failed
    since,              \* ghost: the rows there were when it began
    builds              \* how many builds there were

runVars == <<iteration, next, failed>>
ghostVars == <<since, builds>>
vars == <<csv, code, docs, fresh, copied, command, pc, runVars, ghostVars>>

NoDoc == [whole |-> FALSE, opt |-> "none", tables |-> {}]

Init ==
    /\ csv = <<>>
    /\ code = [t \in ToSet(Tests) |-> 1]
    /\ docs = [d \in Docs |-> NoDoc]
    /\ fresh = {}
    /\ copied = [f \in ToSet(Files) |-> IF f \in Docs THEN NoDoc ELSE <<>>]
    /\ command = [what |-> "none", opt |-> "Speed", ok |-> TRUE]
    /\ pc = "idle"
    /\ iteration = 1 /\ next = 1 /\ failed = FALSE
    /\ since = 0 /\ builds = 0

-----------------------------------------------------------------------------
(* tools/results.py.                                                       *)

\* The benchmarks each table lists, in the plain and the extended file.
WriteTests(d) ==
    {"mpack-write", "cmp-write", "msgpack-cpp-pack", "msgpack-c-pack",
     "rapidjson-write", "yajl-gen", "jansson-dump", "libbson-append",
     "mongo-cxx-builder", "zigpak-write"} \cup
    (IF d = "results.md" THEN {} ELSE
        {"binn-write", "json-builder", "ubj-write", "ubj-opt-write",
         "mpack-tracking-write", "jansson-ordered-dump"})
TreeTests(d) ==
    {"mpack-node", "msgpack-c-unpack", "msgpack-cpp-unpack",
     "rapidjson-insitu-dom", "yajl-tree", "jansson-load", "libbson-iter",
     "mongo-cxx-obj"} \cup
    (IF d = "results.md" THEN {} ELSE
        {"binn-load", "json-parser", "mpack-utf8-node", "rapidjson-dom",
         "jansson-ordered-load", "ubj-read", "ubj-opt-read"})
IncrementalTests(d) ==
    {"mpack-read", "cmp-read", "rapidjson-insitu-sax", "yajl-parse",
     "libbson-iter", "mongo-cxx-obj", "zigpak-read"} \cup
    (IF d = "results.md" THEN {} ELSE
        {"binn-load", "mpack-utf8-read", "mpack-tracking-read",
         "rapidjson-sax"})
Hashes == {"hash-data", "hash-object"}
Listed(d) == WriteTests(d) \cup TreeTests(d) \cup IncrementalTests(d)

\* Where the rows of a test and size are, in builds of a kind:
\* sizedata[name], whose other fields are those of the first.
RowsOf(opt, size, test) ==
    {k \in DOMAIN csv :
        csv[k].opt = opt /\ csv[k].size = size /\ csv[k].test = test}

CodeOf(opt, size, test) == csv[Min(RowsOf(opt, size, test))].code

CodesMatchNotAsked(opt) ==  \* mutant: the code sizes are not compared
    TRUE

\* Or else: "row code size does not match! did you 'make clean'?"
CodesMatch(opt) ==
    \A m, n \in {k \in DOMAIN csv : csv[k].opt = opt} :
        csv[m].size = csv[n].size /\ csv[m].test = csv[n].test =>
            csv[m].code = csv[n].code

\* Or else a KeyError: every size that has rows has a row of both hashes.
HashesThere(opt) ==
    \A r \in ToSet(csv), h \in Hashes :
        r.opt = opt => RowsOf(opt, r.size, h) # {}

\* rowtime: of more than six times one highest and one lowest are dropped.
Highest(rows) == CHOOSE k \in rows : \A j \in rows : csv[j].time <= csv[k].time
Lowest(rows) == CHOOSE k \in rows : \A j \in rows : csv[k].time <= csv[j].time

Trim(rows) ==
    IF Cardinality(rows) <= Untrimmed THEN rows
    ELSE LET rest == rows \ {Highest(rows)} IN rest \ {Lowest(rest)}

TimesOf(opt, size, test) ==
    [k \in Trim(RowsOf(opt, size, test)) |-> csv[k].time]

\* addrow, and printhashrow of what it subtracts.
Entry(opt, size, test, hash) ==
    [size |-> size, test |-> test, code |-> CodeOf(opt, size, test),
     net |-> CodeOf(opt, size, test) - CodeOf(opt, size, hash),
     times |-> TimesOf(opt, size, test), sub |-> TimesOf(opt, size, hash)]

HashOf(d, test) ==
    IF test \in WriteTests(d) THEN "hash-data" ELSE "hash-object"

TablesOf(opt, d) ==
    {Entry(opt, r.size, r.test, HashOf(d, r.test)) :
        r \in {s \in ToSet(csv) : s.opt = opt /\ s.test \in Listed(d)}}

\* What the recipe leaves in the file: the lines about the machine come
\* first, and stay when the script raises an exception.
Written(opt, d) ==
    IF CodesMatch(opt) /\ HashesThere(opt)
    THEN [whole |-> TRUE, opt |-> opt, tables |-> TablesOf(opt, d)]
    ELSE [whole |-> FALSE, opt |-> opt, tables |-> {}]

-----------------------------------------------------------------------------
(* The commands.                                                           *)

Opt == command.opt
TimesRun(what) == IF what = "make" THEN Iterations ELSE 1

\* The bound on the rows: all a command may append must find room.
Room(what, opt) ==
    Len(Times) >=
        Len(csv) + TimesRun(what) * Len(Tests) * Len(ObjectSizes(opt))

\* A command begins: `make speed` or `make size`, or the container's
\* `zig build benchmark -Doptimize=` of either kind.  All is built anew, of
\* sources that may have changed.
Begin(what, opt) ==
    /\ pc = "idle" /\ Room(what, opt)
    /\ builds < MaxBuilds /\ builds' = builds + 1
    /\ command' = [what |-> what, opt |-> opt, ok |-> FALSE]
    /\ pc' = "run"
    /\ \E changed \in Changes :
           code' = [t \in DOMAIN code |->
                        IF t \in changed THEN 3 - code[t] ELSE code[t]]
    /\ since' = Len(csv)
    /\ UNCHANGED <<csv, docs, fresh, copied, runVars>>

Make == \E opt \in Kinds : Begin("make", opt)
Container == \E opt \in Kinds : Begin("container", opt)

\* `make results`, with or without SIZE=1, by itself.
MakeResults ==
    /\ pc = "idle"
    /\ \E opt \in Kinds :
           command' = [what |-> "results", opt |-> opt, ok |-> FALSE]
    /\ pc' = "results.md"
    /\ UNCHANGED <<csv, code, docs, fresh, copied, runVars, ghostVars>>

\* `make clean`.
Clean ==
    /\ pc = "idle" /\ csv # <<>>
    /\ csv' = <<>> /\ fresh' = {}
    /\ docs' = [d \in Docs |-> NoDoc]
    /\ command' = [command EXCEPT !.what = "clean", !.ok = TRUE]
    /\ UNCHANGED <<code, copied, pc, runVars, ghostVars>>

Reset == iteration' = 1 /\ next' = 1 /\ failed' = FALSE

End(ok) == pc' = "idle" /\ command' = [command EXCEPT !.ok = ok]

\* The user interrupts it, or a build fails.
Interrupt ==
    /\ pc # "idle"
    /\ End(FALSE) /\ Reset
    /\ UNCHANGED <<csv, code, docs, fresh, copied, ghostVars>>

-----------------------------------------------------------------------------
(* `run`, or the run queue of build.zig.                                   *)

\* The rows a run of the next test appends when it gets through n sizes.
Rows(n) ==
    [k \in 1..n |->
        [test |-> Tests[next], size |-> ObjectSizes(Opt)[k], opt |-> Opt,
         code |-> code[Tests[next]], time |-> Times[Len(csv) + k]]]

\* A test runs through its sizes, or fails at one of them and with it `run`.
RunTest ==
    /\ pc = "run" /\ ~failed /\ next <= Len(Tests)
    /\ \E n \in 0..Len(ObjectSizes(Opt)) :
        /\ csv' = csv \o Rows(n)
        /\ fresh' = IF n = 0 THEN fresh ELSE {}
        /\ failed' = (n < Len(ObjectSizes(Opt)))
    /\ next' = next + 1
    /\ UNCHANGED <<code, docs, copied, command, pc, iteration, ghostVars>>

RanThrough == pc = "run" /\ (failed \/ next > Len(Tests))

\* The loop of run-iterations goes on, whatever `run` returned.
NextIteration ==
    /\ RanThrough /\ iteration < TimesRun(command.what)
    /\ iteration' = iteration + 1
    /\ next' = 1 /\ failed' = FALSE
    /\ UNCHANGED <<csv, code, docs, fresh, copied, command, pc, ghostVars>>

EndIterationsAnyhow ==  \* mutant: the status of the last iteration is lost
    /\ RanThrough /\ iteration = TimesRun(command.what)
    /\ Reset
    /\ IF command.what = "container" /\ Opt = "Size" THEN End(FALSE)
       ELSE pc' = "results.md" /\ UNCHANGED command
    /\ UNCHANGED <<csv, code, docs, fresh, copied, ghostVars>>

\* The status of the last iteration is that of the loop.  The container
\* makes no results of a build for size, and ends with the status of `test`.
EndIterations ==
    /\ RanThrough /\ iteration = TimesRun(command.what)
    /\ Reset
    /\ IF failed \/ (command.what = "container" /\ Opt = "Size")
       THEN End(FALSE)
       ELSE pc' = "results.md" /\ UNCHANGED command
    /\ UNCHANGED <<csv, code, docs, fresh, copied, ghostVars>>

-----------------------------------------------------------------------------
(* `results`.                                                              *)

\* Without results.csv no file is ever up to date.
UpToDate(d) == d \in fresh /\ csv # <<>>

\* The other file, the container's next command, or the end.
After(d) ==
    IF d = "results.md" \/ command.what = "container"
    THEN /\ pc' = IF d = "results.md" THEN "results-extended.md" ELSE "copy"
         /\ UNCHANGED command
    ELSE End(TRUE)

Skip(d) ==
    /\ pc = d /\ UpToDate(d)
    /\ After(d)
    /\ UNCHANGED <<csv, code, docs, fresh, copied, runVars, ghostVars>>

RecipeGoesOn(d) ==      \* mutant: the status of the script is not looked at
    /\ pc = d /\ ~UpToDate(d)
    /\ docs' = [docs EXCEPT ![d] =
                   IF csv = <<>> THEN NoDoc ELSE Written(Opt, d)]
    /\ fresh' = fresh \cup {d}
    /\ After(d)
    /\ UNCHANGED <<csv, code, copied, runVars, ghostVars>>

\* The recipe.  The file is new in any case; make stops if the script fails.
\* Without results.csv that is at once.
Recipe(d) ==
    /\ pc = d /\ ~UpToDate(d)
    /\ docs' = [docs EXCEPT ![d] =
                   IF csv = <<>> THEN NoDoc ELSE Written(Opt, d)]
    /\ fresh' = fresh \cup {d}
    /\ IF docs'[d].whole THEN After(d) ELSE End(FALSE)
    /\ UNCHANGED <<csv, code, copied, runVars, ghostVars>>

\* An interrupt while the recipe is running: make deletes the file.
InterruptRecipe(d) ==
    /\ pc = d /\ ~UpToDate(d)
    /\ docs' = [docs EXCEPT ![d] = NoDoc]
    /\ fresh' = fresh \ {d}
    /\ End(FALSE) /\ Reset
    /\ UNCHANGED <<csv, code, copied, ghostVars>>

Results == \E d \in Docs : Skip(d) \/ Recipe(d) \/ InterruptRecipe(d)

\* cp, the last of the container's commands, a file at a time over what an
\* earlier cp has left.
Copy ==
    /\ pc = "copy"
    /\ copied' = [copied EXCEPT ![Files[next]] =
                     IF Files[next] \in Docs THEN docs[Files[next]] ELSE csv]
    /\ IF next < Len(Files) THEN next' = next + 1 /\ UNCHANGED <<pc, command>>
                            ELSE next' = 1 /\ End(TRUE)
    /\ UNCHANGED <<csv, code, docs, fresh, iteration, failed, ghostVars>>

-----------------------------------------------------------------------------
Next ==
    \/ Make \/ Container \/ MakeResults \/ Clean \/ Interrupt
    \/ RunTest \/ NextIteration \/ EndIterations \/ Results \/ Copy

Spec == Init /\ [][Next]_vars

-----------------------------------------------------------------------------
(* Properties.                                                             *)

CsvRows == [test : ToSet(Tests), size : {2, 4}, opt : Kinds, code : {1, 2},
            time : Int]

TypeOK ==
    /\ csv \in Seq(CsvRows)
    /\ code \in [ToSet(Tests) -> {1, 2}]
    /\ DOMAIN docs = Docs /\ fresh \subseteq Docs
    /\ DOMAIN copied = ToSet(Files)
    /\ command \in [what : {"none", "make", "container", "results", "clean"},
                    opt : Kinds, ok : BOOLEAN]
    /\ pc \in {"idle", "run", "copy"} \cup Docs
    /\ iteration \in Nat /\ next \in Nat \ {0} /\ failed \in BOOLEAN
    /\ since \in Nat /\ builds \in Nat

\* The times averaged are those of the rows, but for two of more than six:
\* one that no other exceeds and one that exceeds no other.
Averages(times, rows) ==
    /\ DOMAIN times \subseteq rows
    /\ \A k \in DOMAIN times : times[k] = csv[k].time
    /\ Cardinality(rows) <= Untrimmed => DOMAIN times = rows
    /\ Cardinality(rows) > Untrimmed => \E m, n \in rows :
           /\ m # n /\ rows = DOMAIN times \cup {m, n}
           /\ \A k \in DOMAIN times :
                  k \notin {m, n} /\ csv[m].time <= times[k] /\ times[k] <= csv[n].time

\* What an entry has to be: of all rows of its test and size, no two of them of
\* executables of different code sizes, and so the rows of the hash.
IsOfRows(e, opt) ==
    LET rows == RowsOf(opt, e.size, e.test) IN
    /\ rows # {} /\ \A k \in rows : csv[k].code = e.code
    /\ Averages(e.times, rows)
    /\ \E h \in Hashes :
        LET hashRows == RowsOf(opt, e.size, h) IN
        /\ Averages(e.sub, hashRows)
        /\ \A k \in hashRows : csv[k].code = e.code - e.net

\* The tables have an entry for each of the rows they are to list.
CountEvery(tables, d, opt, rows) ==
    \A r \in ToSet(rows) : r.opt = opt /\ r.test \in Listed(d) =>
        \E e \in tables :
            e.test = r.test /\ e.size = r.size /\ e.code = r.code

\* A file that make takes to be up to date and that is whole accounts for
\* every row of its kind in results.csv at this moment, and averages none of
\* executables whose code has another size than the table shows: not the
\* rows of an earlier build, nor those appended since it was written.
EntriesAreOfRows ==
    \A d \in fresh : docs[d].whole =>
        /\ \A e \in docs[d].tables : IsOfRows(e, docs[d].opt)
        /\ CountEvery(docs[d].tables, d, docs[d].opt, csv)

\* When `make speed`, `make size` or the container's chain succeeds, both
\* files are whole and of that kind of build, and every test has an entry in
\* the extended one to which this very build has contributed a row.
SuccessMeansTables ==
    pc = "idle" /\ command.ok /\ command.what \in {"make", "container"} =>
        \A d \in Docs :
            /\ docs[d].whole /\ docs[d].opt = Opt
            /\ \A t \in ToSet(Tests), n \in ToSet(ObjectSizes(Opt)) :
                t \in Listed("results-extended.md") =>
                    /\ \E k \in since + 1..Len(csv) :
                           /\ csv[k].test = t /\ csv[k].size = n
                           /\ csv[k].opt = Opt
                    /\ \E e \in docs["results-extended.md"].tables :
                           e.test = t /\ e.size = n /\ e.code = code[t]

\* /opt gets whole tables of a speed build only, wherever a cp is cut short.
\* When the container's chain has succeeded, it has with them the rows they
\* are made of: the entries of both tables count every row copied.
CopiedAgree ==
    \A d \in Docs :
        /\ copied[d] # NoDoc => copied[d].whole /\ copied[d].opt = "Speed"
        /\ pc = "idle" /\ command.what = "container" /\ command.ok =>
               /\ copied[d].whole
               /\ CountEvery(copied[d].tables, d, "Speed", copied["results.csv"])
=============================================================================

# schemaless-benchmarks: TLA+ models, checks and proofs

This directory holds TLA+ models of the schemaless benchmark suite, TLC
configurations that check them on small instances, and proofs that TLAPS checks
for every value of the constants. Paths below are relative to the repository.

## The system

The suite measures how fast libraries for MessagePack, JSON, BSON, Binn and
UBJSON encode and decode the same random object. It has these parts.

| Part | State | Operations | Talks to |
|---|---|---|---|
| Run queue, `buildkit/RunQueue.zig` | the step appended last; edges in the build graph | `create`, `append`, `finalize` | the build graph and, through it, the build runner of Zig |
| Build graph, `build.zig`, `buildkit/EnsurePath.zig` | steps and edges; on disk `build/`, `build/data-N.mp`, `results.csv` | `build()`, `EnsurePath.make`, runs of the executables | starts every executable; files are the only channel between them |
| Benchmark harness, `src/common/benchmark.c`, `.h` | arguments left, result-only flag, held memory fragments, iteration counts, hash | `main`, `go`, `load_file`, `fragment_memory` | calls `setup_test`, `run_test`, `teardown_test` of the one test it is linked with; appends to `results.csv` |
| Object generator, `src/common/generator.c` | the tree under construction, its strings, the size of its flat copy, the chunk | `object_create` (`object_init`, `object_copy`, `object_teardown`), `object_destroy` | called by encoders, file creators and `hash-object` |
| Parser tests, sixteen programs such as `src/mpack/mpack-read.c` | loops in progress, the error state of the library | `run_test` | data files written by the file creators; hash by `hash.h` |
| YAJL callbacks, `src/yajl/yajl-parse.c` | `parser_t`: depth and the number of children per depth | the callbacks of YAJL | called back by `yajl_parse` |
| Encoder tests, thirteen programs such as `src/cmp/cmp-write.c` | the buffer or document being built, the library's error state | `run_test` | object generator; growable buffer |
| File creators, such as `src/mpack/mpack-file.c` | the document and the file | `setup_test` | object generator; data files |
| Growable buffer, `src/common/buffer.h` | bytes used, capacity | `buffer_write` | encoders without a buffer of their own |
| Hash, `src/common/hash.h`, `core.zig`, `glue.zig` | none | `hash_str`, `hash_u32`, ... | every test |
| Former build, `Makefile`, `tools/container-exec.sh` | `results.csv`, the two tables and their times of modification | `speed`, `size`, `results`, `clean`; a chain of commands | the same executables |
| Result tables, `tools/results.py` | rows read from `results.csv` | grouping, comparing, averaging, printing | `results.csv`, and the files make has it write |

### What is hard about it, and what must hold

* **The build runs steps in parallel, but benchmarks must not overlap.** Nothing
  in the queue runs anything: it adds edges, and order, mutual exclusion and the
  meaning of the queue's own step follow from the edges and the runner.
* **Steps communicate through files the build system does not know about.** A
  reader finds a whole data file only because an edge, or the queue, puts
  it behind the run of `mpack-file`; an earlier build may have been killed
  and have left truncated files.
* **Time and hash of a row must be those of the timed runs alone**, at every
  size of the command line, with any call of the test failing.
* **The generator computes the size of an object twice, in different terms**,
  and nothing compares the pool pointer with the end of the chunk; the tree it
  copied from is freed right afterwards.
* **Every parser test is a walk written by hand, and all must hash the same
  things in the same order**, though one library hands over a union and a type, another a number,
  one a length, another a terminator, one the size of a map, another its entries until
  there are no more. Only a comparison of hashes by eye would reveal that they do not; the errors
  of these libraries travel in six different ways.
* **`parse_start_compound` increments `children[-1]`** at the root of every document.
* **Encoding fails in the middle** only when memory or the disk runs out,
  which no test reaches.
* **What a test works on is shared by all its runs.** Some parsers write into
  the text they parse, so that each run needs a copy; `fragment_memory` frees
  the heap in an order shuffled before, in two rounds with the whole program between.
* **A hash must tell a whole encoding from a part of it**, and the one of
  `core.zig` must be that of `hash.h`, or the last column of the results means nothing.
* **Rows outlive builds.** `results.csv` and the tables made of it lie in the
  directory until `make clean`, whatever is built, interrupted or failed meanwhile.

`PROJECT.json` lists each hazard at its line, with the properties aimed at it.

## Modules

| Module | Models | Composes |
|---|---|---|
| `RunInOrder` | what a run queue promises: runs begun in order, one at a time, none after a failure | |
| `RunQueue` | `RunQueue.zig` on an arbitrary build graph, with the build runner | implements `RunInOrder` |
| `BuildZig` | `build.zig`, `EnsurePath.zig` and the runs of the executables with the files they share | instantiates `RunQueue`; each of its runs implements `BenchRun` |
| `BenchRun` | what one run of an executable shows to the outside | |
| `Harness` | `main` and `go` of `benchmark.c` | implements `BenchRun` |
| `Process` | a whole test program: `fragment_memory`, the fixtures, the in-situ copies of `benchmark.h`, and the heap under them | extends `Harness`, step for step |
| `Generator` | `object_create` of `generator.c`: shape, flat copy and teardown | |
| `Strings` | `random_key`, `random_string` and `random_inverse` of `generator.c` | |
| `Hash` | `hash.h`, and `core.hash` of `core.zig`, as operators | |
| `SaxParser` | the callbacks of `yajl-parse.c` | |
| `Decode` | what a test is handed of a number, a string and a container, and what `hash.h` mixes in of it, as operators | |
| `Readers` | `run_test` of the sixteen parser tests, Jansson's in both modes, next to the walk of `hash-object.c` | extends `Decode` |
| `Writers` | `run_test` of the thirteen encoder tests and `setup_test` of the five file creators | |
| `GrowBuffer` | `buffer.h` | |
| `Encode` | the path of an object through an encoder: generated, written, hashed | instantiates `Strings`, extends `GrowBuffer` and `Hash` |
| `Tables` | `run-iterations`, `results` and `clean` of the `Makefile`, `container-exec.sh`, `results.py` | |
| `MC*` | the constants of the runs | extends the module named |
| `*Proofs` | theorems about the module named; `ParserProofs` is about `Readers` and `SaxParser` | extends the module it is about and TLAPS |

`MC*` modules only give constants their values; a configuration replaces no
definition of a module, so that the runs check what the proofs are about.
Operators commented `mutant:` are altered versions of a definition of the code, each a
plausible bug that one of the properties must catch. They stand next to the
definition they alter, no specification uses them, and `PROJECT.json` pairs them
with properties.

## How the models correspond to the code

`PROJECT.json` maps every definition to its lines. What follows is the reading
guide.

**RunQueue.** `AppendNext` is a call of `append` and `Finalize` the deferred
`finalize`; `last` and `deps` are `RunQueue.last` and the `dependencies` of the
build steps. `Plan`, `Start`, `Succeed`, `Fail` and `GiveUp` are the build runner of Zig,
which is not in the repository: it runs a step when all its dependencies have
succeeded and gives it up when one has failed, with at most `Workers` at a time. Nothing
runs before `build()` has returned, which is why the edges that do not come from
the queue (`Uses`) can all be there from the start. `RunInOrder` is what a user
of the queue relies on: `finished`, `active` and `failed` members, begun in
order, one at a time.

**BuildZig.** `Uses` holds the edges `build()` makes, `Calls` the order of its
calls of `createRunBenchmark`. `Kept`, a constant, is the calls an instance keeps, in
that order: a few for TLC, any for the proofs. A zigpak benchmark is run twice, once in the queue and once as
`Extra` under the `zigpak` step. An executable and the objects it is linked from are
one step. The disk is `dir`, `data`, `csv` and the ghost `lost`; `data` tells absent,
partial and complete files apart because `load_file` does not. A run of a benchmark
goes through its sizes with `LoadData` and `ReportRow`. Each run behaves
as `BenchRun` says (`RunsBehave` in `BuildZigProofs`), which `Harness` implements (`HarnessImplementsBenchRun`): that
joins the two modules. The initial
states are all the states of `build/` that an earlier build can leave,
a run of `mpack-file` killed in the middle of a file included.

**Harness.** One action per stretch of `main` and `go` between two calls of the test:
`ParseFlag`, `AcceptSize` or `RejectSize`, `SetupBenchmark`, `WarmRun`,
`WarmCheck`, `TimedRun`, `TimedCheck`, `Report`. `CallFails` is any call of the
test that returns false, `ReportCrash` the `fopen` nobody checks. Time is ticks;
a run takes one or more. `hash` is a seed and how many runs were hashed into it.

**Process.** It adds to every action of `Harness` what that stretch of code does to the
memory, and the actions `Harness` does not see: the turns of the three loops of
`fragment_memory` and `free_fragmented_memory` (`AllocBlob`, `Swap`, `FreeHalf`,
`FreeRest`; `stage` and `step` say which turn), and within `run_test` the copy and the parsing (`InSituCopy`,
`Parse`). `heap` is the set of allocated blocks; `misused` notes a `free` of a block that is not among
them. `contents`, `copy` and `parsed` say of which size the data is, and whether a
parser has written into it. `program` is one of seven kinds of programs, which differ in whether they copy,
parse the copy or the original, and what they allocate: yajl-parse and
mongo-cxx-obj copy and then read the original, zigpak-read and hash-data make no copy.

**Generator.** The recursion of `object_init`, `object_copy` and `object_teardown`
is the explicit `stack`. A `malloc` is an entry of `blocks`, its `free` the
removal from `live`; `chunk` lists what `object_copy` has placed, with offsets. Random
numbers are choices, constrained by what `random_type` can return at each depth.

**Strings, Hash, Encode.** Every draw of the generator is a choice: `RandomInverse(max)`
is the set of what `random_inverse` can return, and a step of `Strings` is a turn of
the loop that fills a string. A hash is the sequence of the words mixed into it, so
that two hashes are equal exactly when the same was mixed in; that 32 bits collide is left out. `core.hash` reads
windows of four bytes. One that is shorter is undefined: `CoreHashes` is the set of outcomes, a
panic included. `Encode` generates a map of a key and a string (`NewKey`,
`NewString`, `PutCharacter`, `KeepString`), makes the writes of its encoding as cmp
does, a marker and the bytes of each string (`WriteNext`, `Grow`), and hashes the buffer (`HashResult`).

**SaxParser.** The fields of `parser_t` with one action per kind of callback.
`children[-1]` is either `depth` itself, as the fields are laid out, or a location of no
effect; the model takes both outcomes (`ParseStartRoot`). `open`, `ended` and
`begun` describe the document and are ghosts.

**Decode.** A number is written as any type of the format that holds it (`Forms`); its bits are
fetched by that type from a union (`Member`), or the library hands over 64 bits
(`Fetched`), and the test hashes them as signed or unsigned (`HashInt`). The halves of a word, the
sign and the widths are those of the code, with `Values` numbers to a word. A string is a block with its length or one in which
`strlen` looks for the terminator (`Bytes`). Hashes are sequences of words and texts; `Hash` shows that
`hash_str` keeps a string and its length.

**Readers.** A test is a record. `reads` says how it comes by numbers, strings, keys and
sizes; `order` whether it visits a map as the document has it or, as Jansson does
by default, as a hash table; the other fields say where it learns of an error (a returned
value, a state of the library, an exception, not at all), where it asks for that state (`asks`), what it does about an
element of an unknown type and whether nested results are looked at. BSON tests look at the name of
the first element to tell what the root is (`Named`). `mixed` is what the test makes of what it reads
and `due` what `hash-object` makes of the object itself: `ReadInt` and its siblings compute the one from the
form in the document and the record, the other from the value, and `HashSize` from the header or from what the loop
has counted. A state of error is noticed where the test asks (`Noticed`): in `mpack-read` a map asks at the next key only, and
behind its last entry hashes its size before the loop around finds out (`GoOnInError`).

**Writers.** The same for programs that encode. `CallFails` is a failure that
travels as a result or an exception; in `Emit` it is noted by the library, by a
flag, or not at all. `held` counts documents, buffers and files not freed. For
binn, Jansson and json-builder a container is a document that is joined to the
one around it; binn and Jansson find only at the first join that one could not be
made (`"missing"`). What a library does when its own context cannot be allocated,
in yajl-gen and ubj-write, is taken to be a crash: nothing in the tests looks.

**GrowBuffer.** `BufferWrite` is the test of the capacity, `Double` one turn of
the `while`, `Reallocate` and `ReallocateFails` the two outcomes of `realloc`.
`size` is the true size of the block, which the code has only as `capacity`.
cmp stops at a failure (`stops`); ubj writes on into the same buffer. The buffer
holds bytes, and `asked` all that the library wanted in it.

**Tables.** A command at a time runs in the directory: `make speed` or `make size`,
the container's chain, `make results` by itself, `make clean`. `csv` is `results.csv`;
`docs` what is in the two tables, `fresh` which of them are newer than `results.csv`, all that make looks at;
`copied` what the container has put into `/opt`, file by file over what an earlier copy left there. Each
build takes the code of some tests to another size (`code`), as sources and flags do. A run of a test may
stop at any of its sizes, and `Interrupt` ends a command anywhere, between two files of the copy too; in the middle of a recipe,
make deletes the file (`InterruptRecipe`). `Written` is `results.py`: an exception
leaves the file with the lines the recipe wrote before it. An entry of a table is its row in terms
of the code sizes and of the times that are averaged after `Trim`, each with its position in `csv`.

## Runs

| Run | Bounds | What it shows |
|---|---|---|
| `RunQueue` | three members, executables of their own, a data step, a step outside the queue; 3 workers; 3,773 states | no two members overlap, they start in order and only after success of all before, the queue's step stands for them all, it implements `RunInOrder`, every target settles |
| `Build` | both targets; one reader with an edge to mpack-file and one without, each in the queue, the latter also under the zigpak step; sizes 2 and 4; rows may be lost; 2 workers; 166,000 states | `build/` exists when mpack-file starts; queued readers find whole files although zigpak-read has no edge; rows come in order; success means all rows that were not lost; it implements `RunQueue`; the second runs of the zigpak step disturb none of that; every target settles |
| `BuildZigpak` | zigpak benchmarks alone | **violated**: see findings |
| `Process` | 10 command lines, 7 kinds of programs, `WORK_TIME` of 5 ticks, runs of 1 or 2, 4 blobs; 820,000 states | what is reported was measured over `WORK_TIME` and its hash is of one run; fixtures balance; nothing is freed twice, and success leaves nothing allocated but what hash-object leaks; every run parses intact data; it implements `BenchRun`, rows included; it exits |
| `Generator` | size 0, container lengths of the code, three levels, `total_size` up to 42 units; 276,000 states | the chunk fits exactly, blocks do not overlap, the copy is the tree in depth-first order, the tree is freed once, keys are unique |
| `SaxParser` | 4 slots, nesting 3, up to 3 children; 3,032 states | children are counted right with either outcome of `children[-1]`; every slot touched inside a compound is in the array; no document is canceled |
| `Readers` | 17 tests, 3 levels, 2 elements; 19 numbers, 3 texts, 2 keys; words of 4, 8, 16 and 256 values; 14,400 states under a view | tests that hash sizes and keep the order of maps hash what `hash-object` does, in whatever type a number is written; tests that check errors return false and leave a loop with every step |
| `ReadersZigpak`, `ReadersRapidjson` | as `Readers` | **violated**: see findings |
| `Encode` | keys of 2 and 9 bytes, strings up to what a maximum of 6 yields, one character of each class, first capacity 2; 399,000 states | a copy stays in the block; the result is all that was written or false; strings fill their blocks and are UTF-8; the hash tells the encoding from what differs least; `core.hash` agrees where it is defined; a write ends |
| `Writers` | 18 programs, 3 levels, 2 elements; 114,000 states | programs that look return true exactly when nothing failed; those that free what they made do so wherever it fails; those that return what failed stop |
| `Tables` | 3 tests (both hashes among them), 2 builds of up to 2 iterations, 16 rows, times trimmed when more than 2; 1.84 million states | a table that is taken to be up to date accounts for the rows there are and mixes no two executables; a command that succeeds has tables of its own kind of build and rows of its own in them; tables that reach `/opt` are whole, and after a success belong with the rows there |

Why the bounds are enough. The queue's edges join neighbours only, so that
three members show what is not adjacent; more workers than members ready at once
change nothing. Two sizes show the order of sizes and a row per size. For the harness
the limits matter only as "not reached" and "exceeded", and a batch of 2 that
grows by 2 has the look at the clock fall before, on and behind either. A walk treats each
element alike and returns through every level alike: two elements have a next
one, three levels have a loop that is neither the root nor the innermost. The numbers
are the bounds of every type and those just beyond, in words scaled down so that each type still holds
less than the next; `SameHashes` is for words of any width. The run of the readers compares `mixed` and `due`
at every state but keeps only whether they are equal (`View`): as long as nothing is wrong a step adds no more to `mixed` than to `due`, so
that hashes once different stay so, and what follows does not depend on what they are; once something was wrong no property compares them. The
generator's sizes are in units of alignment: an object of two units leaves padding
behind strings, and the bound on `total_size` lets every type be followed by
every other and a map be nested in an array and in a map. The buffer has writes that fit
exactly, double once, and double twice in one call; the lengths of an encoding take every remainder by four. Four
blobs give both rounds of frees two turns. Three tests are one of
each role a row has in a table; seven iterations and six times are scaled to
2 and 2, which keeps `Iterations` above `1` and lets a second build push the number of times over
the limit of trimming, and 16 rows let a build for speed of two
iterations follow one that failed early, and two complete builds for size follow each other. Deadlock is checked
everywhere; where a process has ended, a stuttering disjunct `Done` says so.

Fairness. `RunQueue` and `BuildZig` assume that `build()` returns and that every
step which may go on does, weakly, per step: the runner looks again at steps
whose dependencies have settled, a compilation ends, and a benchmark measures for a bounded
time. That last point is `Terminates`, which `Process` shows assuming only that a
process is scheduled (`WF_processVars(ProcessStep)`) and that a run takes time. `Encode` assumes
that `buffer_write`, once called, goes on (`WF_encodeVars(Grow)`). `Tables` assumes nothing, as a user may stop
at any point. No strong fairness is used anywhere.

## Findings

Each is a run that TLC finds violated, against a sentence of the repository.

* `BuildZigpak`, `ZigpakFindsData`: under the `zigpak` step nothing orders
  `zigpak-read` behind `mpack-file` (`src/build.zig:385`); on a fresh checkout it fails for want of a file.
* `ReadersZigpak`, `HashesMatch`: `zigpak-read` does not hash sizes
  (`src/src/zigpak/zigpak-read.zig:38`), so its hash matches no other, which `src/README.md:145` says it should.
* `ReadersRapidjson`, `FaultReported`: both RapidJSON parsers return true of a
  truncated document (`src/src/rapidjson/rapidjson-sax.cpp:88`).

Other places where code and text part, met while modelling and stated by no run:

* The loops of `mpack-write` (`src/src/mpack/mpack-write.c:38`) and of other
  encoders do not ask for errors, though `src/README.md:59` says all loops do;
  `Writers` has it as the programs that do not stop. `rapidjson-write` looks at no result at all; it counts among the programs that check
  only because all that can fail there is an allocation, of which it crashes.
* `src/src/common/benchmark.h:48` says that tests make a copy of their data; zigpak-read makes none.
* `src/README.md:49` says that each test is run seven times. `run-iterations`
  returns the status of its last turn, so that a success may stand for one (`Tables` has it so).
* `tools/container-exec.sh:4` stops a build for size before its results are made (`Tables` has it so).
* `make clean` removes `results/` too, where published results lie.
* `random_seed` sets bits so that the state is neither zero nor the fixed point
  of the generator, but lets `0xfffffffe` through.

## Proofs

| Module | Theorems | Inductive invariant and argument |
|---|---|---|
| `RunQueueProofs` | `TypeCorrect`, `StartsInOrder`, `NeverTogether`, `QueueStepMeansAll`, `QueueImplementsOrder` | `Exclusive` says nothing about members far apart, which no edge joins. The invariant adds that `last` is the last appended, that each member has an edge to the one before, that the queue's step has one to the last, and `InOrder`: a member that starts has a predecessor that succeeded and so has all before it behind itself. |
| `BuildZigProofs` | `BuildImplementsQueue`, `BenchmarksApart`, `DirBeforeData`, `RowsOrdered`, `SuccessHasRows`, `ReadersFindWhole`, `WholeBuildReadsWhole`, `RunsBehave` | Every step is one of `RunQueue` or leaves it alone, and the graph of `build.zig` meets the assumptions of the queue; so the invariant of `RunQueueProofs` holds, with what it says of the order of runs. The rest rests on one more fact of the runner, that a step which has started has found all it depends on done (`UsesFirst`); on the progress of each run through its sizes; on `data` being whole up to where `mpack-file` is; and on `RowsOfDone`: the rows of `results.csv` are of sizes their run is through, and each such size has its row unless one was lost. For `zigpak-read` no edge says that `mpack-file` is done; a benchmark before it in the queue does. `RunsBehave` maps a run to `BenchRun` by its progress, its state and its rows of `results.csv`; that a size completed adds at most its own row, at the end, is `RowsOfDone` again. |
| `ParserProofs` | about `Readers`: `TypeCorrect`, `SameHashes`, `FaultsSeen`, `ExitEarly`; about `SaxParser`: `ParserTypeCorrect`, `HashedCounts`, `NoUnderflowInside`, `AcceptsGenerated` | `Readers`: `SameHashes` rests on two facts about what tests are handed: a number fetched by its type from its bits is the number again (`MemberFact`, `SameNumber`), whatever form the document has it in, and `strlen` of a block is the length of a string without nulls (`SameBytes`). Walking, while nothing was wrong, `mixed = due`, every loop has counted what is behind it (`GoodLoops`), so that size and count agree at its end, and it hashes names exactly when it is a map. An error has a fault behind it; a test that checks is never in its walk with a fault and no error under way, and with the library in its error state a loop that does not ask is at its end (`LastTurn`), so that every step leaves one (`OnTheWayOut`). Facts about the table of tests are lemmas (`MatchingFacts`, `CheckingFacts`), so that no step of the walk opens the table. `SaxParser`: `SlotsInStep`, that open compounds occupy neighbouring slots from slot 0 or, if the root's increment hit `depth`, from slot 1; with nesting below the number of slots everything follows. |
| `ProcessProofs` | about `Harness`: `TypeCorrect`, `MeasuredLongEnough`, `FixturesBalance`, `HarnessImplementsBenchRun`; about `Process`: `ProcessImplementsHarness`, `ProcessImplementsBenchRun`, `HeapIsBalanced`, `EveryRunPristine` | Inside the timed loop, counted runs equal runs and, as soon as time has passed, the hash is of one run; `argv` is what remains of the sizes, from which the step simulation of `BenchRun` follows. Every step of a program is one of `Harness` or leaves it alone, so that the theorems about `Harness` carry over. The heap is exactly the blobs not yet freed, by the position in `memory`, which the shuffle keeps injective, the fixture of the current size while it is set up, the copy inside a run, and what is leaked; the contents are those of the size unless the copy alone was altered. |
| `EncodeProofs` | about `GrowBuffer`: `TypeCorrect`, `StaysInBlock`, `LittleWaste`, `AllOrNothing`; about `Encode`: `EncodeUsesBuffer`, `StringsWellFormed`, `HashTellsApart`, `ZigHashAgrees`, `EncodeStaysInBlock`, `EncodeAllOrNothing` | `capacity` is the true size; while a write is under way its doubled capacity is still short of twice what is needed; without an error the buffer and the write under way are what was asked. A string under construction is whole as far as it goes; what was asked for and the writes to come make the encoding (`Split`), which also shows that all writes are of bytes, so that every step is one of `GrowBuffer`. That a hash keeps everything is a fact about `hash_str` alone, which is injective (`HashInjective`): the length comes first, and every byte is in a word (`WordsKeepBytes`). |
| `WritersProofs` | `TypeCorrect`, `TrueMeansWhole`, `EveryDocumentFreed`, `NoCallAfterFailure` | `held` is the number of documents on the stack that were made, and of those of the program itself; a failure is known as an error under way, as an error noted, or as a missing document, which is never at its end and so is met before the walk is over. |
| `GeneratorProofs` | `TypeCorrect`, `ChunkFits`, `CopyIsTree`, `TreeFreedOnce`, `KeysUnique` | The three walks of `object_create` meet the blocks in one order. `N` numbers them: `N[b][i]` is how many blocks a walk has reached at cell `i` of block `b`, and the object there points to the next. `object_init` allocates in this order (`Growing`), `object_copy` places in it (`Copying`), so that place `p` is block `p`, and what `object_teardown` has not freed is what it has not reached or is still inside (`Freeing`). `f` sums the sizes in that order: `totalSize` is the sum of all, `pool` that of the places so far (`Layout`). `FitsChunk` alone says nothing of the blocks still to be copied, which is why the invariant does. |
| `TablesProofs` | `TypeCorrect`, `EntriesFollowRows`, `SuccessHasTables`, `CopiesAgree` | What `results.py` writes is whole and of the rows there are, or not whole (`WrittenFacts`, which needs that finitely many times have a highest). `DocsCurrent`: a file that is newer than `results.csv` and whole is of the rows there are, since each row appended makes both files old. That says nothing of the kind of build the rows are of, since a table of the other kind may be up to date. So the invariant follows a command (`InRun`, `AllRan`, `Tabled`): one that builds has appended rows of its own kind by the time it comes to the tables, finds neither up to date and makes both; `Prepared` keeps the room for the rows it has yet to append. `Copies`: the files that `cp` has done are still those in the directory, so that the last one completes a match. |

They hold for every value of the constants, from the named assumptions next to
the `CONSTANTS`: for `RunQueue`, that a step is appended once, that the queue's
step is not a member and that there is at least one worker, and nothing about
the graph; for `SaxParser`, that nesting is below the number of slots, which 31 and 32 are; for
`Harness` and `Process`, positive times, batches and numbers of blobs; for `GrowBuffer` a positive initial
capacity; for `Encode`, that the characters are of their classes; for `BuildZig`, that `Kept` keeps
the order of the calls; for `Generator`, that `sizeof(object_t)` is a multiple of its alignment, that containers
are picked below some depth and that keys are not empty; for `Decode`, that words have an even number of values, that numbers
are signed ones of the widest word, and that texts have no nulls and keys are names of 2 to 10 letters; for `Tables`, that there is a benchmark and at least one
iteration, that two times are dropped only where there are two, and that a build changes some of the benchmarks. TLC evaluates them in each run.

Two theorems have a hypothesis of their own. `ReadersFindWhole` needs a benchmark with an edge to
`mpack-file` ahead of `zigpak-read` in `Kept`. Without one, `zigpak-read` need not find the files, which `BuildZigpak`
shows with a `Kept` of zigpak benchmarks alone. `WholeBuildReadsWhole` is for all
the calls of `build.zig`, where `mpack-read` is such a benchmark.

The invariant of `GeneratorProofs` says that there are an `N` and an `f`, over all functions, so that TLC
cannot evaluate it; the run checks what is derived from it.
`Lengths` is `LengthBase` times a power of two, at any `Size`, and `MaxContents` may be
any number: trees of every size that `random_type` allows are covered. That the walks terminate is not stated.

Only model-checked: liveness (`EverySettles`, `TargetsSettle`, `Terminates`,
`WritesEnd`), since fairness and `ENABLED` are beyond the prover.

## Not modelled, and why

* The libraries: only how their results reach a test.
* The value of a real: `hash_double` mixes in a constant. How a library writes and parses numbers and strings: in a document they are what they
  were, numbers in any type of the format that holds them.
* What Jansson's own order is. By default its test visits any key at any turn, and is exempt from `Agreement`, as
  `src/README.md:131` has it; sorted (`PRESERVE_ORDER`) it is not.
* `random_next` and `random_seed`: the draws are choices, so that what holds, holds for any generator of numbers.
* That `malloc` fails in `fragment_memory`, `load_file` or the generator: nothing looks at it.
* The rules of the `Makefile` that fetch and compile libraries, write the data files and make HTML.
* A make that is killed, rather than interrupted, in the middle of a recipe, and so deletes nothing; a file of `cp` that is cut in the middle.
* The depth at which the shift of `random_type` (`src/src/common/generator.c:139`) overflows: `DepthLimit` is a constant.
* Means, deviations, order and wording of `results.py`; the published results.
* `glue.zig`, which forwards calls.
* The subtraction runs of hash-object and hash-data are ordinary members of the queue.
* A reader that meets a file which a creator other than mpack-file has truncated behind a success:
  creators drop what `fwrite` and `fclose` return (`src/src/libbson/libbson-file.c:99`), and `Writers` and `Readers` are not composed.

## What could come next

1. `random_next` and `random_seed` on small words, with the odds that `random_type` computes.
2. A composition of `Writers` with `Readers` over a truncated file.

------------------------------- MODULE Writers -------------------------------
(***************************************************************************)
(* The tests that encode, run_test of every writer from cmp-write to       *)
(* zigpak-write, and the programs that create the data files, setup_test   *)
(* of mpack-file and its like.  Each walks a generated object and hands it *)
(* to a library, one call for every key, value, start and end of a         *)
(* container; the result is hashed or written to a file.                   *)
(*                                                                         *)
(* Any call of the library may fail: memory or the disk is full.  As in    *)
(* Readers the walk is one for all, and a record says how the failure of a *)
(* call travels in a test.  What is written is left out: it is whole if    *)
(* the walk came to its end and no call has failed.                        *)
(***************************************************************************)
EXTENDS Integers, Sequences

CONSTANTS
    Writers,            \* the programs considered
    MaxCount,           \* bound: elements of a container
    MaxDepth            \* bound: containers around an element

-----------------------------------------------------------------------------
(* The programs.                                                           *)
(*   fails    how the failure of a call travels: "return", as the result   *)
(*            of every function up to run_test; "state", kept by the       *)
(*            library, which then does nothing; "flag", kept by the test   *)
(*            while the library writes on; "throw"; "dropped"; "crash", in *)
(*            the library; or "undefined", taken not to happen             *)
(*   opens    what is done when the output cannot be opened: "return";     *)
(*            "noted", and returned after the other file; "state"; "crash";  *)
(*            or "none" where nothing is opened before the walk            *)
(*   ends     what is done when the step behind the walk fails, the flush, *)
(*            the text made of a tree, the file: "checked", "unchecked",   *)
(*            "crash", or "none" where there is no such step               *)
(*   passes   how many files are written, one walk for each                *)
(*   keys     whether a key is a call of its own, not a part of its        *)
(*            value's                                                      *)
(*   closes   which containers have a call at their end: "none", "inner",  *)
(*            all but the root, or "all"                                   *)
(*   builds   whether a container is a document of its own, joined to the  *)
(*            one around it at its end: "nothing"; "checked"; or "late",   *)
(*            when the first call on a document finds that it is not there *)
(*   loses    what is not freed when it fails: "nothing", the "output", or *)
(*            the "child" that was not joined; or the "file", in any case  *)

Plain == [
    fails |-> "return", opens |-> "none", ends |-> "none", passes |-> 1,
    keys |-> TRUE, closes |-> "none", builds |-> "nothing",
    loses |-> "nothing"]

\* buffer_init does not look at its malloc; the first write copies to null.
CmpWrite == [Plain EXCEPT !.opens = "crash"]

MpackWriteUnasked == [  \* mutant: what mpack_writer_destroy says is dropped
    Plain EXCEPT !.fails = "dropped", !.ends = "unchecked"]

MpackWrite == [Plain EXCEPT !.fails = "state", !.ends = "checked"]

MsgpackCPack == [Plain EXCEPT !.loses = "output"]

MsgpackCppPack == [Plain EXCEPT !.fails = "throw"]

\* What binn_create_list and binn_create_object return is dropped.
BinnWrite == [
    Plain EXCEPT !.keys = FALSE, !.closes = "inner", !.builds = "late"]

\* The results of bson_append_* and of nested calls are dropped.
LibbsonAppend == [
    Plain EXCEPT !.fails = "dropped", !.keys = FALSE, !.closes = "inner"]

MongoCxxBuilder == [
    Plain EXCEPT !.fails = "throw", !.keys = FALSE, !.closes = "all"]

\* json_dumps may return null, of which strlen is taken.
JanssonDump == [BinnWrite EXCEPT !.ends = "crash"]

\* RapidJSON does not check its allocations.
RapidjsonWrite == [Plain EXCEPT !.fails = "crash", !.closes = "all"]

\* buffer_ubj_write notes a failure in error_occurred.
UbjWrite == [
    Plain EXCEPT !.fails = "flag", !.opens = "crash", !.closes = "all",
                    !.loses = "output"]

\* The child is lost when it cannot be pushed.
JsonBuilder == [
    Plain EXCEPT !.ends = "checked", !.keys = FALSE, !.closes = "inner",
                    !.builds = "checked", !.loses = "child"]

YajlGen == [
    Plain EXCEPT !.opens = "crash", !.closes = "all", !.loses = "output"]

\* Every call is followed by "catch unreachable".
ZigpakWrite == [Plain EXCEPT !.fails = "undefined"]

MpackFile == [MpackWrite EXCEPT !.opens = "state"]

\* Neither fopen nor fwrite is checked; libbson-file does not call fclose.
BinnFile == [BinnWrite EXCEPT !.ends = "unchecked"]

LibbsonFile == [LibbsonAppend EXCEPT !.ends = "unchecked", !.loses = "file"]

\* Two files: compact and pretty, optimised and not.  The streams ignore
\* what fwrite returns.
RapidjsonFile == [
    Plain EXCEPT !.fails = "dropped", !.opens = "noted", !.passes = 2,
                    !.closes = "all"]

UbjFile == [
    Plain EXCEPT !.fails = "dropped", !.opens = "return", !.passes = 2,
                    !.closes = "all"]

Programs == [
    cmp_write |-> CmpWrite, mpack_write |-> MpackWrite,
    msgpack_c_pack |-> MsgpackCPack, msgpack_cpp_pack |-> MsgpackCppPack,
    binn_write |-> BinnWrite, libbson_append |-> LibbsonAppend,
    mongo_cxx_builder |-> MongoCxxBuilder, jansson_dump |-> JanssonDump,
    rapidjson_write |-> RapidjsonWrite, ubj_write |-> UbjWrite,
    json_builder |-> JsonBuilder, yajl_gen |-> YajlGen,
    zigpak_write |-> ZigpakWrite, mpack_file |-> MpackFile,
    binn_file |-> BinnFile, libbson_file |-> LibbsonFile,
    rapidjson_file |-> RapidjsonFile, ubj_file |-> UbjFile]

ASSUME WriterAssumption ==
    /\ Writers \subseteq DOMAIN Programs
    /\ MaxCount \in Nat /\ MaxDepth \in Nat

\* The programs that look at what their library tells them, and rapidjson-write,
\* which drops its results but has nothing fail except an allocation, of which
\* it crashes.  In the others a failure is dropped: what they make may be less
\* than they say.
Checking ==
    DOMAIN Programs \ {"libbson_append", "zigpak_write", "binn_file",
                       "libbson_file", "rapidjson_file", "ubj_file"}

VARIABLES
    writer,             \* the program
    pc,                 \* "open", "root", "walk", "finish" or "done"
    stack,              \* the loops under way, one per open container
    calls,              \* ghost: how many calls the walk has made or begun
    pass,               \* the file being written
    ended,              \* ghost: whether the last walk came to its end
    failed,             \* ghost: whether a call has failed
    error,              \* how the program knows: "none", "return", "state",
                        \*   "flag"
    ok,                 \* what it will return, the files before included
    held,               \* documents, buffers and files not yet freed
    returned            \* what run_test or setup_test returns

vars == <<writer, pc, stack, calls, pass, ended, failed, error, ok, held,
          returned>>

It == Programs[writer]

\* A loop over size elements, left of which are still to come; at is "value"
\* between the key and the value of a map entry; doc tells whether the
\* document for them was "made", is "missing", or is "none".
Loop(map, size, doc) ==
    [map |-> map, left |-> size, at |-> "next", doc |-> doc]

Init ==
    /\ writer \in Writers
    /\ pc = "open"
    /\ stack = <<>> /\ calls = 0
    /\ pass = 1 /\ ended = FALSE
    /\ failed = FALSE /\ error = "none" /\ ok = TRUE
    /\ held = 0
    /\ returned = "none"

-----------------------------------------------------------------------------
(* The output.                                                             *)

\* One file is done, with the result it had; the next one follows.
NextFile(result) ==
    /\ ok' = (ok /\ result)
    /\ IF pass < It.passes /\ (result \/ It.opens = "noted")
       THEN pc' = "open" /\ pass' = pass + 1 /\ UNCHANGED returned
       ELSE /\ pc' = "done" /\ UNCHANGED pass
            /\ returned' = IF ok /\ result THEN "true" ELSE "false"

\* The buffer, context or file; where containers are documents the root is
\* the first of them.
OpenOutput ==
    /\ pc = "open"
    /\ pc' = "root" /\ ended' = FALSE
    /\ held' = IF It.builds = "nothing" THEN held + 1 ELSE held
    /\ UNCHANGED <<writer, stack, calls, pass, failed, error, ok, returned>>

Crash ==
    /\ pc' = "done" /\ returned' = "crashed"
    /\ UNCHANGED <<stack, error, held>>

OpenFails ==
    /\ pc = "open" /\ It.opens # "none"
    /\ failed' = TRUE /\ ended' = FALSE
    /\ \/ /\ It.opens = "state"
          /\ pc' = "root" /\ error' = "state" /\ held' = held + 1
          /\ UNCHANGED <<stack, pass, ok, returned>>
       \/ /\ It.opens \in {"return", "noted"}
          /\ NextFile(FALSE)
          /\ UNCHANGED <<stack, error, held>>
       \/ /\ It.opens = "crash"
          /\ Crash
          /\ UNCHANGED <<pass, ok>>
    /\ UNCHANGED <<writer, calls>>

-----------------------------------------------------------------------------
(* The walk.                                                               *)

Top == stack[Len(stack)]
Outer == SubSeq(stack, 1, Len(stack) - 1)
WithTop(loop) == Outer \o <<loop>>

Walking == pc = "walk" /\ error # "return" /\ stack # <<>>
AtRoot == pc = "root" /\ error # "return"
AtKey == Walking /\ Top.map /\ Top.at = "next" /\ Top.left > 0
AtValue == Walking /\ IF Top.map THEN Top.at = "value" ELSE Top.left > 0
AtEnd == Walking /\ Top.at = "next" /\ Top.left = 0

ClosedByCall == It.closes = "all" \/ (It.closes = "inner" /\ Len(stack) > 1)

\* The loop after the value at hand: a map entry was counted at its key.
Counted(loop) == IF loop.map THEN [loop EXCEPT !.at = "next"]
                             ELSE [loop EXCEPT !.left = @ - 1]

\* A call that succeeds, one that does nothing as the library is in its error
\* state, or one that fails and is not noticed here.
Emit ==
    /\ calls' = calls + 1
    /\ \/ UNCHANGED <<failed, error>>
       \/ /\ It.fails \in {"state", "flag", "dropped", "undefined"}
          /\ failed' = TRUE
          /\ error' = IF It.fails \in {"state", "flag"} THEN It.fails
                                                        ELSE error

NoCall == UNCHANGED <<calls, failed, error>>

\* A BSON document starts as it is initialised.
RootIsCall == It.closes = "inner" => It.builds # "nothing"

\* The array or map to write next; below are the loops around it.
Begin(below) ==
    \E map \in BOOLEAN, n \in 1..MaxCount :
       \/ /\ It.builds = "nothing"
          /\ IF below = <<>> /\ ~RootIsCall THEN NoCall ELSE Emit
          /\ stack' = Append(below, Loop(map, n, "none"))
          /\ UNCHANGED held
       \/ /\ It.builds # "nothing"
          /\ Emit
          /\ stack' = Append(below, Loop(map, n, "made"))
          /\ held' = held + 1
       \/ /\ It.builds = "late"
          /\ calls' = calls + 1 /\ failed' = TRUE
          /\ stack' = Append(below, Loop(map, n, "missing"))
          /\ UNCHANGED <<error, held>>

EncodeRoot ==
    /\ AtRoot
    /\ Begin(<<>>)
    /\ pc' = "walk"
    /\ UNCHANGED <<writer, pass, ended, ok, returned>>

EncodeKey ==
    /\ AtKey
    /\ IF It.keys THEN Emit ELSE NoCall
    /\ stack' = WithTop([Top EXCEPT !.at = "value", !.left = @ - 1])
    /\ UNCHANGED <<writer, pc, pass, ended, ok, held, returned>>

EncodeScalar ==
    /\ AtValue /\ Top.doc # "missing"
    /\ Emit
    /\ stack' = WithTop(Counted(Top))
    /\ UNCHANGED <<writer, pc, pass, ended, ok, held, returned>>

EncodeContainer ==
    /\ AtValue
    /\ Len(stack) < MaxDepth
    /\ Begin(WithTop(Counted(Top)))
    /\ UNCHANGED <<writer, pc, pass, ended, ok, returned>>

\* A document is freed when it has been joined to the one around it, or then
\* belongs to it; the root remains.
EndContainer ==
    /\ AtEnd
    /\ Len(stack) > 1 => stack[Len(stack) - 1].doc # "missing"
    /\ IF ClosedByCall THEN Emit ELSE NoCall
    /\ stack' = Outer
    /\ IF Len(stack) = 1
       THEN pc' = "finish" /\ ended' = TRUE /\ UNCHANGED held
       ELSE /\ held' = IF Top.doc = "made" THEN held - 1 ELSE held
            /\ UNCHANGED <<pc, ended>>
    /\ UNCHANGED <<writer, pass, ok, returned>>

-----------------------------------------------------------------------------
(* Failures that end the walk.                                             *)

\* A call fails and its result is returned, thrown or fatal.
CallFails ==
    /\ \/ AtRoot /\ It.builds # "late" /\ RootIsCall
       \/ AtKey /\ It.keys
       \/ AtValue
       \/ AtEnd /\ ClosedByCall
    /\ failed' = TRUE
    /\ \/ /\ It.fails = "return"
          /\ error' = "return"
          /\ held' \in IF It.loses = "child" /\ stack # <<>>
                      THEN {held, held + 1} ELSE {held}
          /\ UNCHANGED <<stack, pc, returned>>
       \/ /\ It.fails = "throw"
          /\ pc' = "done" /\ returned' = "false"
          /\ stack' = <<>> /\ held' = 0
          /\ UNCHANGED error
       \/ It.fails \in {"crash", "undefined"} /\ Crash
    /\ UNCHANGED <<writer, calls, pass, ended, ok>>

ReturnFailureUnfreed ==     \* mutant: a child is not freed on the way out
    /\ pc = "walk" /\ error = "return" /\ stack # <<>>
    /\ stack' = Outer
    /\ held' = IF Top.doc = "made" /\ Len(stack) = 1 THEN held - 1 ELSE held
    /\ UNCHANGED <<writer, pc, calls, pass, ended, failed, error, ok, returned>>

ReturnFailureOnce ==        \* mutant: the loop around does not look
    /\ pc = "walk" /\ error = "return" /\ stack # <<>>
    /\ stack' = Outer
    /\ held' = IF Top.doc = "made" THEN held - 1 ELSE held
    /\ error' = IF Len(stack) > 1 THEN "none" ELSE error
    /\ UNCHANGED <<writer, pc, calls, pass, ended, failed, ok, returned>>

\* The function of the innermost loop frees its document and returns.
ReturnFailure ==
    /\ pc = "walk" /\ error = "return" /\ stack # <<>>
    /\ stack' = Outer
    /\ held' = IF Top.doc = "made" THEN held - 1 ELSE held
    /\ UNCHANGED <<writer, pc, calls, pass, ended, failed, error, ok, returned>>

\* It has reached run_test.
GiveUp ==
    /\ pc \in {"root", "walk"} /\ error = "return" /\ stack = <<>>
    /\ pc' = "done" /\ returned' = "false"
    /\ held' = IF It.builds # "nothing" \/ It.loses = "output"
               THEN held ELSE held - 1
    /\ UNCHANGED <<writer, stack, calls, pass, ended, failed, error, ok>>

-----------------------------------------------------------------------------
(* Behind the walk.                                                        *)

Finish ==
    /\ pc = "finish"
    /\ NextFile(error = "none")
    /\ held' = IF \/ It.loses = "file"
                  \/ It.loses = "output" /\ error # "none"
               THEN held ELSE held - 1
    /\ UNCHANGED <<writer, stack, calls, ended, failed, error>>

\* A file that is not checked keeps a part of what it was given.
FinishFails ==
    /\ pc = "finish"
    /\ failed' = TRUE
    /\ \/ /\ It.ends = "checked"
          /\ NextFile(FALSE) /\ held' = held - 1
          /\ UNCHANGED <<stack, error>>
       \/ /\ It.ends = "unchecked"
          /\ NextFile(TRUE)
          /\ held' = IF It.loses = "file" THEN held ELSE held - 1
          /\ UNCHANGED <<stack, error>>
       \/ /\ It.ends \in {"unchecked", "crash"}
          /\ Crash
          /\ UNCHANGED <<pass, ok>>
    /\ UNCHANGED <<writer, calls, ended>>

Done == pc = "done" /\ UNCHANGED vars

Next ==
    \/ OpenOutput \/ OpenFails
    \/ EncodeRoot \/ EncodeKey \/ EncodeScalar \/ EncodeContainer
    \/ EndContainer
    \/ CallFails \/ ReturnFailure \/ GiveUp
    \/ Finish \/ FinishFails
    \/ Done

Spec == Init /\ [][Next]_vars

-----------------------------------------------------------------------------
(* Properties.                                                             *)

Loops == [map : BOOLEAN, left : Nat, at : {"next", "value"},
          doc : {"none", "made", "missing"}]

TypeOK ==
    /\ writer \in Writers
    /\ pc \in {"open", "root", "walk", "finish", "done"}
    /\ stack \in Seq(Loops)
    /\ calls \in Nat /\ pass \in 1..2
    /\ ended \in BOOLEAN /\ failed \in BOOLEAN /\ ok \in BOOLEAN
    /\ error \in {"none", "return", "state", "flag"}
    /\ held \in Nat
    /\ returned \in {"none", "true", "false", "crashed"}

Unnoticed == error = "none" /\ \E k \in DOMAIN stack : stack[k].doc = "missing"

\* "All benchmark tests perform complete error-checking (where possible)"
\* (README.md:55): a checking program returns true if and only if no call
\* failed, and then the walk came to its end.
WholeOrFalse ==
    pc = "done" /\ writer \in Checking =>
        /\ returned = "true" <=> ~failed
        /\ returned = "true" => ended

\* Wherever it fails, however many documents are under construction, what
\* was made is freed, by the programs that lose nothing, and by none twice.
AllFreed ==
    /\ held >= 0
    /\ pc = "done" /\ returned # "crashed" /\ It.loses = "nothing" => held = 0

\* "In all tests, we check for error at least once in every iteration of all
\* loops in order to early exit" (README.md:59): the programs that return what
\* failed, or throw, come to nothing more once they notice; a document that
\* is missing shows at the first call that uses it.
ExitsEarly ==
    [][failed /\ It.fails \in {"return", "throw"} /\ ~Unnoticed
       => UNCHANGED calls]_vars
=============================================================================

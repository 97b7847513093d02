------------------------------- MODULE Readers -------------------------------
(***************************************************************************)
(* The tests that decode: run_test of every parser of src/, from cmp-read  *)
(* to zigpak-read.  Each walks the document it loaded and hashes what it   *)
(* finds, so that the hash can be compared with that of hash-object, which *)
(* walks the generated object itself.                                      *)
(*                                                                         *)
(* The tests differ in the format they read, in what the library hands     *)
(* them of a number, a string and a container (Decode), in the elements    *)
(* whose names they hash, and in how an error travels: as a Boolean that   *)
(* every caller passes on, as a state of the library that is asked for in  *)
(* the loops, as an exception, or not at all.  A test is a record that     *)
(* says which.  The walk follows the document and keeps two hashes: mixed  *)
(* is what the test makes of it, due what hash-object makes of the object. *)
(* A hash is the sequence of what was mixed into it.                       *)
(*                                                                         *)
(* Two things can be wrong with a document: it may end early, and it may   *)
(* hold an element of a type the test does not handle.                     *)
(***************************************************************************)
EXTENDS Decode

CONSTANTS
    Readers,            \* the tests considered
    MaxCount,           \* bound: elements of a container
    MaxDepth            \* bound: containers around an element

-----------------------------------------------------------------------------
(* The tests.                                                              *)
(*   reads    what the test sees of values and containers                  *)
(*   order    the order in which it visits the entries of a map: that of   *)
(*            the document, or the library's own                           *)
(*   whole    the library checks the extent of the document, or builds a   *)
(*            tree of it, before the test looks at an element ...          *)
(*   gaveUp   ... and run_test returns at once when that fails             *)
(*   short    what the end of the data does in the middle of the walk      *)
(*   alien    what an element of another type does                         *)
(*   asks     where it asks for the state of the library: behind a key,    *)
(*            behind a value of a map, behind an element of an array       *)
(*   nested   whether the failure of a nested call is passed on            *)
(*   result   what run_test returns: the result of the walk, whether the   *)
(*            library has no error, or true                                *)

CmpReadNested == [      \* mutant: a nested failure is not passed on
    reads |-> Reads("messagepack", "member", "given", "given", "header"), order |-> "document",
    whole |-> FALSE, gaveUp |-> FALSE, short |-> "return", alien |-> "return",
    asks |-> {}, nested |-> FALSE, result |-> "walk"]

CmpRead == [
    reads |-> Reads("messagepack", "member", "given", "given", "header"), order |-> "document",
    whole |-> FALSE, gaveUp |-> FALSE, short |-> "return", alien |-> "return",
    asks |-> {}, nested |-> TRUE, result |-> "walk"]

MpackReadKeys == [      \* mutant: an array does not ask
    reads |-> Reads("messagepack", "value", "given", "given", "header"), order |-> "document",
    whole |-> FALSE, gaveUp |-> FALSE, short |-> "state", alien |-> "state",
    asks |-> {"key"}, nested |-> TRUE, result |-> "state"]

MpackRead == [
    reads |-> Reads("messagepack", "value", "given", "given", "header"), order |-> "document",
    whole |-> FALSE, gaveUp |-> FALSE, short |-> "state", alien |-> "state",
    asks |-> {"key", "element"}, nested |-> TRUE, result |-> "state"]

\* A tree that failed to parse has a nil root and keeps the error.
MpackNode == [
    reads |-> Reads("messagepack", "value", "given", "given", "header"), order |-> "document",
    whole |-> TRUE, gaveUp |-> FALSE, short |-> "never", alien |-> "state",
    asks |-> {"value", "element"}, nested |-> TRUE, result |-> "state"]

MsgpackCUnpack == [
    reads |-> Reads("messagepack", "value", "given", "given", "header"), order |-> "document",
    whole |-> TRUE, gaveUp |-> TRUE, short |-> "never", alien |-> "return",
    asks |-> {}, nested |-> TRUE, result |-> "walk"]

MsgpackCppUnpack == [
    reads |-> Reads("messagepack", "value", "given", "given", "header"), order |-> "document",
    whole |-> TRUE, gaveUp |-> TRUE, short |-> "never", alien |-> "throw",
    asks |-> {}, nested |-> TRUE, result |-> "walk"]

\* binn is not told the size of the data and reads on behind its end.
BinnLoad == [
    reads |-> Reads("binn", "member", "strlen", "strlen", "header"), order |-> "document",
    whole |-> FALSE, gaveUp |-> FALSE, short |-> "undefined", alien |-> "return",
    asks |-> {}, nested |-> TRUE, result |-> "walk"]

\* bson_init_static checks the size; hash_bson ignores what it returns.
LibbsonIter == [
    reads |-> Reads("bson", "value", "given", "strlen", "counted"), order |-> "document",
    whole |-> TRUE, gaveUp |-> TRUE, short |-> "never", alien |-> "return",
    asks |-> {}, nested |-> FALSE, result |-> "walk"]

MongoCxxObj == [
    reads |-> Reads("bson", "value", "given", "given", "counted"), order |-> "document",
    whole |-> FALSE, gaveUp |-> FALSE, short |-> "undefined", alien |-> "return",
    asks |-> {}, nested |-> FALSE, result |-> "walk"]

\* A map is a hash table and is visited as such ...
JanssonLoad == [
    reads |-> Reads("json", "value", "given", "strlen", "header"), order |-> "library",
    whole |-> TRUE, gaveUp |-> TRUE, short |-> "never", alien |-> "never",
    asks |-> {}, nested |-> FALSE, result |-> "walk"]

\* ... unless its entries are sorted first: PRESERVE_ORDER.
JanssonOrderedLoad == [
    reads |-> Reads("json", "value", "given", "strlen", "header"), order |-> "document",
    whole |-> TRUE, gaveUp |-> TRUE, short |-> "never", alien |-> "never",
    asks |-> {}, nested |-> TRUE, result |-> "walk"]

\* The document is null when it could not be parsed; nobody asks.
RapidjsonDom == [
    reads |-> Reads("json", "value", "given", "given", "header"), order |-> "document",
    whole |-> TRUE, gaveUp |-> FALSE, short |-> "never", alien |-> "never",
    asks |-> {}, nested |-> TRUE, result |-> "walk"]

\* The result of Parse is dropped; the exception waited for is never thrown.
RapidjsonSax == [
    reads |-> Reads("json", "value", "given", "given", "header"), order |-> "document",
    whole |-> FALSE, gaveUp |-> FALSE, short |-> "stop", alien |-> "never",
    asks |-> {}, nested |-> TRUE, result |-> "true"]

\* ubj has no way to report an error.
UbjRead == [
    reads |-> Reads("ubjson", "member", "strlen", "strlen", "header"), order |-> "document",
    whole |-> FALSE, gaveUp |-> FALSE, short |-> "undefined", alien |-> "skip",
    asks |-> {}, nested |-> FALSE, result |-> "true"]

JsonParser == [
    reads |-> Reads("json", "value", "given", "given", "header"), order |-> "document",
    whole |-> TRUE, gaveUp |-> TRUE, short |-> "never", alien |-> "never",
    asks |-> {}, nested |-> TRUE, result |-> "walk"]

\* The alien element is an integer that does not fit a long long.
YajlTree == [
    reads |-> Reads("json", "value", "strlen", "strlen", "header"), order |-> "document",
    whole |-> TRUE, gaveUp |-> TRUE, short |-> "never", alien |-> "return",
    asks |-> {}, nested |-> TRUE, result |-> "walk"]

YajlParse == [
    reads |-> Reads("json", "value", "given", "given", "counted"), order |-> "document",
    whole |-> FALSE, gaveUp |-> FALSE, short |-> "stop", alien |-> "stop",
    asks |-> {}, nested |-> TRUE, result |-> "state"]

\* Every error is "catch unreachable"; arrays and maps are hashed without
\* their size.
ZigpakRead == [
    reads |-> Reads("messagepack", "value", "given", "given", "none"), order |-> "document",
    whole |-> FALSE, gaveUp |-> FALSE, short |-> "undefined", alien |-> "undefined",
    asks |-> {}, nested |-> FALSE, result |-> "true"]

Tests == [
    cmp_read |-> CmpRead, mpack_read |-> MpackRead, mpack_node |-> MpackNode,
    msgpack_c_unpack |-> MsgpackCUnpack, msgpack_cpp_unpack |-> MsgpackCppUnpack,
    binn_load |-> BinnLoad, libbson_iter |-> LibbsonIter,
    mongo_cxx_obj |-> MongoCxxObj, jansson_load |-> JanssonLoad,
    jansson_ordered_load |-> JanssonOrderedLoad,
    rapidjson_dom |-> RapidjsonDom, rapidjson_sax |-> RapidjsonSax,
    ubj_read |-> UbjRead, json_parser |-> JsonParser, yajl_tree |-> YajlTree,
    yajl_parse |-> YajlParse, zigpak_read |-> ZigpakRead]

ASSUME ReaderAssumption ==
    /\ Readers \subseteq DOMAIN Tests
    /\ MaxCount \in Nat /\ MaxDepth \in Nat

\* The tests whose hash matches: Jansson re-orders entries in its default
\* mode (README.md:131), and zigpak-read leaves the sizes out.
Matching == DOMAIN Tests \ {"jansson_load", "zigpak_read"}

\* The tests that check for every error.  The others are told of some error
\* by the library and drop it, or cannot be told: the sources of binn-load,
\* mongo-cxx-obj and ubj-read complain about the latter.
ErrorChecking ==
    {"cmp_read", "mpack_read", "mpack_node", "msgpack_c_unpack",
     "msgpack_cpp_unpack", "jansson_load", "jansson_ordered_load",
     "json_parser", "yajl_tree", "yajl_parse"}

VARIABLES
    reader,             \* the test
    pc,                 \* "parse", "root", "walk" or "done"
    stack,              \* the loops under way, one per open container
    mixed,              \* what the test has hashed
    due,                \* what hash-object hashes for the document so far
    fault,              \* what was wrong with the document, once it was met
    error,              \* how the test knows: "none", "return" or "state"
    returned            \* what run_test returns

vars == <<reader, pc, stack, mixed, due, fault, error, returned>>

Test == Tests[reader]

Faults == {"short", "alien"}

\* A loop over size elements, left of which are still to come and count of
\* which are behind it; at is "value" between the key and the value of a map
\* entry, and named says whether the test hashes the names of the elements.
Loop(map, named, size) ==
    [map |-> map, named |-> named, size |-> size, left |-> size, count |-> 0,
     at |-> "next"]

Init ==
    /\ reader \in Readers
    /\ pc = "parse"
    /\ stack = <<>> /\ mixed = <<>> /\ due = <<>>
    /\ fault = "none" /\ error = "none"
    /\ returned = FALSE

-----------------------------------------------------------------------------
(* Before the walk.                                                        *)

\* What run_test returns at the end of a walk that met no failure itself.
Result == Test.result = "state" => fault = "none"

Parse ==
    /\ pc = "parse"
    /\ pc' = "root"
    /\ UNCHANGED <<reader, stack, mixed, due, fault, error, returned>>

\* The document is short and the library says so before the walk.  A test
\* that does not give up hashes the null it finds in place of the root.
ParseShort ==
    /\ pc = "parse" /\ Test.whole
    /\ fault' = "short"
    /\ pc' = "done"
    /\ IF Test.gaveUp
       THEN returned' = FALSE /\ UNCHANGED mixed
       ELSE returned' = (Test.result # "state") /\ mixed' = mixed \o HashNil
    /\ UNCHANGED <<reader, stack, due, error>>

-----------------------------------------------------------------------------
(* The walk.                                                               *)

Top == stack[Len(stack)]
Outer == SubSeq(stack, 1, Len(stack) - 1)
WithTop(loop) == Outer \o <<loop>>

Walking == pc = "walk" /\ error = "none"
AtKey == Walking /\ Top.map /\ Top.at = "next" /\ Top.left > 0
AtValue == Walking /\ IF Top.map THEN Top.at = "value" ELSE Top.left > 0
AtEnd == Walking /\ Top.at = "next" /\ Top.left = 0

PassedMap(loop) ==          \* mutant: the values of maps are not counted
    IF loop.map THEN [loop EXCEPT !.at = "next"]
                ELSE [loop EXCEPT !.count = @ + 1, !.left = @ - 1]

\* The loop behind the value at hand: a map entry was taken at its key.
Passed(loop) ==
    IF loop.map THEN [loop EXCEPT !.count = @ + 1, !.at = "next"]
                ELSE [loop EXCEPT !.count = @ + 1, !.left = @ - 1]

\* What the test mixes in, and what hash-object does.
Mix(own, his) == mixed' = mixed \o own /\ due' = due \o his

\* A document in BSON does not say whether it is an array: the test compares
\* the name of its first element with "0".
Zero == <<48>>
FirstNames(map) == IF map THEN Keys ELSE {Zero}
Named(map, first) == IF Test.reads.format = "bson" THEN first # Zero ELSE map

\* The root is a map or an array, of at least one element.
ReadRoot ==
    /\ pc = "root"
    /\ \E map \in BOOLEAN, n \in 1..MaxCount : \E first \in FirstNames(map) :
          stack' = <<Loop(map, Named(map, first), n)>>
    /\ pc' = "walk"
    /\ UNCHANGED <<reader, mixed, due, fault, error, returned>>

\* The key that comes next in the document, and the one the test visits: of
\* several entries a library with an order of its own may take any.
Visited(key) == IF Test.order = "library" /\ Top.size > 1 THEN Keys ELSE {key}

ReadKey ==
    /\ AtKey
    /\ \E key \in Keys : \E visited \in Visited(key) :
          Mix(IF Top.named THEN HashStr(Bytes(Test.reads.key, visited)) ELSE <<>>,
              HashStr(key))
    /\ stack' = WithTop([Top EXCEPT !.at = "value", !.left = @ - 1])
    /\ UNCHANGED <<reader, pc, fault, error, returned>>

\* A value that is not a container.
ReadElement(own, his) ==
    /\ AtValue
    /\ Mix(own, his)
    /\ stack' = WithTop(Passed(Top))
    /\ UNCHANGED <<reader, pc, fault, error, returned>>

ReadNil == ReadElement(HashNil, HashNil)
ReadBool == \E b \in BOOLEAN : ReadElement(HashBool(b), HashBool(b))
ReadReal == ReadElement(HashDouble, HashDouble)

\* The number has become one of a type of the format, and a number again.
HashRead(type, v) == HashInt(type, Fetched(Test.reads.ints, type, v))

ReadInt ==
    \E v \in Numbers : \E type \in Forms(Test.reads.format, v) :
        ReadElement(HashRead(type, v), HashI64(v))

ReadUint ==
    \E v \in Numbers : \E type \in Forms(Test.reads.format, v) :
        v >= 0 /\ ReadElement(HashRead(type, v), HashU64(v))

ReadStr ==
    \E str \in Texts :
        ReadElement(HashStr(Bytes(Test.reads.text, str)), HashStr(str))

ReadContainer ==
    /\ AtValue
    /\ Len(stack) < MaxDepth
    /\ \E map \in BOOLEAN, n \in 1..MaxCount :
          stack' = WithTop(Passed(Top)) \o <<Loop(map, map, n)>>
    /\ UNCHANGED <<reader, pc, mixed, due, fault, error, returned>>

\* The end of a loop.  The end of the outermost is the end of the walk.
Leave(result) ==
    /\ stack' = Outer
    /\ IF Len(stack) = 1 THEN pc' = "done" /\ returned' = result
                         ELSE UNCHANGED <<pc, returned>>

\* The size of the container as the test has it.
HashSize ==
    CASE Test.reads.size = "header" -> HashU32(Top.size)
      [] Test.reads.size = "counted" -> HashU32(Top.count)
      [] Test.reads.size = "none" -> <<>>

EndContainer ==
    /\ AtEnd
    /\ Mix(HashSize, HashU32(Top.size))
    /\ Leave(Result)
    /\ UNCHANGED <<reader, fault, error>>

-----------------------------------------------------------------------------
(* Errors.                                                                 *)

\* The test leaves the walk at once.
Abandon(result) ==
    /\ stack' = <<>> /\ pc' = "done" /\ returned' = result
    /\ UNCHANGED error

\* The call that met the error is over: with a state of the library, or with
\* nothing noticed, the loop is behind the value.
React(how) ==
    \/ how = "return"
          /\ error' = how /\ UNCHANGED <<stack, pc, returned>>
    \/ how = "state"
          /\ error' = how /\ UNCHANGED <<pc, returned>>
          /\ stack' = IF AtValue THEN WithTop(Passed(Top)) ELSE stack
    \/ how = "throw" /\ Abandon(FALSE)
    \/ how = "stop" /\ Abandon(Test.result = "true")
    \/ how = "undefined" /\ \E result \in BOOLEAN : Abandon(result)
    \/ how = "skip"
          /\ stack' = WithTop(Passed(Top)) /\ UNCHANGED <<error, pc, returned>>

\* The document is wrong at the key or the value at hand.  A reader in its
\* error state makes a nil of the value it was to read.
MeetFault(kind) ==
    /\ fault = "none"
    /\ AtValue \/ (AtKey /\ kind = "short")
    /\ fault' = kind
    /\ React(Test[kind])
    /\ mixed' \in IF Test[kind] = "state" /\ kind = "short" /\ AtValue
                 THEN {mixed, mixed \o HashNil} ELSE {mixed}
    /\ UNCHANGED <<reader, due>>

\* The function whose loop met the error returns.  Its caller fails too or,
\* not looking, continues with its own loop.
ReturnFailure ==
    /\ pc = "walk" /\ error = "return"
    /\ Leave(FALSE)
    /\ error' = IF Test.nested THEN error ELSE "none"
    /\ UNCHANGED <<reader, mixed, due, fault>>

\* Whether the loop asks for the state of the library before it reads on: an
\* array behind every element, a map behind every value or, in mpack-read,
\* behind the next key, if one is left.
Noticed ==
    IF Top.map THEN \/ "value" \in Test.asks
                    \/ "key" \in Test.asks /\ Top.left > 0
               ELSE "element" \in Test.asks

ReturnState ==
    /\ pc = "walk" /\ error = "state" /\ Noticed
    /\ Leave(Result)
    /\ UNCHANGED <<reader, mixed, due, fault, error>>

\* A loop that does not ask takes its turns, of which each reads a nil, and
\* hashes its size.
GoOnInError ==
    /\ pc = "walk" /\ error = "state" /\ ~Noticed
    /\ IF Top.left > 0
       THEN /\ stack' = WithTop([Top EXCEPT !.left = @ - 1])
            /\ mixed' = mixed \o HashNil
            /\ UNCHANGED <<pc, returned>>
       ELSE Leave(Result) /\ mixed' = mixed \o HashSize
    /\ UNCHANGED <<reader, due, fault, error>>

Done == pc = "done" /\ UNCHANGED vars

Next ==
    \/ Parse \/ ParseShort \/ ReadRoot \/ ReadKey
    \/ ReadNil \/ ReadBool \/ ReadReal \/ ReadInt \/ ReadUint \/ ReadStr
    \/ ReadContainer \/ EndContainer
    \/ \E kind \in Faults : MeetFault(kind)
    \/ ReturnFailure \/ ReturnState \/ GoOnInError
    \/ Done

Spec == Init /\ [][Next]_vars

-----------------------------------------------------------------------------
(* Properties.                                                             *)

Loops ==
    [map : BOOLEAN, named : BOOLEAN, size : Nat, left : Nat, count : Nat,
     at : {"next", "value"}]

TypeOK ==
    /\ reader \in Readers
    /\ pc \in {"parse", "root", "walk", "done"}
    /\ stack \in Seq(Loops)
    /\ pc = "walk" <=> stack # <<>>
    /\ fault \in {"none"} \cup Faults
    /\ error \in {"none", "return", "state"}
    /\ returned \in BOOLEAN

\* "All tests output a hash value which should match regardless of data
\* format" (README.md:131, and :145 for the incremental tests), so that no
\* precision and no type was lost: a test that met nothing wrong returns true
\* and has hashed what hash-object does, whichever type of the format a
\* number was written as, wherever the length of a string and the size of a
\* container come from, and whatever the root of a document in BSON is.
HashesMatch ==
    pc = "done" /\ fault = "none" => returned /\ mixed = due

\* The same of the tests that hash the sizes and visit maps in order.
Agreement == reader \in Matching => HashesMatch

\* "All benchmark tests perform complete error-checking (where possible)"
\* (README.md:55): a test that met something wrong returns false.
FaultReported == pc = "done" /\ fault # "none" => ~returned

\* The same of the tests that do check.
FaultSeen == reader \in ErrorChecking => FaultReported

\* "We check for error at least once in every iteration of all loops in order
\* to early exit" (README.md:59): once something wrong was met, every step
\* leaves a loop, however deeply nested, and none takes another turn.
EarlyExit ==
    [][fault # "none" /\ reader \in ErrorChecking
        => Len(stack') < Len(stack)]_vars
=============================================================================

------------------------------ MODULE SaxParser ------------------------------
(***************************************************************************)
(* src/yajl/yajl-parse.c: the callbacks of the incremental YAJL test.      *)
(*                                                                         *)
(* The callbacks must hash, at the end of every array and map, how many    *)
(* children it had.  YAJL does not say, so parser_t counts: children[d] is *)
(* the count of the compound open at depth d.                              *)
(*                                                                         *)
(* parser_init sets depth to -1 and parse_start_compound counts the new    *)
(* compound in its parent before it looks at the depth, so the start of    *)
(* the document increments children[-1].  That is undefined behaviour; in  *)
(* the layout of parser_t the word in front of children is depth itself.   *)
(* Depending on what the compiler keeps in registers the increment is seen *)
(* by the code after it, or overwritten by it: both are modelled.          *)
(*                                                                         *)
(* Which callbacks are called is up to YAJL and the document.  YAJL is     *)
(* taken to report a well-formed prefix: compounds nest and are closed in  *)
(* order, and a truncated file ends in an error.                           *)
(***************************************************************************)
EXTENDS Integers, Sequences

CONSTANTS
    Slots,              \* the length of children, 32
    MaxNesting,         \* how deep the documents nest
    MaxChildren         \* bound: children per compound

\* generator.c picks no container at depth 31, so that a generated document
\* has at most 31 levels: one less than there are slots.
ASSUME NestingAssumption ==
    /\ Slots \in Nat /\ MaxNesting \in Nat /\ MaxChildren \in Nat
    /\ MaxNesting < Slots

VARIABLES
    depth, children,    \* of parser_t
    hashed,             \* the count hashed by the last parse_end_compound
    open,               \* the document: children so far of each open compound
    ended,              \*   and how many the one that ended last had
    begun,              \* whether the root has been opened
    status              \* "parsing", or what yajl_parse returns

parser == <<depth, children, hashed>>
document == <<open, ended, begun>>
parserVars == <<depth, children, hashed, open, ended, begun, status>>

Indices == 0..(Slots - 1)

\* parser_init leaves children as it finds it on the stack.
ParserInit ==
    /\ depth = -1
    /\ children \in [Indices -> {0, MaxChildren}]
    /\ hashed = 0
    /\ open = <<>> /\ ended = 0 /\ begun = FALSE
    /\ status = "parsing"

Increment(f, k) == [f EXCEPT ![k] = @ + 1]

-----------------------------------------------------------------------------
(* The document.                                                           *)

InCompound == status = "parsing" /\ open # <<>>
Level == Len(open)
CountedChild == [open EXCEPT ![Level] = @ + 1]

-----------------------------------------------------------------------------
(* The callbacks.                                                          *)

\* parse_null, parse_boolean, parse_integer, parse_double, parse_string.
\* parse_map_key only hashes the key.
ParseScalar ==
    /\ InCompound
    /\ open[Level] < MaxChildren
    /\ open' = CountedChild
    /\ children' = Increment(children, depth)
    /\ UNCHANGED <<depth, hashed, ended, begun, status>>

\* The rest of parse_start_compound, d being the depth it reads and c the
\* counts it leaves in children.
EnterCompoundStale(d, c) ==     \* mutant: the new slot is not cleared
    IF d + 1 >= Slots
    THEN /\ status' = "canceled"
         /\ depth' = d /\ children' = c
    ELSE /\ depth' = d + 1
         /\ children' = c
         /\ UNCHANGED status

EnterCompoundTight(d, c) ==     \* mutant: one slot is given away
    IF d + 2 >= Slots
    THEN /\ status' = "canceled"
         /\ depth' = d /\ children' = c
    ELSE /\ depth' = d + 1
         /\ children' = [c EXCEPT ![d + 1] = 0]
         /\ UNCHANGED status

EnterCompound(d, c) ==
    IF d + 1 >= Slots
    THEN /\ status' = "canceled"
         /\ depth' = d /\ children' = c
    ELSE /\ depth' = d + 1
         /\ children' = [c EXCEPT ![d + 1] = 0]
         /\ UNCHANGED status

\* The root: children[-1] is incremented, which may or may not be depth.
ParseStartRoot ==
    /\ status = "parsing"
    /\ ~begun
    /\ MaxNesting > 0
    /\ \E d \in {depth, depth + 1} : EnterCompound(d, children)
    /\ open' = <<0>>
    /\ begun' = TRUE
    /\ UNCHANGED <<hashed, ended>>

ParseStartCompound ==
    /\ InCompound
    /\ open[Level] < MaxChildren
    /\ Level < MaxNesting
    /\ EnterCompound(depth, Increment(children, depth))
    /\ open' = Append(CountedChild, 0)
    /\ UNCHANGED <<hashed, ended, begun>>

ParseEndCompoundTwice ==        \* mutant: depth is decremented twice
    /\ InCompound
    /\ hashed' = children[depth]
    /\ depth' = depth - 2
    /\ ended' = open[Level]
    /\ open' = SubSeq(open, 1, Level - 1)
    /\ UNCHANGED <<children, begun, status>>

ParseEndCompound ==
    /\ InCompound
    /\ hashed' = children[depth]
    /\ depth' = depth - 1
    /\ ended' = open[Level]
    /\ open' = SubSeq(open, 1, Level - 1)
    /\ UNCHANGED <<children, begun, status>>

\* yajl_complete_parse, at the end of a whole document or of a part of one.
CompleteParse ==
    /\ status = "parsing"
    /\ status' = IF begun /\ open = <<>> THEN "ok" ELSE "error"
    /\ UNCHANGED <<parser, document>>

Stopped == status # "parsing" /\ UNCHANGED parserVars

ParserNext ==
    \/ ParseScalar \/ ParseStartRoot \/ ParseStartCompound
    \/ ParseEndCompound \/ CompleteParse \/ Stopped

ParserSpec == ParserInit /\ [][ParserNext]_parserVars

-----------------------------------------------------------------------------
(* Properties.                                                             *)

ParserTypeOK ==
    /\ depth \in -1..(Slots - 1)
    /\ children \in [Indices -> Nat]
    /\ hashed \in Nat
    /\ open \in Seq(Nat)
    /\ ended \in Nat
    /\ begun \in BOOLEAN
    /\ status \in {"parsing", "ok", "error", "canceled"}

\* The count hashed at the end of a compound is the number of its children,
\* whatever was nested in it and whatever the first increment hit.
CountsMatch == hashed = ended

\* Inside a compound depth names a slot: children[-1] is only ever touched by
\* the start of the root.
InBounds == InCompound => depth \in Indices

\* The array is long enough: no document the generator can make is canceled.
NeverCanceled == status # "canceled"

\* The compounds that are open have their counts, level by level, in
\* neighbouring slots; the root's is slot 0 or, if the first increment hit
\* depth, slot 1.
Counts(skew) ==
    /\ depth = Level - 1 + skew
    /\ \A k \in 1..Level : children[k - 1 + skew] = open[k]
SlotsInStep ==
    status = "parsing" /\ begun => \E skew \in {0, 1} : Counts(skew)
=============================================================================

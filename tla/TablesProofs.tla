---------------------------- MODULE TablesProofs ----------------------------
(***************************************************************************)
(* Proofs about Tables, for any benchmarks, any number of iterations and   *)
(* builds and any times.                                                   *)
(*                                                                         *)
(* There are two arguments.  The one is about results.py: of whatever rows *)
(* it reads, tables that no exception has kept it from writing are what    *)
(* they have to be (WrittenFacts).  That the highest and the lowest time   *)
(* can be dropped needs that finitely many numbers have a highest.         *)
(*                                                                         *)
(* The other is about make, which compares times of modification only.  A  *)
(* file that is newer than results.csv is what results.py makes of it now  *)
(* (DocsCurrent), since every row that is appended makes both files older. *)
(* That says nothing of the kind of build a table is of: Skip might leave  *)
(* the tables of another kind, and a success would stand for them.  But a  *)
(* command that builds and comes to the tables has appended rows, all that *)
(* it was to (InRun, AllRan), so that it finds no file up to date and      *)
(* makes both (Tabled).                                                    *)
(* cp goes through the files one by one: those behind it are still what    *)
(* lies in the directory (Copies), so that the last one completes a match. *)
(***************************************************************************)
EXTENDS Tables, FiniteSetTheorems, SequenceTheorems,
        WellFoundedInduction, TLAPS

Measuring == command.what \in {"make", "container"}
Sizes == Len(ObjectSizes(Opt))

\* The rows that the command under way may still append.
ToCome ==
    (TimesRun(command.what) - iteration) * (Len(Tests) * Sizes)
        + (Len(Tests) + 1 - next) * Sizes

Prepared ==
    /\ pc # "run" => iteration = 1 /\ failed = FALSE
    /\ pc \notin {"run", "copy"} => next = 1
    /\ pc = "run" =>
        /\ Measuring /\ next <= Len(Tests) + 1
        /\ iteration <= TimesRun(command.what)
        /\ Len(csv) + ToCome <= Len(Times)

\* A file that is newer than results.csv is what results.py makes of it now.
DocsCurrent ==
    \A d \in fresh : \E opt \in Kinds :
        docs[d] = IF csv = <<>> THEN NoDoc ELSE Written(opt, d)

\* The command has appended a row of test t, of its executable of now.
HasRow(t, n) ==
    \E k \in since + 1..Len(csv) :
        /\ csv[k].test = t /\ csv[k].size = n
        /\ csv[k].opt = Opt /\ csv[k].code = code[t]
Ran(t) == \A n \in ToSet(ObjectSizes(Opt)) : HasRow(t, n)

InRun ==
    pc = "run" =>
        /\ since <= Len(csv) /\ (Len(csv) > since => fresh = {})
        /\ ~failed => \A j \in 1..(next - 1) : Ran(Tests[j])

\* The command has come to the tables, or to its end.
Through == pc \in Docs \cup {"copy"} \/ (pc = "idle" /\ command.ok)

AllRan == Measuring /\ Through => \A j \in 1..Len(Tests) : Ran(Tests[j])

Chain ==
    /\ pc = "copy" => command.what = "container"
    /\ pc \in Docs => Measuring \/ command.what = "results"
    /\ command.what = "container" /\ Through => Opt = "Speed"

\* The file was made by the command under way.
Made(d) == d \in fresh /\ docs[d].whole /\ docs[d].opt = Opt

Tabled ==
    Measuring =>
        /\ pc = "results.md" => fresh = {}
        /\ pc = "results-extended.md" => fresh = {"results.md"} /\ Made("results.md")
        /\ pc = "copy" \/ (pc = "idle" /\ command.ok) => \A d \in Docs : Made(d)

\* The files that cp has done are those of the command under way.
Source(f) == IF f \in Docs THEN docs[f] ELSE csv
Copies ==
    /\ CopiedAgree
    /\ pc = "copy" =>
        next \in 1..3 /\ \A k \in 1..(next - 1) : copied[Files[k]] = Source(Files[k])

IInv ==
    /\ TypeOK /\ Prepared /\ DocsCurrent /\ InRun /\ AllRan /\ Chain /\ Tabled
    /\ Copies

-----------------------------------------------------------------------------
(* Finite sets of numbered things.                                         *)

\* Among finitely many there is one of the highest number: in the smallest of
\* the sets of those not below a given one, none is below another.
LEMMA HighestExists ==
    ASSUME NEW S, IsFiniteSet(S), S # {}, NEW f \in [S -> Int]
    PROVE  \E x \in S : \A y \in S : f[y] <= f[x]
<1> DEFINE NotBelow(x) == {y \in S : f[x] <= f[y]}
           Tops == {NotBelow(x) : x \in S}
           R == StrictSubsetOrdering(S)
<1>1. IsWellFoundedOn(R, SUBSET S)
    BY FS_StrictSubsetOrderingWellFounded, FS_FiniteSubsetsOfFinite
<1>2. Tops \subseteq SUBSET S /\ Tops # {}
    <2>1. \A x \in S : NotBelow(x) \in SUBSET S /\ NotBelow(x) \in Tops
        OBVIOUS
    <2> HIDE DEF NotBelow
    <2> QED BY <2>1
<1>3. PICK T \in Tops : \A U \in Tops : <<U, T>> \notin R
    <2> HIDE DEF Tops, R
    <2> QED BY <1>1, <1>2, WFMin
<1>4. PICK x \in S : T = NotBelow(x)
    OBVIOUS
<1>5. ASSUME NEW y \in S PROVE f[y] <= f[x]
    <2> SUFFICES ASSUME ~(f[y] <= f[x]) PROVE FALSE
        OBVIOUS
    <2>1. f[x] < f[y] /\ f[x] \in Int /\ f[y] \in Int
        OBVIOUS
    <2>2. NotBelow(y) \subseteq T
        BY <1>4, <2>1
    <2>3. x \in T /\ x \notin NotBelow(y)
        BY <1>4, <2>1
    <2>4. NotBelow(y) \in Tops /\ T \in Tops
        OBVIOUS
    <2>5. <<NotBelow(y), T>> \in R
        <3> HIDE DEF NotBelow, Tops
        <3> QED BY <2>2, <2>3, <2>4, <1>2 DEF StrictSubsetOrdering
    <2> QED BY <2>4, <2>5, <1>3
<1> QED BY <1>5

\* And one of the lowest.
LEMMA LowestExists ==
    ASSUME NEW S, IsFiniteSet(S), S # {}, NEW f \in [S -> Int]
    PROVE  \E x \in S : \A y \in S : f[x] <= f[y]
<1> DEFINE g == [x \in S |-> -f[x]]
<1>1. g \in [S -> Int] /\ \A x \in S : g[x] = -f[x]
    OBVIOUS
<1> HIDE DEF g
<1>2. PICK x \in S : \A y \in S : g[y] <= g[x]
    BY <1>1, HighestExists
<1>3. ASSUME NEW y \in S PROVE f[x] <= f[y]
    <2>1. g[y] <= g[x] /\ g[y] = -f[y] /\ g[x] = -f[x]
        BY <1>1, <1>2
    <2>2. f[x] \in Int /\ f[y] \in Int
        OBVIOUS
    <2> QED BY <2>1, <2>2
<1> QED BY <1>3

-----------------------------------------------------------------------------
(* results.py.                                                             *)

LEMMA CsvFacts ==
    ASSUME csv \in Seq(CsvRows)
    PROVE  /\ Len(csv) \in Nat /\ DOMAIN csv = 1..Len(csv)
           /\ IsFiniteSet(DOMAIN csv)
           /\ \A k \in DOMAIN csv : csv[k] \in CsvRows
           /\ \A r : r \in ToSet(csv) <=> \E k \in DOMAIN csv : csv[k] = r
<1>1. Len(csv) \in Nat /\ DOMAIN csv = 1..Len(csv)
    OBVIOUS
<1>2. IsFiniteSet(1..Len(csv))
    BY <1>1, FS_Interval
<1>3. \A k \in DOMAIN csv : csv[k] \in CsvRows
    BY <1>1
<1> QED BY <1>1, <1>2, <1>3 DEF ToSet

LEMMA RowsFacts ==
    ASSUME csv \in Seq(CsvRows), NEW opt, NEW size, NEW test
    PROVE  /\ IsFiniteSet(RowsOf(opt, size, test))
           /\ RowsOf(opt, size, test) \subseteq DOMAIN csv
           /\ \A k \in RowsOf(opt, size, test) :
                  csv[k].opt = opt /\ csv[k].size = size /\ csv[k].test = test
<1>1. RowsOf(opt, size, test) \subseteq DOMAIN csv
    BY DEF RowsOf
<1> QED BY <1>1, CsvFacts, FS_Subset DEF RowsOf

\* The code of an entry is that of its rows, if they agree on it.
LEMMA CodeFacts ==
    ASSUME csv \in Seq(CsvRows), NEW opt, NEW size, NEW test,
           CodesMatch(opt), RowsOf(opt, size, test) # {}
    PROVE  /\ CodeOf(opt, size, test) \in Int
           /\ \A k \in RowsOf(opt, size, test) :
                  csv[k].code = CodeOf(opt, size, test)
<1> DEFINE rows == RowsOf(opt, size, test)
           f == [k \in rows |-> k]
<1>1. /\ IsFiniteSet(rows) /\ rows \subseteq DOMAIN csv /\ rows # {}
      /\ \A k \in rows :
             csv[k].opt = opt /\ csv[k].size = size /\ csv[k].test = test
    BY RowsFacts
<1>2. f \in [rows -> Int] /\ \A k \in rows : f[k] = k
    BY <1>1, CsvFacts
<1> HIDE DEF rows, f
<1>3. PICK x \in rows : \A y \in rows : f[x] <= f[y]
    BY <1>1, <1>2, LowestExists
<1>4. \A y \in rows : x <= y
    BY <1>2, <1>3
<1>5. Min(rows) \in rows
    BY <1>4 DEF Min
<1>6. CodeOf(opt, size, test) = csv[Min(rows)].code
    BY DEF CodeOf, rows
<1>7. \A k \in rows : csv[k].code = csv[Min(rows)].code
    BY <1>1, <1>5 DEF CodesMatch
<1>8. csv[Min(rows)].code \in Int
    BY <1>1, <1>5, CsvFacts DEF CsvRows
<1> QED BY <1>6, <1>7, <1>8 DEF rows

\* What is dropped is two rows, of which one is no shorter and one no longer
\* than any that is kept.
LEMMA TrimFacts ==
    ASSUME csv \in Seq(CsvRows), NEW opt, NEW size, NEW test
    PROVE  Averages(TimesOf(opt, size, test), RowsOf(opt, size, test))
<1> DEFINE rows == RowsOf(opt, size, test)
           times == TimesOf(opt, size, test)
<1>1. IsFiniteSet(rows) /\ rows \subseteq DOMAIN csv
    BY RowsFacts
<1>2. \A k \in rows : csv[k].time \in Int
    BY <1>1, CsvFacts DEF CsvRows
<1>3. DOMAIN times = Trim(rows) /\ \A k \in Trim(rows) : times[k] = csv[k].time
    BY DEF TimesOf
<1>4. Cardinality(rows) \in Nat /\ Untrimmed \in Nat \ {0}
    BY <1>1, FS_CardinalityType, TablesAssumption
<1> HIDE DEF rows, times
<1>5. CASE Cardinality(rows) <= Untrimmed
    <2>1. Trim(rows) = rows
        BY <1>5 DEF Trim
    <2> QED BY <2>1, <1>3, <1>4, <1>5 DEF Averages, rows, times
<1>6. CASE ~(Cardinality(rows) <= Untrimmed)
    <2> DEFINE n == Highest(rows)
               rest == rows \ {n}
               m == Lowest(rest)
               f == [k \in rows |-> csv[k].time]
               g == [k \in rest |-> csv[k].time]
    <2>1. Cardinality(rows) > 1
        BY <1>4, <1>6
    <2>2. n \in rows /\ \A k \in rows : csv[k].time <= csv[n].time
        <3>1. rows # {}
            <4>1. Cardinality({}) = 0
                BY FS_EmptySet
            <4>2. rows = {} => Cardinality(rows) = 0
                BY <4>1, Zenon
            <4> QED BY <2>1, <4>2
        <3>2. f \in [rows -> Int]
            BY <1>2
        <3>3. \E x \in rows : \A y \in rows : f[y] <= f[x]
            <4> HIDE DEF f
            <4> QED BY <1>1, <3>1, <3>2, HighestExists
        <3>4. \E x \in rows : \A y \in rows : csv[y].time <= csv[x].time
            BY <3>3
        <3> QED BY <3>4 DEF Highest
    <2> HIDE DEF n
    <2>3. m \in rest /\ \A k \in rest : csv[m].time <= csv[k].time
        <3>1. IsFiniteSet(rest) /\ rest # {}
            <4>1. IsFiniteSet(rest) /\ Cardinality(rest) = Cardinality(rows) - 1
                BY <1>1, <2>2, FS_RemoveElement
            <4>2. Cardinality({}) = 0
                BY FS_EmptySet
            <4> HIDE DEF rest
            <4>3. rest = {} => Cardinality(rest) = 0
                BY <4>2, Zenon
            <4>4. Cardinality(rest) # 0
                BY <1>4, <2>1, <4>1
            <4> QED BY <4>1, <4>3, <4>4
        <3>2. g \in [rest -> Int]
            BY <1>2
        <3>3. \E x \in rest : \A y \in rest : g[x] <= g[y]
            <4> HIDE DEF g, rest
            <4> QED BY <3>1, <3>2, LowestExists
        <3>4. \E x \in rest : \A y \in rest : csv[x].time <= csv[y].time
            BY <3>3
        <3> HIDE DEF rest
        <3> QED BY <3>4 DEF Lowest
    <2> HIDE DEF m
    <2>4. Trim(rows) = rest \ {m}
        BY <1>6 DEF Trim, n, m
    <2>5. /\ m \in rows /\ n \in rows /\ m # n
          /\ rows = Trim(rows) \cup {m, n} /\ Trim(rows) \subseteq rows
          /\ \A k \in Trim(rows) : k \notin {m, n}
        BY <2>2, <2>3, <2>4
    <2>6. \A k \in Trim(rows) : csv[m].time <= csv[k].time /\ csv[k].time <= csv[n].time
        BY <2>2, <2>3, <2>4
    <2> HIDE DEF rest
    <2>7. Averages(times, rows)
        BY <1>3, <1>6, <2>5, <2>6 DEF Averages
    <2> QED BY <2>7 DEF rows, times
<1> QED BY <1>5, <1>6

\* An entry of tables that could be written.
LEMMA EntryFacts ==
    ASSUME csv \in Seq(CsvRows), NEW opt, CodesMatch(opt), HashesThere(opt),
           NEW r \in ToSet(csv), r.opt = opt, NEW h \in Hashes
    PROVE  LET e == Entry(opt, r.size, r.test, h)
           IN  /\ e.test = r.test /\ e.size = r.size /\ e.code = r.code
               /\ IsOfRows(e, opt)
<1> DEFINE e == Entry(opt, r.size, r.test, h)
           rows == RowsOf(opt, r.size, r.test)
           hashRows == RowsOf(opt, r.size, h)
<1>1. /\ e.test = r.test /\ e.size = r.size
      /\ e.code = CodeOf(opt, r.size, r.test)
      /\ e.net = CodeOf(opt, r.size, r.test) - CodeOf(opt, r.size, h)
      /\ e.times = TimesOf(opt, r.size, r.test)
      /\ e.sub = TimesOf(opt, r.size, h)
    BY DEF Entry
<1> HIDE DEF e
<1>2. PICK k \in DOMAIN csv : csv[k] = r
    BY CsvFacts
<1>3. k \in rows
    BY <1>2 DEF RowsOf
<1>4. hashRows # {}
    BY DEF HashesThere
<1>5. CodeOf(opt, r.size, r.test) \in Int /\ CodeOf(opt, r.size, h) \in Int
    BY <1>3, <1>4, CodeFacts
<1>6. \A j \in rows : csv[j].code = e.code
    BY <1>1, <1>3, CodeFacts
<1>7. \A j \in hashRows : csv[j].code = e.code - e.net
    <2>1. e.code - e.net = CodeOf(opt, r.size, h)
        BY <1>1, <1>5
    <2> QED BY <2>1, <1>4, CodeFacts
<1>8. Averages(e.times, rows) /\ Averages(e.sub, hashRows)
    BY <1>1, TrimFacts
<1>9. e.code = r.code
    BY <1>2, <1>3, <1>6
<1>10. IsOfRows(e, opt)
    BY <1>1, <1>3, <1>6, <1>7, <1>8 DEF IsOfRows
<1> QED BY <1>1, <1>9, <1>10 DEF e

\* What results.py writes without an exception is what a table has to be.
LEMMA WrittenFacts ==
    ASSUME csv \in Seq(CsvRows), NEW opt, NEW d, Written(opt, d).whole
    PROVE  /\ \A e \in Written(opt, d).tables : IsOfRows(e, opt)
           /\ CountEvery(Written(opt, d).tables, d, opt, csv)
<1>1. CodesMatch(opt) /\ HashesThere(opt)
    BY DEF Written
<1>2. Written(opt, d).tables = TablesOf(opt, d)
    BY <1>1 DEF Written
<1>3. \A test : HashOf(d, test) \in Hashes
    BY DEF HashOf, Hashes
<1>4. ASSUME NEW e \in TablesOf(opt, d) PROVE IsOfRows(e, opt)
    <2>1. PICK r \in ToSet(csv) :
              r.opt = opt /\ e = Entry(opt, r.size, r.test, HashOf(d, r.test))
        BY DEF TablesOf
    <2> QED BY <2>1, <1>1, <1>3, EntryFacts
<1>5. ASSUME NEW r \in ToSet(csv), r.opt = opt, r.test \in Listed(d)
      PROVE  \E e \in TablesOf(opt, d) :
                 e.test = r.test /\ e.size = r.size /\ e.code = r.code
    <2>1. Entry(opt, r.size, r.test, HashOf(d, r.test)) \in TablesOf(opt, d)
        BY <1>5 DEF TablesOf
    <2> QED BY <2>1, <1>1, <1>3, <1>5, EntryFacts
<1> QED BY <1>2, <1>4, <1>5 DEF CountEvery

\* It depends on results.csv alone.
LEMMA WrittenSame ==
    ASSUME csv' = csv, NEW opt, NEW d
    PROVE  Written(opt, d)' = Written(opt, d)
<1>1. \A size, test : RowsOf(opt, size, test)' = RowsOf(opt, size, test)
    BY DEF RowsOf
<1>2. \A size, test : CodeOf(opt, size, test)' = CodeOf(opt, size, test)
    BY <1>1 DEF CodeOf
<1>3. \A size, test : TimesOf(opt, size, test)' = TimesOf(opt, size, test)
    <2>1. \A rows : Highest(rows)' = Highest(rows) /\ Lowest(rows)' = Lowest(rows)
        BY DEF Highest, Lowest
    <2>2. \A rows : Trim(rows)' = Trim(rows)
        BY <2>1 DEF Trim
    <2> QED BY <1>1, <2>2 DEF TimesOf
<1>4. CodesMatch(opt)' = CodesMatch(opt)
    BY DEF CodesMatch
<1>5. HashesThere(opt)' = HashesThere(opt)
    BY <1>1, Zenon DEF HashesThere
<1>6. \A size, test, h : Entry(opt, size, test, h)' = Entry(opt, size, test, h)
    BY <1>2, <1>3, Zenon DEF Entry
<1>7. TablesOf(opt, d)' = TablesOf(opt, d)
    BY <1>6 DEF TablesOf
<1> QED BY <1>4, <1>5, <1>7, Zenon DEF Written

-----------------------------------------------------------------------------
(* What a step leaves alone.                                               *)

LEMMA SizesFacts ==
    ASSUME NEW opt \in Kinds
    PROVE  /\ Len(ObjectSizes(opt)) \in {1, 2}
           /\ \A k \in 1..Len(ObjectSizes(opt)) : ObjectSizes(opt)[k] \in {2, 4}
           /\ \A n : n \in ToSet(ObjectSizes(opt)) <=>
                  \E k \in 1..Len(ObjectSizes(opt)) : ObjectSizes(opt)[k] = n
BY DEF ObjectSizes, ToSet, Kinds

LEMMA TestsFacts ==
    /\ Len(Tests) \in Nat \ {0}
    /\ \A j \in 1..Len(Tests) : Tests[j] \in ToSet(Tests)
    /\ \A t : t \in ToSet(Tests) <=> \E j \in 1..Len(Tests) : Tests[j] = t
<1>1. Tests \in Seq(ToSet(Tests)) /\ Tests # <<>>
    BY TablesAssumption
<1>2. Len(Tests) \in Nat \ {0} /\ DOMAIN Tests = 1..Len(Tests)
    BY <1>1, EmptySeq
<1> QED BY <1>2 DEF ToSet

\* Rows stay rows of the command while its flavour and the code do.
LEMMA RanSame ==
    ASSUME UNCHANGED <<csv, code, since>>, Opt' = Opt, NEW t
    PROVE  Ran(t)' = Ran(t)
BY DEF Ran, HasRow

LEMMA DocsSame ==
    ASSUME DocsCurrent, UNCHANGED <<csv, docs>>, fresh' \subseteq fresh
    PROVE  DocsCurrent'
<1> SUFFICES ASSUME NEW d \in fresh
             PROVE  \E opt \in Kinds :
                        docs'[d] = IF csv' = <<>> THEN NoDoc ELSE Written(opt, d)'
    BY DEF DocsCurrent
<1>1. PICK opt \in Kinds : docs[d] = IF csv = <<>> THEN NoDoc ELSE Written(opt, d)
    BY DEF DocsCurrent
<1>2. Written(opt, d)' = Written(opt, d)
    BY WrittenSame
<1> QED BY <1>1, <1>2

LEMMA CopiedSame ==
    ASSUME Copies, UNCHANGED copied, pc' = "copy" => next' = 1,
           pc' # "idle" \/ ~command.ok' \/ command.what' # "container"
    PROVE  Copies'
<1>1. CopiedAgree'
    BY DEF Copies, CopiedAgree
<1>2. pc' = "copy" =>
          next' \in 1..3
          /\ \A k \in 1..(next' - 1) : (copied[Files[k]] = Source(Files[k]))'
    OBVIOUS
<1> QED BY <1>1, <1>2 DEF Copies

-----------------------------------------------------------------------------
(* The bound on the rows: s rows a test, l tests, m iterations, i of them   *)
(* begun.                                                                  *)

LEMMA RoomFirst ==
    ASSUME NEW m \in Nat, NEW l \in Nat, NEW s \in Nat
    PROVE  (m - 1) * (l * s) + (l + 1 - 1) * s = m * l * s
<1>1. (m - 1) * (l * s) = m * (l * s) - l * s
    OBVIOUS
<1>2. m * (l * s) = m * l * s /\ (l + 1 - 1) * s = l * s
    OBVIOUS
<1> QED BY <1>1, <1>2

LEMMA RoomMore ==
    ASSUME NEW m \in Nat, NEW i \in Nat, i <= m, NEW p \in Nat
    PROVE  (m - i) * p \in Nat
<1>1. PICK k \in Nat : k = m - i
    OBVIOUS
<1>2. k * p \in Nat
    OBVIOUS
<1> QED BY <1>1, <1>2

LEMMA RoomNext ==
    ASSUME NEW m \in Nat, NEW i \in Nat, NEW l \in Nat, NEW s \in Nat
    PROVE  (m - i) * (l * s) = (m - (i + 1)) * (l * s) + (l + 1 - 1) * s
<1>1. PICK p \in Nat : p = l * s
    OBVIOUS
<1>2. (m - i) * p = (m - (i + 1)) * p + p
    OBVIOUS
<1>3. (l + 1 - 1) * s = l * s
    OBVIOUS
<1> QED BY <1>1, <1>2, <1>3

LEMMA FilesFacts ==
    /\ Len(Files) = 3
    /\ ToSet(Files) = {"results.md", "results.csv", "results-extended.md"}
    /\ Files[1] = "results.md" /\ Files[2] = "results.csv"
    /\ Files[3] = "results-extended.md"
BY DEF Files, ToSet

LEMMA TimesRunType ==
    ASSUME NEW what PROVE TimesRun(what) \in Nat \ {0}
BY TablesAssumption DEF TimesRun

-----------------------------------------------------------------------------
(* The steps.                                                              *)

LEMMA InvInit == Init => IInv
<1> SUFFICES ASSUME Init PROVE IInv
    OBVIOUS
<1>1. TypeOK
    <2>1. failed \in BOOLEAN /\ TRUE \in BOOLEAN
        BY Zenon DEF Init
    <2>2. command \in [what : {"none", "make", "container", "results", "clean"},
                       opt : Kinds, ok : BOOLEAN]
        BY <2>1 DEF Init, Kinds
    <2>3. csv \in Seq(CsvRows)
        BY EmptySeq DEF Init
    <2>4. code \in [ToSet(Tests) -> {1, 2}] /\ DOMAIN docs = Docs
        BY DEF Init
    <2> QED BY <2>1, <2>2, <2>3, <2>4 DEF Init, TypeOK
<1>2. Prepared /\ DocsCurrent /\ InRun
    BY DEF Init, Prepared, DocsCurrent, InRun
<1>3. AllRan /\ Chain /\ Tabled
    BY DEF Init, AllRan, Chain, Tabled, Measuring, Docs
<1>4. Copies
    <2>1. Docs \subseteq ToSet(Files)
        BY FilesFacts DEF Docs
    <2>2. \A d \in Docs : copied[d] = NoDoc
        BY <2>1 DEF Init
    <2> QED BY <2>2 DEF Init, Copies, CopiedAgree
<1> QED BY <1>1, <1>2, <1>3, <1>4 DEF IInv

\* A command that builds begins: none of its rows are there.
LEMMA InvBegin ==
    ASSUME IInv, NEW what \in {"make", "container"}, NEW opt \in Kinds,
           Begin(what, opt)
    PROVE  IInv'
<1>1. /\ TypeOK /\ pc = "idle" /\ pc' = "run" /\ Room(what, opt)
      /\ command' = [what |-> what, opt |-> opt, ok |-> FALSE]
      /\ since' = Len(csv) /\ builds' = builds + 1
      /\ UNCHANGED <<csv, docs, fresh, copied, iteration, next, failed>>
    BY DEF IInv, Begin, runVars
<1>2. code' \in [ToSet(Tests) -> {1, 2}]
    BY <1>1 DEF TypeOK, Begin
<1>3. Len(csv) \in Nat
    BY <1>1 DEF TypeOK
<1>4. TypeOK'
    BY <1>1, <1>2, <1>3 DEF TypeOK
<1>5. Prepared'
    <2>1. iteration = 1 /\ next = 1 /\ failed = FALSE
        BY <1>1 DEF IInv, Prepared
    <2>2. Opt' = opt /\ command.what' = what
        BY <1>1 DEF Opt
    <2>3. Sizes' = Len(ObjectSizes(opt))
        BY <2>2 DEF Sizes
    <2>4. ToCome' = (TimesRun(what) - 1) * (Len(Tests) * Len(ObjectSizes(opt)))
                        + (Len(Tests) + 1 - 1) * Len(ObjectSizes(opt))
        BY <1>1, <2>1, <2>2, <2>3 DEF ToCome
    <2>5. ToCome' = TimesRun(what) * Len(Tests) * Len(ObjectSizes(opt))
        BY <2>4, RoomFirst, TimesRunType, TestsFacts, SizesFacts
    <2>6. Len(csv) + ToCome' <= Len(Times)
        BY <1>1, <2>5, TablesAssumption DEF Room
    <2>7. 1 <= Len(Tests) + 1 /\ 1 <= TimesRun(what)
        BY TestsFacts, TimesRunType
    <2> QED BY <1>1, <2>1, <2>2, <2>6, <2>7 DEF Prepared, Measuring
<1>6. DocsCurrent' /\ Copies'
    BY <1>1, DocsSame, CopiedSame DEF IInv
<1>7. InRun'
    <2>1. next' = 1 /\ since' = Len(csv') /\ Len(csv') \in Nat
        BY <1>1, <1>3 DEF IInv, Prepared
    <2> QED BY <2>1 DEF InRun
<1>8. ~Through' /\ pc' \notin Docs /\ pc' # "copy" /\ pc' # "idle"
    BY <1>1 DEF Through, Docs
<1>9. AllRan' /\ Chain' /\ Tabled'
    BY <1>8 DEF AllRan, Chain, Tabled, Docs
<1> QED BY <1>4, <1>5, <1>6, <1>7, <1>9 DEF IInv

LEMMA InvMakeResults == IInv /\ MakeResults => IInv'
<1> SUFFICES ASSUME IInv, MakeResults PROVE IInv'
    OBVIOUS
<1>1. PICK opt \in Kinds : command' = [what |-> "results", opt |-> opt, ok |-> FALSE]
    BY DEF MakeResults
<1>2. /\ TypeOK /\ pc = "idle" /\ pc' = "results.md"
      /\ UNCHANGED <<csv, code, docs, fresh, copied, iteration, next, failed,
                     since, builds>>
    BY DEF IInv, MakeResults, runVars, ghostVars
<1>3. TypeOK'
    BY <1>1, <1>2 DEF TypeOK, Docs
<1>4. Prepared' /\ InRun'
    BY <1>2 DEF IInv, Prepared, InRun
<1>5. DocsCurrent' /\ Copies'
    BY <1>2, DocsSame, CopiedSame DEF IInv
<1>6. ~Measuring' /\ command.what' = "results"
    BY <1>1 DEF Measuring
<1>7. AllRan' /\ Chain' /\ Tabled'
    BY <1>2, <1>6 DEF AllRan, Chain, Tabled
<1> QED BY <1>3, <1>4, <1>5, <1>7 DEF IInv

LEMMA InvClean == IInv /\ Clean => IInv'
<1> SUFFICES ASSUME IInv, Clean PROVE IInv'
    OBVIOUS
<1>1. /\ TypeOK /\ pc = "idle" /\ csv' = <<>> /\ fresh' = {}
      /\ docs' = [d \in Docs |-> NoDoc]
      /\ command' = [command EXCEPT !.what = "clean", !.ok = TRUE]
      /\ UNCHANGED <<code, copied, pc, iteration, next, failed, since, builds>>
    BY DEF IInv, Clean, runVars, ghostVars
<1>2. command' \in [what : {"none", "make", "container", "results", "clean"},
                    opt : Kinds, ok : BOOLEAN] /\ command.what' = "clean"
    BY <1>1 DEF TypeOK
<1>3. TypeOK'
    BY <1>1, <1>2 DEF TypeOK
<1>4. Prepared' /\ InRun' /\ DocsCurrent'
    BY <1>1 DEF IInv, Prepared, InRun, DocsCurrent
<1>5. Copies'
    BY <1>1, CopiedSame DEF IInv
<1>6. ~Measuring' /\ pc' \notin Docs /\ pc' # "copy"
    BY <1>1, <1>2 DEF Measuring, Docs
<1>7. AllRan' /\ Chain' /\ Tabled'
    BY <1>2, <1>6 DEF AllRan, Chain, Tabled
<1> QED BY <1>3, <1>4, <1>5, <1>7 DEF IInv

\* The end of a command.
LEMMA EndFacts ==
    ASSUME TypeOK, NEW ok \in BOOLEAN, End(ok)
    PROVE  /\ pc' = "idle" /\ command.ok' = ok /\ Opt' = Opt
           /\ command.what' = command.what /\ Measuring' = Measuring
           /\ command' \in [what : {"none", "make", "container", "results", "clean"},
                             opt : Kinds, ok : BOOLEAN]
<1>1. command' = [command EXCEPT !.ok = ok] /\ pc' = "idle"
    BY DEF End
<1>2. command' = [what |-> command.what, opt |-> command.opt, ok |-> ok]
    BY <1>1 DEF TypeOK
<1> QED BY <1>1, <1>2 DEF TypeOK, Opt, Measuring

\* A command may fail anywhere: nothing is claimed of it then.
LEMMA InvFailure ==
    ASSUME IInv, End(FALSE), iteration' = 1, next' = 1, failed' = FALSE,
           UNCHANGED <<csv, code, docs, fresh, copied, since, builds>>
    PROVE  IInv'
<1>0. TypeOK
    BY DEF IInv
<1>1. /\ pc' = "idle" /\ command.ok' = FALSE
      /\ command' \in [what : {"none", "make", "container", "results", "clean"},
                        opt : Kinds, ok : BOOLEAN]
    BY <1>0, EndFacts
<1>2. TypeOK'
    <2>1. failed' \in BOOLEAN
        BY Zenon
    <2> QED BY <1>0, <1>1, <2>1 DEF TypeOK
<1>3. Prepared' /\ InRun'
    BY <1>1 DEF Prepared, InRun
<1>4. DocsCurrent' /\ Copies'
    <2>1. DocsCurrent'
        BY DocsSame DEF IInv
    <2>2. Copies'
        BY <1>1, CopiedSame DEF IInv
    <2> QED BY <2>1, <2>2
<1>5. ~Through' /\ pc' \notin Docs /\ pc' # "copy" /\ ~command.ok'
    BY <1>1 DEF Through, Docs
<1>6. AllRan' /\ Chain' /\ Tabled'
    BY <1>5 DEF AllRan, Chain, Tabled, Docs
<1> QED BY <1>2, <1>3, <1>4, <1>6 DEF IInv

LEMMA InvInterrupt == IInv /\ Interrupt => IInv'
BY InvFailure DEF Interrupt, Reset, ghostVars

-----------------------------------------------------------------------------
(* The runs.                                                               *)

\* There is a time for every row still to come.
LEMMA RoomForRows ==
    ASSUME TypeOK, Prepared, pc = "run", next <= Len(Tests)
    PROVE  /\ Sizes \in {1, 2} /\ Len(csv) \in Nat /\ Len(Times) \in Nat
           /\ ToCome \in Int /\ Len(csv) + Sizes <= Len(Times)
           /\ UNCHANGED <<command, iteration>> /\ next' = next + 1 =>
                  ToCome' = ToCome - Sizes
<1>1. /\ Len(csv) \in Nat /\ Len(Times) \in Nat /\ Len(Tests) \in Nat
      /\ next \in Nat /\ iteration \in Nat /\ TimesRun(command.what) \in Nat
    BY TestsFacts, TimesRunType, TablesAssumption DEF TypeOK
<1>2. Sizes \in {1, 2}
    BY SizesFacts DEF TypeOK, Sizes, Opt
<1>3. Len(Tests) * Sizes \in Nat
    BY <1>1, <1>2
<1>4. (TimesRun(command.what) - iteration) * (Len(Tests) * Sizes) \in Nat
    BY <1>1, <1>3, RoomMore DEF Prepared
<1>5. PICK k \in Nat : k = Len(Tests) - next
    <2>1. Len(Tests) - next \in Nat
        BY <1>1
    <2> QED BY <2>1
<1>6. (Len(Tests) + 1 - next) * Sizes = k * Sizes + Sizes /\ k * Sizes \in Nat
    BY <1>1, <1>2, <1>5
<1>7. ToCome \in Int /\ ToCome >= Sizes
    BY <1>2, <1>4, <1>6 DEF ToCome
<1>8. Len(csv) + Sizes <= Len(Times)
    BY <1>1, <1>2, <1>7 DEF Prepared
<1>9. ASSUME UNCHANGED <<command, iteration>>, next' = next + 1
      PROVE  ToCome' = ToCome - Sizes
    <2>1. Sizes' = Sizes
        BY <1>9 DEF Sizes, Opt
    <2>2. (Len(Tests) + 1 - next') * Sizes = k * Sizes
        BY <1>1, <1>5, <1>9
    <2>3. ToCome' = (TimesRun(command.what) - iteration) * (Len(Tests) * Sizes)
                        + (Len(Tests) + 1 - next') * Sizes
        BY <1>9, <2>1 DEF ToCome
    <2> QED BY <2>2, <2>3, <1>2, <1>4, <1>6 DEF ToCome
<1> QED BY <1>1, <1>2, <1>7, <1>8, <1>9

\* The row that the next test appends at its k-th size.
Row(k) ==
    [test |-> Tests[next], size |-> ObjectSizes(Opt)[k], opt |-> Opt,
     code |-> code[Tests[next]], time |-> Times[Len(csv) + k]]

LEMMA RowsType ==
    ASSUME TypeOK, Prepared, pc = "run", next <= Len(Tests), NEW n \in 0..Sizes
    PROVE  /\ Rows(n) \in Seq(CsvRows) /\ Len(Rows(n)) = n
           /\ \A k \in 1..n : Rows(n)[k] = Row(k)
<1>1. Tests[next] \in ToSet(Tests)
    BY TestsFacts DEF TypeOK
<1>2. Opt \in Kinds /\ code[Tests[next]] \in {1, 2}
    BY <1>1 DEF TypeOK, Opt
<1>3. n \in Nat /\ Len(csv) \in Nat /\ Len(Times) \in Nat /\ Len(csv) + n <= Len(Times)
    BY RoomForRows
<1>4. ASSUME NEW k \in 1..n PROVE Row(k) \in CsvRows
    <2>1. k \in 1..Len(ObjectSizes(Opt))
        BY RoomForRows DEF Sizes
    <2>2. ObjectSizes(Opt)[k] \in {2, 4}
        BY <2>1, <1>2, SizesFacts
    <2>3. Len(csv) + k \in 1..Len(Times)
        BY <1>3
    <2>4. Times[Len(csv) + k] \in Int
        BY <2>3, TablesAssumption
    <2> QED BY <1>1, <1>2, <2>2, <2>4 DEF Row, CsvRows
<1>5. Rows(n) = [k \in 1..n |-> Row(k)]
    BY DEF Rows, Row
<1> QED BY <1>3, <1>4, <1>5

\* What is appended changes none of the rows there were.
LEMMA AppendedFacts ==
    ASSUME NEW S, NEW s \in Seq(S), NEW t \in Seq(S)
    PROVE  /\ s \o t \in Seq(S) /\ Len(s \o t) = Len(s) + Len(t)
           /\ \A k \in 1..Len(s) : (s \o t)[k] = s[k]
           /\ \A k \in 1..Len(t) : (s \o t)[Len(s) + k] = t[k]
           /\ Len(t) = 0 => s \o t = s
<1>1. /\ s \o t \in Seq(S) /\ Len(s \o t) = Len(s) + Len(t)
      /\ \A k \in 1..Len(s) : (s \o t)[k] = s[k]
      /\ \A k \in 1..Len(t) : (s \o t)[Len(s) + k] = t[k]
    BY ConcatProperties
<1>2. ASSUME Len(t) = 0 PROVE s \o t = s
    <2>1. t = <<>>
        BY <1>2, EmptySeq
    <2> QED BY <2>1, ConcatEmptySeq
<1> QED BY <1>1, <1>2

\* A test that runs through has a row of each size; one row makes both tables old.
LEMMA InvRunTest == IInv /\ RunTest => IInv'
<1> SUFFICES ASSUME IInv, RunTest PROVE IInv'
    OBVIOUS
<1>0. /\ TypeOK /\ Prepared /\ pc = "run" /\ ~failed /\ next <= Len(Tests)
      /\ pc' = "run" /\ next' = next + 1 /\ Opt' = Opt /\ Measuring' = Measuring
      /\ UNCHANGED <<code, docs, copied, command, pc, iteration, since, builds>>
    BY DEF IInv, RunTest, ghostVars, Opt, Measuring
<1>1. PICK n \in 0..Sizes :
          /\ csv' = csv \o Rows(n)
          /\ fresh' = IF n = 0 THEN fresh ELSE {}
          /\ failed' = (n < Sizes)
    BY Zenon DEF RunTest, Sizes
<1>2. /\ n \in Nat /\ Sizes \in {1, 2} /\ Len(csv) \in Nat /\ next \in Nat \ {0}
      /\ Len(Tests) \in Nat /\ since \in Nat /\ csv \in Seq(CsvRows)
    BY <1>0, RoomForRows, TestsFacts DEF TypeOK
<1> DEFINE rows == Rows(n)
<1>a. /\ rows \in Seq(CsvRows) /\ Len(rows) = n
      /\ \A k \in 1..n : rows[k] = Row(k)
    BY <1>0, RowsType
<1>b. csv' = csv \o rows
    BY <1>1
<1> HIDE DEF rows
<1>c. /\ csv \o rows \in Seq(CsvRows) /\ Len(csv \o rows) = Len(csv) + Len(rows)
      /\ \A k \in 1..Len(csv) : (csv \o rows)[k] = csv[k]
      /\ \A k \in 1..Len(rows) : (csv \o rows)[Len(csv) + k] = rows[k]
      /\ Len(rows) = 0 => csv \o rows = csv
    BY <1>2, <1>a, AppendedFacts
<1>3. /\ csv' \in Seq(CsvRows) /\ Len(csv') = Len(csv) + n
      /\ \A k \in 1..Len(csv) : csv'[k] = csv[k]
      /\ n = 0 => csv' = csv
    BY <1>a, <1>b, <1>c
<1>4. \A k \in 1..n : csv'[Len(csv) + k] = Row(k)
    BY <1>a, <1>b, <1>c
<1>5. failed' \in BOOLEAN /\ (~failed' => ~(n < Sizes)) /\ fresh' \subseteq fresh
    <2>1. (n < Sizes) \in BOOLEAN
        BY <1>2
    <2>2. failed' = (n < Sizes)
        BY <1>1, Zenon
    <2>3. failed' \in BOOLEAN
        BY <2>1, <2>2, Zenon
    <2>4. ~failed' => ~(n < Sizes)
        BY <2>2, Zenon
    <2> QED BY <2>3, <2>4, <1>1
<1>6. TypeOK'
    BY <1>0, <1>2, <1>3, <1>5 DEF TypeOK
<1>7. Prepared'
    <2>1. ToCome' = ToCome - Sizes /\ ToCome \in Int /\ Len(Times) \in Nat
        BY <1>0, RoomForRows
    <2>2. Len(csv') + ToCome' <= Len(Times)
        BY <1>0, <1>2, <1>3, <2>1 DEF Prepared
    <2>3. next' <= Len(Tests) + 1
        BY <1>0, <1>2
    <2> QED BY <1>0, <2>2, <2>3 DEF Prepared
<1>8. DocsCurrent'
    <2>1. CASE n = 0
        BY <2>1, <1>0, <1>1, <1>3, DocsSame DEF IInv
    <2>2. CASE n # 0
        BY <2>2, <1>1 DEF DocsCurrent
    <2> QED BY <2>1, <2>2
<1>9. since <= Len(csv) /\ (Len(csv) > since => fresh = {})
      /\ \A j \in 1..(next - 1) : Ran(Tests[j])
    BY <1>0 DEF IInv, InRun
<1>10. ASSUME NEW j \in 1..(next - 1) PROVE Ran(Tests[j])'
    <2> SUFFICES ASSUME NEW m \in ToSet(ObjectSizes(Opt)) PROVE HasRow(Tests[j], m)'
        BY <1>0 DEF Ran
    <2>1. HasRow(Tests[j], m)
        BY <1>9 DEF Ran
    <2>2. PICK k \in since + 1..Len(csv) :
              /\ csv[k].test = Tests[j] /\ csv[k].size = m
              /\ csv[k].opt = Opt /\ csv[k].code = code[Tests[j]]
        BY <2>1 DEF HasRow
    <2>3. k \in since' + 1..Len(csv') /\ csv'[k] = csv[k]
        BY <1>0, <1>2, <1>3
    <2> QED BY <1>0, <2>2, <2>3 DEF HasRow
<1>d. PICK i \in Nat : i = next
    BY <1>2
<1>11. ASSUME ~failed' PROVE Ran(Tests[i])'
    <2>1. n = Sizes
        BY <1>2, <1>5, <1>11
    <2> SUFFICES ASSUME NEW m \in ToSet(ObjectSizes(Opt)) PROVE HasRow(Tests[i], m)'
        BY <1>0 DEF Ran
    <2>2. PICK k \in 1..Sizes : ObjectSizes(Opt)[k] = m
        BY <1>0, SizesFacts DEF Sizes, TypeOK, Opt
    <2>3. csv'[Len(csv) + k] = Row(k)
        BY <1>4, <2>1
    <2>4. Len(csv) + k \in since' + 1..Len(csv')
        BY <1>0, <1>2, <1>3, <1>9, <2>1
    <2>5. /\ csv'[Len(csv) + k].test = Tests[i] /\ csv'[Len(csv) + k].size = m
          /\ csv'[Len(csv) + k].opt = Opt'
          /\ csv'[Len(csv) + k].code = code'[Tests[i]]
        BY <1>0, <1>d, <2>2, <2>3 DEF Row
    <2> QED BY <2>4, <2>5 DEF HasRow
<1>12. InRun'
    <2>1. since' <= Len(csv') /\ (Len(csv') > since' => fresh' = {})
        BY <1>0, <1>1, <1>2, <1>3, <1>9
    <2>2. ASSUME ~failed', NEW j \in 1..(next' - 1) PROVE Ran(Tests[j])'
        <3>1. j \in 1..(next - 1) \/ j = i
            BY <1>0, <1>2, <1>d
        <3> QED BY <2>2, <3>1, <1>10, <1>11
    <2> QED BY <2>1, <2>2 DEF InRun
<1>13. ~Through' /\ pc' \notin Docs /\ pc' # "copy" /\ pc' # "idle"
    BY <1>0 DEF Through, Docs
<1>14. AllRan' /\ Chain' /\ Tabled' /\ Copies'
    BY <1>0, <1>13, CopiedSame DEF IInv, AllRan, Chain, Tabled, Docs
<1> QED BY <1>6, <1>7, <1>8, <1>12, <1>14 DEF IInv

\* What the iterations before have appended is not relied on.
LEMMA InvNextIteration == IInv /\ NextIteration => IInv'
<1> SUFFICES ASSUME IInv, NextIteration PROVE IInv'
    OBVIOUS
<1>0. /\ TypeOK /\ Prepared /\ pc = "run" /\ iteration < TimesRun(command.what)
      /\ iteration' = iteration + 1 /\ next' = 1 /\ failed' = FALSE
      /\ UNCHANGED <<csv, code, docs, fresh, copied, command, pc, since, builds>>
    BY DEF IInv, NextIteration, RanThrough, ghostVars
<1>1. TypeOK'
    <2>1. failed' \in BOOLEAN
        BY <1>0, Zenon
    <2>2. iteration' \in Nat
        BY <1>0 DEF TypeOK
    <2> QED BY <1>0, <2>1, <2>2 DEF TypeOK
<1>2. Prepared'
    <2>1. Sizes \in Nat /\ Sizes' = Sizes
        BY <1>0, SizesFacts DEF TypeOK, Sizes, Opt
    <2>2. /\ Len(Tests) \in Nat /\ TimesRun(command.what) \in Nat
          /\ iteration \in Nat /\ next \in Nat /\ next <= Len(Tests) + 1
          /\ Len(csv) \in Nat /\ Len(Times) \in Nat
        BY <1>0, TestsFacts, TimesRunType, TablesAssumption DEF TypeOK, Prepared
    <2> DEFINE p == Len(Tests) * Sizes
               rest == (Len(Tests) + 1 - next) * Sizes
    <2>3. ToCome = (TimesRun(command.what) - iteration) * p + rest
        BY DEF ToCome
    <2>4. ToCome' = (TimesRun(command.what) - (iteration + 1)) * p
                        + (Len(Tests) + 1 - 1) * Sizes
        BY <1>0, <2>1 DEF ToCome
    <2>5. ToCome' = (TimesRun(command.what) - iteration) * p
        BY <2>1, <2>2, <2>4, RoomNext
    <2>6. rest \in Nat /\ p \in Nat
        BY <2>1, <2>2
    <2>7. (TimesRun(command.what) - iteration) * p \in Nat
        BY <1>0, <2>2, <2>6, RoomMore
    <2> HIDE DEF p, rest
    <2>8. Len(csv) + ToCome' <= Len(Times)
        BY <1>0, <2>2, <2>3, <2>5, <2>6, <2>7 DEF Prepared
    <2> QED BY <1>0, <2>2, <2>8 DEF Prepared, Measuring
<1>3. DocsCurrent' /\ Copies'
    BY <1>0, DocsSame, CopiedSame DEF IInv
<1>4. InRun'
    <2>1. since <= Len(csv) /\ (Len(csv) > since => fresh = {})
        BY <1>0 DEF IInv, InRun
    <2> QED BY <2>1, <1>0 DEF InRun
<1>5. ~Through' /\ pc' \notin Docs /\ pc' # "copy" /\ pc' # "idle"
    BY <1>0 DEF Through, Docs
<1>6. AllRan' /\ Chain' /\ Tabled'
    BY <1>0, <1>5 DEF AllRan, Chain, Tabled, Docs
<1> QED BY <1>1, <1>2, <1>3, <1>4, <1>6 DEF IInv

\* All tests ran through in the last iteration, or there is no success.
LEMMA InvEndIterations == IInv /\ EndIterations => IInv'
<1> SUFFICES ASSUME IInv, EndIterations PROVE IInv'
    OBVIOUS
<1>0. /\ TypeOK /\ Measuring /\ pc = "run" /\ (failed \/ next > Len(Tests))
      /\ iteration' = 1 /\ next' = 1 /\ failed' = FALSE
      /\ UNCHANGED <<csv, code, docs, fresh, copied, since, builds>>
    BY DEF IInv, Prepared, EndIterations, RanThrough, Reset, ghostVars
<1>1. CASE End(FALSE)
    BY <1>0, <1>1, InvFailure
<1>2. CASE /\ ~failed /\ ~(command.what = "container" /\ Opt = "Size")
           /\ pc' = "results.md" /\ UNCHANGED command
    <2>1. TypeOK'
        <3>1. failed' \in BOOLEAN
            BY <1>0, Zenon
        <3> QED BY <1>0, <1>2, <3>1 DEF TypeOK, Docs
    <2>2. Prepared' /\ InRun'
        BY <1>0, <1>2 DEF Prepared, InRun
    <2>3. DocsCurrent' /\ Copies'
        BY <1>0, <1>2, DocsSame, CopiedSame DEF IInv
    <2>4. Opt' = Opt /\ Measuring' /\ Opt \in Kinds
        BY <1>0, <1>2 DEF Opt, Measuring, TypeOK
    <2>5. next > Len(Tests) /\ next \in Nat /\ Len(Tests) \in Nat \ {0}
        BY <1>0, <1>2, TestsFacts DEF TypeOK
    <2>6. \A j \in 1..Len(Tests) : Ran(Tests[j])
        <3>1. \A j \in 1..(next - 1) : Ran(Tests[j])
            BY <1>0, <1>2 DEF IInv, InRun
        <3> QED BY <2>5, <3>1
    <2>7. AllRan'
        BY <1>0, <2>4, <2>6, RanSame DEF AllRan
    <2>8. fresh = {}
        <3>1. Ran(Tests[1]) /\ ObjectSizes(Opt)[1] \in ToSet(ObjectSizes(Opt))
            BY <2>4, <2>5, <2>6, SizesFacts
        <3>2. PICK k \in since + 1..Len(csv) : TRUE
            BY <3>1 DEF Ran, HasRow
        <3>3. Len(csv) > since
            BY <3>2, <1>0 DEF TypeOK
        <3> QED BY <3>3, <1>0 DEF IInv, InRun
    <2>9. Chain' /\ Tabled'
        BY <1>0, <1>2, <2>4, <2>8 DEF Chain, Tabled, Docs, Kinds
    <2> QED BY <2>1, <2>2, <2>3, <2>7, <2>9 DEF IInv
<1>3. End(FALSE) \/ /\ ~failed /\ ~(command.what = "container" /\ Opt = "Size")
                    /\ pc' = "results.md" /\ UNCHANGED command
    BY DEF EndIterations
<1> QED BY <1>1, <1>2, <1>3

-----------------------------------------------------------------------------
(* The tables.                                                             *)

LEMMA DocsType == Docs = {"results.md", "results-extended.md"} /\ "run" \notin Docs
                  /\ "idle" \notin Docs /\ "copy" \notin Docs
BY DEF Docs

\* Where make and the container go when a file is all right.
LEMMA AfterFacts ==
    ASSUME TypeOK, NEW d \in Docs, After(d)
    PROVE  /\ \/ /\ d = "results.md" /\ pc' = "results-extended.md"
                 /\ command.ok' = command.ok
              \/ /\ d = "results-extended.md" /\ command.what = "container"
                 /\ pc' = "copy" /\ command.ok' = command.ok
              \/ /\ d = "results-extended.md" /\ command.what # "container"
                 /\ pc' = "idle" /\ command.ok' = TRUE
           /\ Opt' = Opt /\ Measuring' = Measuring
           /\ command.what' = command.what
           /\ command' \in [what : {"none", "make", "container", "results", "clean"},
                             opt : Kinds, ok : BOOLEAN]
<1>1. CASE UNCHANGED command
    BY <1>1, DocsType DEF After, End, Opt, Measuring, TypeOK
<1>2. CASE End(TRUE) /\ d # "results.md" /\ command.what # "container"
    BY <1>2, EndFacts, DocsType
<1> QED BY <1>1, <1>2, DocsType DEF After

\* Only `make results` by itself finds a file up to date.
LEMMA InvSkip == ASSUME IInv, NEW d \in Docs, Skip(d) PROVE IInv'
<1>0. /\ TypeOK /\ pc = d /\ d \in fresh /\ After(d)
      /\ UNCHANGED <<csv, code, docs, fresh, copied, iteration, next, failed,
                     since, builds>>
    BY DEF IInv, Skip, UpToDate, runVars, ghostVars
<1>1. ~Measuring /\ command.what = "results"
    BY <1>0, DocsType DEF IInv, Chain, Tabled
<1>2. /\ pc' \in {"results-extended.md", "idle"} /\ ~Measuring'
      /\ command.what' = "results"
      /\ command' \in [what : {"none", "make", "container", "results", "clean"},
                        opt : Kinds, ok : BOOLEAN]
    BY <1>0, <1>1, AfterFacts
<1>3. TypeOK'
    BY <1>0, <1>2, DocsType DEF TypeOK
<1>4. Prepared' /\ InRun'
    BY <1>0, <1>2, DocsType DEF IInv, Prepared, InRun
<1>5. DocsCurrent' /\ Copies'
    BY <1>0, <1>2, DocsSame, CopiedSame DEF IInv
<1>6. AllRan' /\ Chain' /\ Tabled'
    BY <1>2 DEF AllRan, Chain, Tabled
<1> QED BY <1>3, <1>4, <1>5, <1>6 DEF IInv

\* A table that is made is current; both are when the command succeeds.
LEMMA InvRecipe == ASSUME IInv, NEW d \in Docs, Recipe(d) PROVE IInv'
<1>0. /\ TypeOK /\ pc = d /\ fresh' = fresh \cup {d}
      /\ UNCHANGED <<csv, code, copied, iteration, next, failed, since, builds>>
      /\ IF docs'[d].whole THEN After(d) ELSE End(FALSE)
    BY DEF IInv, Recipe, runVars, ghostVars
<1>1. /\ DOMAIN docs' = Docs
      /\ docs'[d] = IF csv = <<>> THEN NoDoc ELSE Written(Opt, d)
      /\ \A e \in Docs : e # d => docs'[e] = docs[e]
    BY <1>0 DEF TypeOK, Recipe
<1>2. Opt \in Kinds
    BY <1>0 DEF TypeOK, Opt
<1>3. DocsCurrent'
    <2> SUFFICES ASSUME NEW e \in fresh'
                 PROVE  \E opt \in Kinds :
                     docs'[e] = IF csv' = <<>> THEN NoDoc ELSE Written(opt, e)'
        BY DEF DocsCurrent
    <2>1. \A opt : Written(opt, e)' = Written(opt, e)
        BY <1>0, WrittenSame
    <2>2. CASE e = d
        BY <2>1, <2>2, <1>0, <1>1, <1>2
    <2>3. CASE e # d
        <3>1. e \in fresh /\ e \in Docs
            BY <2>3, <1>0 DEF TypeOK
        <3>2. PICK opt \in Kinds :
                  docs[e] = IF csv = <<>> THEN NoDoc ELSE Written(opt, e)
            BY <3>1 DEF IInv, DocsCurrent
        <3> QED BY <2>1, <2>3, <3>1, <3>2, <1>0, <1>1
    <2> QED BY <2>2, <2>3
<1>4. docs'[d].whole => docs'[d].opt = Opt
    <2>1. ~NoDoc.whole
        BY DEF NoDoc
    <2>2. Written(Opt, d).opt = Opt
        BY DEF Written
    <2> QED BY <1>1, <2>1, <2>2
<1>5. /\ pc' \in {"results-extended.md", "copy", "idle"}
      /\ Opt' = Opt /\ Measuring' = Measuring /\ command.what' = command.what
      /\ command' \in [what : {"none", "make", "container", "results", "clean"},
                        opt : Kinds, ok : BOOLEAN]
    <2>1. CASE After(d)
        BY <2>1, <1>0, AfterFacts
    <2>2. CASE End(FALSE)
        BY <2>2, <1>0, EndFacts
    <2> QED BY <2>1, <2>2, <1>0
<1>6. TypeOK'
    BY <1>0, <1>1, <1>5, DocsType DEF TypeOK
<1>7. Prepared' /\ InRun'
    BY <1>0, <1>5, DocsType DEF IInv, Prepared, InRun
<1>8. Copies'
    <2>1. next' = 1
        BY <1>0, DocsType DEF IInv, Prepared
    <2>2. pc' # "idle" \/ ~command.ok' \/ command.what' # "container"
        <3>1. CASE After(d)
            BY <3>1, <1>0, AfterFacts
        <3>2. CASE End(FALSE)
            BY <3>2, <1>0, EndFacts
        <3> QED BY <3>1, <3>2, <1>0
    <2> QED BY <1>0, <2>1, <2>2, CopiedSame DEF IInv
<1>9. Through
    BY <1>0 DEF Through
<1>10. AllRan'
    BY <1>0, <1>5, <1>9, RanSame DEF IInv, AllRan
<1>11. CASE ~docs'[d].whole
    <2>1. pc' = "idle" /\ command.ok' = FALSE
        BY <1>0, <1>11, EndFacts
    <2>2. ~Through' /\ pc' \notin Docs /\ pc' # "copy"
        BY <2>1, DocsType DEF Through
    <2>3. Chain' /\ Tabled'
        BY <2>1, <2>2, DocsType DEF Chain, Tabled
    <2> QED BY <1>3, <1>6, <1>7, <1>8, <1>10, <2>3 DEF IInv
<1>12. CASE docs'[d].whole
    <2>0. After(d)
        BY <1>0, <1>12
    <2>1. Made(d)'
        BY <1>0, <1>4, <1>5, <1>12 DEF Made
    <2>2. Chain'
        BY <1>0, <1>5, <1>9, <2>0, AfterFacts, DocsType DEF IInv, Chain
    <2>3. CASE d = "results.md"
        <3>1. pc' = "results-extended.md"
            BY <2>0, <2>3, <1>0, AfterFacts
        <3>2. Measuring' => fresh' = {"results.md"}
            BY <2>3, <1>0, <1>5 DEF IInv, Tabled
        <3>3. Tabled'
            BY <2>1, <2>3, <3>1, <3>2 DEF Tabled
        <3> QED BY <1>3, <1>6, <1>7, <1>8, <1>10, <2>2, <3>3 DEF IInv
    <2>4. CASE d = "results-extended.md"
        <3>1. pc' \in {"copy", "idle"}
            BY <2>0, <2>4, <1>0, AfterFacts
        <3>2. ASSUME Measuring PROVE Made("results.md")'
            <4>1. Made("results.md")
                BY <3>2, <2>4, <1>0 DEF IInv, Tabled
            <4>2. docs'["results.md"] = docs["results.md"]
                BY <2>4, <1>1, DocsType
            <4> QED BY <4>1, <4>2, <1>0, <1>5 DEF Made
        <3>3. Measuring' => \A e \in Docs : Made(e)'
            BY <2>1, <2>4, <3>2, <1>5, DocsType
        <3>4. Tabled'
            BY <3>1, <3>3 DEF Tabled
        <3> QED BY <1>3, <1>6, <1>7, <1>8, <1>10, <2>2, <3>4 DEF IInv
    <2> QED BY <2>3, <2>4, DocsType
<1> QED BY <1>11, <1>12

\* make deletes the file: the other one is as current as before.
LEMMA InvInterruptRecipe ==
    ASSUME IInv, NEW d \in Docs, InterruptRecipe(d) PROVE IInv'
<1>0. /\ TypeOK /\ pc = d /\ End(FALSE) /\ fresh' = fresh \ {d}
      /\ docs' = [docs EXCEPT ![d] = NoDoc]
      /\ iteration' = 1 /\ next' = 1 /\ failed' = FALSE
      /\ UNCHANGED <<csv, code, copied, since, builds>>
    BY DEF IInv, InterruptRecipe, Reset, ghostVars
<1>1. /\ pc' = "idle" /\ command.ok' = FALSE
      /\ command' \in [what : {"none", "make", "container", "results", "clean"},
                        opt : Kinds, ok : BOOLEAN]
    BY <1>0, EndFacts
<1>2. TypeOK'
    <2>1. failed' \in BOOLEAN
        BY <1>0, Zenon
    <2>2. DOMAIN docs' = Docs /\ fresh' \subseteq Docs
        BY <1>0 DEF TypeOK
    <2> QED BY <1>0, <1>1, <2>1, <2>2 DEF TypeOK
<1>3. Prepared' /\ InRun'
    BY <1>0, <1>1 DEF Prepared, InRun
<1>4. DocsCurrent'
    <2> SUFFICES ASSUME NEW e \in fresh'
                 PROVE  \E opt \in Kinds :
                     docs'[e] = IF csv' = <<>> THEN NoDoc ELSE Written(opt, e)'
        BY DEF DocsCurrent
    <2>1. e \in fresh /\ e # d /\ e \in Docs
        BY <1>0 DEF TypeOK
    <2>2. PICK opt \in Kinds :
              docs[e] = IF csv = <<>> THEN NoDoc ELSE Written(opt, e)
        BY <2>1 DEF IInv, DocsCurrent
    <2>3. Written(opt, e)' = Written(opt, e)
        BY <1>0, WrittenSame
    <2>4. docs'[e] = docs[e]
        BY <2>1, <1>0 DEF TypeOK
    <2> QED BY <2>2, <2>3, <2>4, <1>0
<1>5. Copies'
    BY <1>0, <1>1, CopiedSame DEF IInv
<1>6. ~Through' /\ pc' \notin Docs /\ pc' # "copy" /\ ~command.ok'
    BY <1>1, DocsType DEF Through
<1>7. AllRan' /\ Chain' /\ Tabled'
    BY <1>6, DocsType DEF AllRan, Chain, Tabled
<1> QED BY <1>2, <1>3, <1>4, <1>5, <1>7 DEF IInv

\* What is copied was made by the container, for speed, of these rows.  The
\* last file is there with those before it, which the rows still match.
LEMMA InvCopy == IInv /\ Copy => IInv'
<1> SUFFICES ASSUME IInv, Copy PROVE IInv'
    OBVIOUS
<1>0. /\ TypeOK /\ pc = "copy"
      /\ copied' = [copied EXCEPT ![Files[next]] = Source(Files[next])]
      /\ UNCHANGED <<csv, code, docs, fresh, iteration, failed, since, builds>>
    BY DEF IInv, Copy, Source, ghostVars
<1>1. /\ next \in 1..3
      /\ \A k \in 1..(next - 1) : copied[Files[k]] = Source(Files[k])
    BY <1>0 DEF IInv, Copies
<1>2. \/ next < 3 /\ next' = next + 1 /\ UNCHANGED <<pc, command>>
      \/ next = 3 /\ next' = 1 /\ End(TRUE)
    <2>1. IF next < Len(Files) THEN next' = next + 1 /\ UNCHANGED <<pc, command>>
                               ELSE next' = 1 /\ End(TRUE)
        BY Zenon DEF Copy
    <2>2. CASE next = 3
        <3>1. ~(next < Len(Files))
            BY <2>2, FilesFacts
        <3> QED BY <2>1, <2>2, <3>1, Zenon
    <2>3. CASE next # 3
        <3>1. next < 3 /\ next < Len(Files)
            BY <2>3, <1>1, FilesFacts
        <3> QED BY <2>1, <3>1, Zenon
    <2> QED BY <2>2, <2>3
<1>3. /\ pc' \in {"copy", "idle"} /\ Opt' = Opt
      /\ Measuring' = Measuring /\ command.what' = command.what
      /\ command' \in [what : {"none", "make", "container", "results", "clean"},
                        opt : Kinds, ok : BOOLEAN]
    <2>1. CASE next < 3 /\ next' = next + 1 /\ UNCHANGED <<pc, command>>
        BY <2>1, <1>0 DEF TypeOK, Opt, Measuring
    <2>2. CASE next = 3 /\ next' = 1 /\ End(TRUE)
        BY <2>2, <1>0, EndFacts
    <2> QED BY <2>1, <2>2, <1>2
<1>4. Through /\ command.what = "container" /\ Measuring /\ Opt = "Speed"
    BY <1>0 DEF IInv, Through, Chain, Measuring
<1>5. \A d \in Docs : Made(d)
    BY <1>0, <1>4 DEF IInv, Tabled
<1>6. /\ \A k \in 1..next : copied'[Files[k]] = Source(Files[k])
      /\ \A f \in ToSet(Files) : f # Files[next] => copied'[f] = copied[f]
      /\ DOMAIN copied' = ToSet(Files)
    BY <1>0, <1>1, FilesFacts DEF TypeOK
<1>7. TypeOK'
    <2>1. next' = next + 1 \/ next' = 1
        BY <1>2, Zenon
    <2>2. next' \in Nat \ {0}
        BY <1>1, <2>1
    <2> QED BY <1>0, <1>3, <1>6, <2>2 DEF TypeOK
<1>8. Prepared' /\ InRun'
    <2>1. pc' = "idle" => next' = 1
        BY <1>0, <1>2
    <2> QED BY <1>0, <1>3, <2>1 DEF IInv, Prepared, InRun
<1>9. DocsCurrent'
    BY <1>0, DocsSame DEF IInv
<1>10. AllRan'
    BY <1>0, <1>3, <1>4, RanSame DEF IInv, AllRan
<1>11. Chain'
    BY <1>3, <1>4, DocsType DEF Chain
<1>12. \A d \in Docs : Made(d)'
    BY <1>0, <1>3, <1>5 DEF Made
<1>13. Tabled'
    BY <1>3, <1>12 DEF Tabled
<1>14. ASSUME NEW d \in Docs
       PROVE  /\ docs[d].whole /\ docs[d].opt = "Speed"
              /\ CountEvery(docs[d].tables, d, "Speed", csv)
    <2>1. d \in fresh /\ docs[d].whole /\ docs[d].opt = "Speed"
        BY <1>4, <1>5 DEF Made
    <2>2. PICK opt \in Kinds :
              docs[d] = IF csv = <<>> THEN NoDoc ELSE Written(opt, d)
        BY <2>1 DEF IInv, DocsCurrent
    <2>3. docs[d] = Written(opt, d) /\ Written(opt, d).whole
        BY <2>1, <2>2 DEF NoDoc
    <2>4. opt = "Speed"
        BY <2>1, <2>3 DEF Written
    <2>5. CountEvery(Written(opt, d).tables, d, opt, csv)
        BY <2>3, <1>0, WrittenFacts DEF TypeOK
    <2> QED BY <2>1, <2>3, <2>4, <2>5
<1>15. ASSUME NEW d \in Docs, copied'[d] # NoDoc
       PROVE  copied'[d].whole /\ copied'[d].opt = "Speed"
    <2>1. d \in ToSet(Files)
        BY FilesFacts, DocsType
    <2>2. CASE d = Files[next]
        <3>1. copied'[d] = docs[d]
            BY <2>2, <1>1, <1>6 DEF Source
        <3> QED BY <3>1, <1>14
    <2>3. CASE d # Files[next]
        BY <2>1, <2>3, <1>6, <1>15 DEF IInv, Copies, CopiedAgree
    <2> QED BY <2>2, <2>3
<1>16. ASSUME NEW d \in Docs, pc' = "idle"
       PROVE  /\ copied'[d].whole
              /\ CountEvery(copied'[d].tables, d, "Speed", copied'["results.csv"])
    <2>1. next = 3
        BY <1>0, <1>2, <1>16
    <2>2. copied'["results.csv"] = csv
        BY <2>1, <1>6, FilesFacts, DocsType DEF Source
    <2>3. copied'[d] = docs[d]
        BY <2>1, <1>6, FilesFacts, DocsType DEF Source
    <2> QED BY <2>2, <2>3, <1>14
<1>17. CopiedAgree'
    <2>1. \A tables, d, opt, rows :
              CountEvery(tables, d, opt, rows)' <=> CountEvery(tables', d, opt, rows')
        BY DEF CountEvery
    <2> QED BY <1>15, <1>16 DEF CopiedAgree
<1>18. Copies'
    <2>1. ASSUME pc' = "copy"
          PROVE  /\ next' \in 1..3
                 /\ \A k \in 1..(next' - 1) : copied'[Files[k]] = Source(Files[k])
        BY <2>1, <1>1, <1>2, <1>6 DEF End
    <2>2. \A f : Source(f)' = Source(f)
        BY <1>0 DEF Source
    <2> QED BY <1>17, <2>1, <2>2 DEF Copies
<1> QED BY <1>7, <1>8, <1>9, <1>10, <1>11, <1>13, <1>18 DEF IInv

LEMMA InvNext == IInv /\ [Next]_vars => IInv'
<1> SUFFICES ASSUME IInv, [Next]_vars PROVE IInv'
    OBVIOUS
<1>1. CASE Make \/ Container
    <2>1. PICK what \in {"make", "container"}, opt \in Kinds : Begin(what, opt)
        BY <1>1 DEF Make, Container
    <2> QED BY <2>1, InvBegin
<1>2. CASE Results
    BY <1>2, InvSkip, InvRecipe, InvInterruptRecipe DEF Results
<1>3. CASE UNCHANGED vars
    <2>1. UNCHANGED <<csv, code, docs, fresh, copied, command, pc, iteration, next,
                      failed, since, builds>>
        BY <1>3 DEF vars, runVars, ghostVars
    <2>2. Opt' = Opt /\ Measuring' = Measuring /\ Through' = Through
        BY <2>1 DEF Opt, Measuring, Through
    <2>3. TypeOK'
        BY <2>1 DEF IInv, TypeOK
    <2>4. ToCome' = ToCome
        BY <2>1 DEF ToCome, Sizes, Opt
    <2>5. Prepared' /\ Chain' /\ Tabled'
        BY <2>1, <2>2, <2>4 DEF IInv, Prepared, Chain, Tabled, Made
    <2>6. DocsCurrent'
        BY <2>1, DocsSame DEF IInv
    <2>8. Copies'
        BY <2>1 DEF IInv, Copies, CopiedAgree, Source
    <2>7. InRun' /\ AllRan'
        BY <2>1, <2>2, RanSame DEF IInv, InRun, AllRan
    <2> QED BY <2>3, <2>5, <2>6, <2>7, <2>8 DEF IInv
<1> QED BY <1>1, <1>2, <1>3, InvMakeResults, InvClean, InvInterrupt, InvRunTest,
           InvNextIteration, InvEndIterations, InvCopy DEF Next

LEMMA Invariant == Spec => []IInv
BY InvInit, InvNext, PTL DEF Spec

-----------------------------------------------------------------------------
\* Rows, tables and the command under way keep their types.
THEOREM TypeCorrect == Spec => []TypeOK
<1>1. IInv => TypeOK
    BY DEF IInv
<1> QED BY <1>1, Invariant, PTL

\* A table that make takes to be up to date, and that no exception has cut
\* short, has entries of exactly the rows that are in results.csv.
THEOREM EntriesFollowRows == Spec => []EntriesAreOfRows
<1>1. IInv => EntriesAreOfRows
    <2> SUFFICES ASSUME IInv, NEW d \in fresh, docs[d].whole
                 PROVE  /\ \A e \in docs[d].tables : IsOfRows(e, docs[d].opt)
                        /\ CountEvery(docs[d].tables, d, docs[d].opt, csv)
        BY DEF EntriesAreOfRows
    <2>1. PICK opt \in Kinds :
              docs[d] = IF csv = <<>> THEN NoDoc ELSE Written(opt, d)
        BY DEF IInv, DocsCurrent
    <2>2. docs[d] = Written(opt, d) /\ Written(opt, d).whole
        BY <2>1 DEF NoDoc
    <2>3. docs[d].opt = opt
        BY <2>2 DEF Written
    <2>4. csv \in Seq(CsvRows)
        BY DEF IInv, TypeOK
    <2>5. /\ \A e \in Written(opt, d).tables : IsOfRows(e, opt)
          /\ CountEvery(Written(opt, d).tables, d, opt, csv)
        BY <2>2, <2>4, WrittenFacts
    <2> QED BY <2>2, <2>3, <2>5
<1> QED BY <1>1, Invariant, PTL

\* A build that succeeds leaves two whole tables of its own kind, in which
\* every test it lists has an entry of the code it has now.
THEOREM SuccessHasTables == Spec => []SuccessMeansTables
<1>1. IInv => SuccessMeansTables
    <2> SUFFICES ASSUME IInv, pc = "idle", command.ok, Measuring
                 PROVE  \A d \in Docs :
            /\ docs[d].whole /\ docs[d].opt = Opt
            /\ \A t \in ToSet(Tests), n \in ToSet(ObjectSizes(Opt)) :
                t \in Listed("results-extended.md") =>
                    /\ \E k \in since + 1..Len(csv) :
                           /\ csv[k].test = t /\ csv[k].size = n
                           /\ csv[k].opt = Opt
                    /\ \E e \in docs["results-extended.md"].tables :
                           e.test = t /\ e.size = n /\ e.code = code[t]
        BY DEF SuccessMeansTables, Measuring
    <2> DEFINE x == "results-extended.md"
    <2>1. \A d \in Docs : Made(d)
        BY DEF IInv, Tabled
    <2>2. x \in Docs /\ x \in fresh /\ docs[x].whole /\ docs[x].opt = Opt
        BY <2>1, DocsType DEF Made
    <2>3. PICK opt \in Kinds :
              docs[x] = IF csv = <<>> THEN NoDoc ELSE Written(opt, x)
        BY <2>2 DEF IInv, DocsCurrent
    <2>4. docs[x] = Written(opt, x) /\ Written(opt, x).whole
        BY <2>2, <2>3 DEF NoDoc
    <2>5. opt = Opt
        BY <2>2, <2>4 DEF Written
    <2>6. csv \in Seq(CsvRows) /\ since \in Nat
        BY DEF IInv, TypeOK
    <2>7. CountEvery(docs[x].tables, x, opt, csv)
        BY <2>4, <2>6, WrittenFacts
    <2>8. ASSUME NEW t \in ToSet(Tests), NEW n \in ToSet(ObjectSizes(Opt)),
                 t \in Listed(x)
          PROVE  /\ \E k \in since + 1..Len(csv) :
                        csv[k].test = t /\ csv[k].size = n /\ csv[k].opt = Opt
                 /\ \E e \in docs[x].tables :
                        e.test = t /\ e.size = n /\ e.code = code[t]
        <3>1. PICK j \in 1..Len(Tests) : Tests[j] = t
            BY TestsFacts
        <3>2. Ran(t)
            BY <3>1 DEF IInv, AllRan, Through
        <3>3. PICK k \in since + 1..Len(csv) :
                  /\ csv[k].test = t /\ csv[k].size = n
                  /\ csv[k].opt = Opt /\ csv[k].code = code[t]
            BY <3>2 DEF Ran, HasRow
        <3>4. csv[k] \in ToSet(csv)
            BY <3>3, <2>6, CsvFacts
        <3>5. \E e \in docs[x].tables :
                  e.test = t /\ e.size = n /\ e.code = code[t]
            BY <3>3, <3>4, <2>5, <2>7, <2>8 DEF CountEvery
        <3> QED BY <3>3, <3>5
    <2> QED BY <2>1, <2>8 DEF Made
<1> QED BY <1>1, Invariant, PTL

\* Every table that reaches /opt is whole and for speed, and those of a chain
\* that succeeded count the very rows that are there with them.
THEOREM CopiesAgree == Spec => []CopiedAgree
<1>1. IInv => CopiedAgree
    BY DEF IInv, Copies
<1> QED BY <1>1, Invariant, PTL
=============================================================================

----------------------------- MODULE RangeListGen -----------------------------
(***************************************************************************)
(* transfer.RangeListGen: the generator that cuts a file of `total` bytes   *)
(* into half-open ranges [begin, end).  The downloader hands the ranges to  *)
(* its workers, the uploader cuts its blocks with it.                       *)
(*                                                                          *)
(* GenRange runs wholly under gen.mu, so one call is one step.  A generator *)
(* is a record; the operators below are the Go functions on it, and other   *)
(* modules use them without the state machine that follows.                 *)
(***************************************************************************)
EXTENDS Integers

CONSTANTS
  MaxTotal,         \* bound on the file sizes explored
  MaxParallel,      \* bound on the number of ranges of the default mode
  BlockSizes,       \* block sizes explored in block-size mode
  DefaultBlockSize  \* transfer.DefaultBlockSize, used for a block size <= 0

ASSUME RangeListGenAssumption ==
  /\ MaxTotal \in Nat
  /\ MaxParallel \in Nat \ {0}
  /\ BlockSizes \subseteq Int
  /\ DefaultBlockSize \in Nat \ {0}

Modes == {"default", "blockSize"}

Gens == [mode : Modes, total : Nat, begin : Nat, blockSize : Int,
         parallel : Int, count : Nat]

Ranges == [begin : Nat, end : Nat]

RangeBytes(r) == r.begin .. (r.end - 1)

NewRangeListGenDefault(total, begin, count, parallel) ==
  [mode |-> "default", total |-> total, begin |-> begin, blockSize |-> 0,
   parallel |-> parallel, count |-> count]

NewRangeListGenBlockSize(total, begin, blockSize) ==
  [mode |-> "blockSize", total |-> total, begin |-> begin,
   blockSize |-> blockSize, parallel |-> 0, count |-> 0]

IsDone(g) == g.begin >= g.total

\* Mutant: the last, shorter range is not counted.
RangeCountWhole(g) ==
  IF g.mode = "default" THEN g.parallel - g.count
  ELSE (g.total - g.begin) \div g.blockSize

\* RangeCount: how many ranges a caller is told to expect.
RangeCount(g) ==
  IF g.mode = "default" THEN g.parallel - g.count
  ELSE (g.total - g.begin) \div g.blockSize
       + (IF g.total % g.blockSize = 0 THEN 0 ELSE 1)

\* Mutant: only a block size of zero is replaced.
RepairedZeroOnly(g) ==
  LET parallel == IF g.parallel < 1 THEN 1 ELSE g.parallel
  IN  [g EXCEPT !.parallel = parallel,
                !.blockSize = IF g.blockSize # 0 THEN g.blockSize
                              ELSE IF g.mode = "default" THEN g.total \div parallel
                              ELSE DefaultBlockSize]

\* The fields GenRange repairs before it takes the lock.
Repaired(g) ==
  LET parallel == IF g.parallel < 1 THEN 1 ELSE g.parallel
  IN  [g EXCEPT !.parallel = parallel,
                !.blockSize = IF g.blockSize > 0 THEN g.blockSize
                              ELSE IF g.mode = "default" THEN g.total \div parallel
                              ELSE DefaultBlockSize]

\* Mutant: the last range is not cut at the end of the file.
BlockEndUncut(begin, blockSize, total) == begin + blockSize

\* The end of the next range of a repaired generator that is not done.
BlockEnd(begin, blockSize, total) ==
  IF begin + blockSize >= total THEN total ELSE begin + blockSize

NextEnd(g) ==
  IF g.mode = "blockSize" THEN BlockEnd(g.begin, g.blockSize, g.total)
  ELSE IF g.count + 1 >= g.parallel THEN g.total
  ELSE (g.count + 1) * g.blockSize

\* Mutants: the end counts as part of the range, or is counted twice.
GenRangeInclusive(g) ==
  LET r == Repaired(g)
  IN  [range |-> [begin |-> g.begin, end |-> NextEnd(r)],
       gen   |-> [r EXCEPT !.begin = NextEnd(r) + 1, !.count = g.count + 1]]

GenRangeOverlapping(g) ==
  LET r == Repaired(g)
  IN  [range |-> [begin |-> g.begin, end |-> NextEnd(r) + 1],
       gen   |-> [r EXCEPT !.begin = NextEnd(r), !.count = g.count + 1]]

\* GenRange on a generator that is not done: the range, and the generator after.
GenRange(g) ==
  LET r == Repaired(g)
  IN  [range |-> [begin |-> g.begin, end |-> NextEnd(r)],
       gen   |-> [r EXCEPT !.begin = NextEnd(r), !.count = g.count + 1]]

-------------------------------------------------------------------------------
VARIABLES
  first,  \* the generator as it was created
  gen,    \* the generator now
  issued  \* the ranges handed out so far

vars == <<first, gen, issued>>

(***************************************************************************)
(* The generators the program creates.  SelectParallel never asks for more  *)
(* ranges than the file has bytes (one per MinParallelSize), and a resumed  *)
(* default-mode generator starts at the end of the file with every range    *)
(* already counted.                                                         *)
(***************************************************************************)
InitialGens ==
  {NewRangeListGenDefault(t, 0, 0, p) :
     t \in 1..MaxTotal, p \in 1..MaxParallel} \cup
  {NewRangeListGenDefault(t, t, p, p) :
     t \in 1..MaxTotal, p \in 1..MaxParallel} \cup
  {NewRangeListGenBlockSize(t, b, s) :
     t \in 0..MaxTotal, b \in 0..MaxTotal, s \in BlockSizes}

Init ==
  /\ gen \in {g \in InitialGens : g.parallel <= g.total /\ g.begin <= g.total}
  /\ first = gen
  /\ issued = {}

\* Done callers get a nil range (the repair of the fields is kept).
Issue ==
  /\ ~IsDone(gen)
  /\ LET step == GenRange(gen)
     IN  /\ issued' = issued \cup {step.range}
         /\ gen' = step.gen
  /\ UNCHANGED first

Refuse ==
  /\ IsDone(gen)
  /\ gen' = Repaired(gen)
  /\ UNCHANGED <<first, issued>>

Next == Issue \/ Refuse

Spec == Init /\ [][Next]_vars

-------------------------------------------------------------------------------
\* The state is well typed, and the generator never runs past the file.
TypeOK ==
  /\ first \in Gens
  /\ gen \in Gens
  /\ gen.begin <= gen.total
  /\ issued \subseteq Ranges

\* The ranges handed out so far are exactly the bytes from where the generator
\* was started up to where it stands: GenRange leaves no gap behind it.
IssuedIsPrefix ==
  UNION {RangeBytes(r) : r \in issued} = first.begin .. (gen.begin - 1)

\* No byte is handed to two workers: two calls of GenRange never overlap.
IssuedDisjoint ==
  \A r, s \in issued : r # s => RangeBytes(r) \cap RangeBytes(s) = {}

\* GenRange never returns an empty range: a worker given [0, 0) would fall back
\* to the single-connection mode (worker.go:77-81).
IssuedNonEmpty == \A r \in issued : r.begin < r.end

\* RangeCount, which sizes the uploader's block list, is the number of ranges that
\* the generator hands out when it starts at a block's border, as SplitBlock's
\* (uploader/block.go:40) does at byte 0.  From elsewhere RangeCount may be wrong,
\* by one: it rounds up by the length of the file, not by what is left of it
\* (rangelist.go:117).  A block size of zero or less, which GenRange repairs and
\* RangeCount does not, is left out: RangeCount would divide by it.
CountIsExact ==
  (IsDone(gen) /\ (first.mode = "default" \/ first.blockSize > 0)) =>
    LET handedOut == gen.count - first.count
    IN  /\ RangeCount(first) - handedOut \in -1..1
        /\ first.mode = "default" \/ first.begin % first.blockSize = 0
             => RangeCount(first) = handedOut
===============================================================================

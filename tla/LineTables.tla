------------------------------- MODULE LineTables -------------------------------
(***************************************************************************)
(* Frame::infer_location (frame.cc): the line of an instruction, from the  *)
(* table that the compiler has left in the code object, in the format of   *)
(* the version of Python.  The table is a copy of memory that may be in    *)
(* use for something else by now; that is a table cut short here.          *)
(*                                                                         *)
(* Instructions count in units of two bytes.  Columns are left out: on     *)
(* every version the last lines of the function set them to zero.          *)
(***************************************************************************)
EXTENDS Integers, Sequences, SequencesExt

CONSTANTS
  Units,       (* per version: lengths of runs of instructions             *)
  Deltas,      (* differences between the lines of one run and the next    *)
  MaxRuns,     (* bound on the runs of a code object                       *)
  nullptr

co_firstlineno == 1000

VARIABLES
  version,     (* of Python: 9 and before, 10, or 11 and after             *)
  runs,        (* length, line and kind of entry of each run, see Run      *)
  lasti,       (* the instruction that is looked up                        *)
  whole,       (* is the table as the compiler has left it?                *)
  table,       (* its bytes                                                *)
  pc, i, bc, lineno

vars == <<version, runs, lasti, whole, table, pc, i, bc, lineno>>

TypeOK ==
  /\ version \in 9..11
  /\ whole \in BOOLEAN
  /\ table \in Seq(0..255)
  /\ pc \in {"loop", "found", "error", "outside"}
  /\ i \in 0..Len(table)
  /\ bc \in Nat /\ lasti \in Nat
  /\ lineno \in Int

-----------------------------------------------------------------------------
(* The compiler (external).                                                *)

(* Codes of entries of 3.11; those up to 9 have no difference of lines.  A *)
(* run without a line has no difference.                                   *)
Codes(delta) ==
  CASE delta = nullptr -> {15}
    [] delta = 0       -> {0, 9, 10, 13, 14}
    [] delta \in 1..2  -> {10 + delta, 13, 14}
    [] OTHER           -> {13, 14}

Run(v) ==
  UNION {[units : Units[v], delta : {delta}, code : IF v = 11 THEN Codes(delta) ELSE {15}] :
           delta \in IF v = 9 THEN Deltas ELSE Deltas \cup {nullptr}}

Byte(n) == n % 256

(* n bytes of code, in parts of a size that fits. *)
Parts(n, largest) ==
  [k \in 1..((n + largest - 1) \div largest) |->
     IF k * largest <= n THEN largest ELSE n % largest]

(* Steps to a distant line, all but the last. *)
Strides(delta) ==
  [k \in 1..(((IF delta < 0 THEN -delta ELSE delta) - 1) \div 127) |->
     IF delta < 0 THEN -127 ELSE 127]

LastStride(delta) ==
  IF delta < 0 THEN delta + 127 * Len(Strides(delta))
  ELSE delta - 127 * Len(Strides(delta))

Pairs(s) == FlattenSeq([k \in DOMAIN s |-> <<Byte(s[k][1]), Byte(s[k][2])>>])

(* 3.9: how far it is to a run, and to its line. *)
Lnotab(before, delta) ==
  LET far     == Parts(before, 255)
      there   == IF far = <<>> THEN 0 ELSE Last(far)
      strides == Strides(delta) \o <<LastStride(delta)>>
  IN Pairs([k \in 1..(Len(far) - 1) |-> <<far[k], 0>>]
           \o [k \in DOMAIN strides |-> <<IF k = 1 THEN there ELSE 0, strides[k]>>])

(* 3.10: how far it is to the line of a run, and how long the run is. *)
Linetable(units, delta) ==
  LET parts   == Parts(2 * units, 254)
      strides == IF delta = nullptr THEN <<>> ELSE Strides(delta)
      last    == IF delta = nullptr THEN -128 ELSE LastStride(delta)
      stays   == IF delta = nullptr THEN -128 ELSE 0
  IN Pairs([k \in DOMAIN strides |-> <<0, strides[k]>>]
           \o [k \in DOMAIN parts |-> <<parts[k], IF k = 1 THEN last ELSE stays>>])

Varint[n \in Nat] ==
  IF n < 64 THEN <<n>> ELSE <<64 + (n % 64)>> \o Varint[n \div 64]

SignedVarint(n) == Varint[IF n < 0 THEN 2 * (-n) + 1 ELSE 2 * n]

(* 3.11: columns and the end of a line are there, and not to be looked at. *)
Entry(units, delta, code) ==
  <<128 + 8 * code + units - 1>>
    \o CASE code = 15 -> <<>>
         [] code = 14 -> SignedVarint(delta) \o <<1, 70, 1, 5>>
         [] code = 13 -> SignedVarint(delta)
         [] code \in 10..12 -> <<200, 255>>
         [] code <= 9 -> <<255>>

(* The later parts of a run are on the line of the first. *)
Entries(run) ==
  LET parts == Parts(run.units, 8)
  IN FlattenSeq([k \in DOMAIN parts |->
       IF k = 1 \/ run.delta = nullptr THEN Entry(parts[k], run.delta, run.code)
       ELSE Entry(parts[k], 0, IF run.code \in 10..12 THEN 10 ELSE run.code)])

Table(v, rs) ==
  FlattenSeq([k \in DOMAIN rs |->
    CASE v = 9  -> Lnotab(IF k = 1 THEN 0 ELSE 2 * rs[k - 1].units, rs[k].delta)
      [] v = 10 -> Linetable(rs[k].units, rs[k].delta)
      [] v = 11 -> Entries(rs[k])])

Total(numbers) == MapThenSumSet(LAMBDA k : numbers[k], DOMAIN numbers)

End(rs, k) == Total([m \in 1..k |-> rs[m].units])

Init ==
  /\ version \in 9..11
  /\ runs \in UNION {[1..k -> Run(version)] : k \in 1..MaxRuns}
  /\ lasti \in UNION {{End(runs, k - 1), End(runs, k) - 1} : k \in DOMAIN runs}
  /\ whole \in BOOLEAN
  /\ LET all == Table(version, runs)
     IN IF whole THEN table = all
        ELSE \E k \in 0..(Len(all) - 1) : table = SubSeq(all, 1, k)
  /\ pc = "loop" /\ i = 0 /\ bc = 0 /\ lineno = co_firstlineno

-----------------------------------------------------------------------------
(* Frame::infer_location.  i counts from 0, as in the code.                *)

len == Len(table)
At(k) == table[k + 1]

Signed(b) == IF b >= 128 THEN b - 256 ELSE b

(* Reading what is beyond the copy is undefined. *)
WithPair(step) ==
  IF i + 1 < len THEN step ELSE pc' = "outside" /\ UNCHANGED <<i, lineno>>

(* co_lnotab: f_lasti counts bytes. *)
StepLnotab ==
  /\ version = 9
  /\ bc' = bc + At(i)
  /\ IF bc' > 2 * lasti THEN pc' = "found" /\ UNCHANGED <<i, lineno>>
     ELSE WithPair(/\ lineno' = lineno + Signed(At(i + 1))
                   /\ i' = i + 2
                   /\ UNCHANGED pc)

(* co_linetable of 3.10. *)
StepLinetable ==
  /\ version = 10
  /\ IF At(i) = 255 THEN pc' = "found" /\ UNCHANGED <<i, bc, lineno>>
     ELSE /\ bc' = bc + At(i)
          /\ WithPair(/\ lineno' = lineno + (IF At(i + 1) = 128 THEN 0
                                             ELSE Signed(At(i + 1)))
                      /\ i' = i + 2
                      /\ pc' = IF bc' > 2 * lasti THEN "found" ELSE pc)

Continues(k) == (At(k) \div 64) % 2 = 1

(* _read_varint, with i at k: its value and where it leaves i. *)
ReadVarint(k) ==
  IF k >= len - 1 THEN [value |-> 0, at |-> k]
  ELSE LET last == CHOOSE l \in (k + 1)..(len - 1) :
                     /\ \A j \in (k + 1)..(l - 1) : Continues(j)
                     /\ ~Continues(l) \/ l = len - 1
           chunks == [j \in 1..(last - k) |-> At(k + j)]
       IN [value |-> FoldRight(LAMBDA chunk, v : (chunk % 64) + 64 * v, chunks, 0),
           at |-> last]

Unsigned(v) == v

(* _read_signed_varint: the sign is the lowest bit. *)
OfSigned(v) == IF v % 2 = 1 THEN -(v \div 2) ELSE v \div 2

code == (At(i) \div 8) % 16

(* What an entry adds to the line, and where it leaves i. *)
LongForm ==
  LET delta  == ReadVarint(i)
      end    == ReadVarint(delta.at)
      column == ReadVarint(end.at)
  IN [delta |-> OfSigned(delta.value), at |-> ReadVarint(column.at).at]

Decoded ==
  CASE code = 15       -> [delta |-> 0, at |-> i]
    [] code = 14       -> LongForm
    [] code = 13       -> [delta |-> OfSigned(ReadVarint(i).value), at |-> ReadVarint(i).at]
    [] code \in 10..12 -> [delta |-> code - 10, at |-> i + 2]
    [] code <= 9       -> [delta |-> 0, at |-> i + 1]

CutShort == \/ code \in 10..12 /\ i >= len - 2
            \/ code <= 9 /\ i >= len - 1

StepEntry ==
  /\ version = 11
  /\ bc' = bc + (At(i) % 8) + 1
  /\ IF CutShort THEN pc' = "error" /\ UNCHANGED <<i, lineno>>
     ELSE /\ lineno' = lineno + Decoded.delta
          /\ IF Decoded.at < len
             THEN /\ i' = Decoded.at + 1
                  /\ pc' = IF bc' > lasti THEN "found" ELSE pc
             ELSE i' = i /\ pc' = "outside"

Step ==
  /\ pc = "loop"
  /\ IF i < len THEN StepLnotab \/ StepLinetable \/ StepEntry
     ELSE pc' = "found" /\ UNCHANGED <<i, bc, lineno>>
  /\ UNCHANGED <<version, runs, lasti, whole, table>>

Next == Step

Spec == Init /\ [][Next]_vars

-----------------------------------------------------------------------------
(* Properties.                                                             *)

RunOf == CHOOSE k \in DOMAIN runs : End(runs, k - 1) <= lasti /\ lasti < End(runs, k)

Advance(run) == IF run.delta = nullptr THEN 0 ELSE run.delta

Line == co_firstlineno + Total([k \in 1..RunOf |-> Advance(runs[k])])

(* The line of an instruction is that of the run that it is in             *)
(* (frame.cc:128-246), however far its line and its end; runs without a    *)
(* line have that of a run before.  A table of 3.11 that is cut short is   *)
(* never read past its end; those of the versions before are read in pairs *)
(* of bytes, and past the end if there is half a pair.                     *)
LinesRight ==
  /\ pc = "found" /\ whole => lineno = Line
  /\ pc = "error" => ~whole
  /\ pc = "outside" => version < 11 /\ len % 2 = 1
=============================================================================

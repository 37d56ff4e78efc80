----------------------------- MODULE FramesProofs -----------------------------
(***************************************************************************)
(* Proofs about Frames, for any program, size of the cache and number of   *)
(* sessions and dumps, about StackChunks, for any memory, number of        *)
(* threads and sizes of their chunks, and about Interleaving, for any      *)
(* program and bounds on its stacks; at last the types of these and of     *)
(* what DecodingProofs is about are put together.                          *)
(***************************************************************************)
EXTENDS DecodingProofs

-----------------------------------------------------------------------------
(* Lemmas about the operators.                                             *)

(* Marking dangling references changes nothing else. *)
LEMMA WithoutTyping ==
  ASSUME NEW s \in Seq(Ref), NEW dead
  PROVE  /\ Without(s, dead) \in Seq(Ref)
         /\ DOMAIN Without(s, dead) = DOMAIN s
         /\ Len(Without(s, dead)) = Len(s)
         /\ \A i \in DOMAIN s :
              /\ Without(s, dead)[i].key = s[i].key
              /\ Without(s, dead)[i].live = (s[i].live /\ s[i].key \notin dead)
<1> DEFINE w == Without(s, dead)
<1>1. \A i \in DOMAIN s : s[i] \in Ref
  OBVIOUS
<1>2. DOMAIN w = 1..Len(s) /\ DOMAIN s = 1..Len(s) /\ Len(s) \in Nat
  BY DEF Without
<1>3. \A i \in DOMAIN s : w[i] = [s[i] EXCEPT !.live = s[i].live /\ s[i].key \notin dead]
  BY DEF Without
<1>4. \A i \in DOMAIN s : w[i] \in Ref
  BY <1>1, <1>3 DEF Ref
<1>5. w \in Seq(Ref)
  <2>1. w = [i \in 1..Len(s) |-> w[i]]
    BY DEF Without
  <2> HIDE DEF w
  <2> QED
    BY <1>2, <1>4, <2>1
<1>6. Len(w) = Len(s)
  BY <1>2, <1>5
<1>7. \A i \in DOMAIN s :
        w[i].key = s[i].key /\ w[i].live = (s[i].live /\ s[i].key \notin dead)
  BY <1>1, <1>3 DEF Ref
<1> QED
  BY <1>2, <1>5, <1>6, <1>7

LEMMA AppendRef ==
  ASSUME NEW s \in Seq(Ref), NEW k \in Keys \cup {nullptr}
  PROVE  /\ RefTo(k) \in Ref
         /\ Append(s, RefTo(k)) \in Seq(Ref)
  BY DEF RefTo, Ref

(* splice: the same frames in another order. *)
LEMMA PromotedItems ==
  ASSUME TypeOK, CacheCoherent, NEW i \in DOMAIN items
  PROVE  /\ Promoted(i) \in Seq(Keys)
         /\ Len(Promoted(i)) = Len(items)
         /\ DOMAIN Promoted(i) = DOMAIN items
         /\ {Promoted(i)[j] : j \in DOMAIN items} = {items[j] : j \in DOMAIN items}
         /\ \A j, k \in DOMAIN items : Promoted(i)[j] = Promoted(i)[k] => j = k
<1> DEFINE p == Promoted(i)
<1>1. items \in Seq(Keys) /\ Len(items) \in Nat /\ DOMAIN items = 1..Len(items)
  BY DEF TypeOK
<1>2. \A j \in DOMAIN items :
        p[j] = IF j = 1 THEN items[i] ELSE IF j <= i THEN items[j - 1] ELSE items[j]
  BY <1>1 DEF Promoted
<1>3. DOMAIN p = 1..Len(items)
  BY DEF Promoted
<1>4. \A j \in DOMAIN items : p[j] \in Keys
  BY <1>1, <1>2
<1>5. p \in Seq(Keys) /\ Len(p) = Len(items)
  <2>1. p = [j \in 1..Len(items) |-> p[j]]
    BY DEF Promoted
  <2> HIDE DEF p
  <2> QED
    BY <1>1, <1>3, <1>4, <2>1
<1>6. \A j, k \in DOMAIN items : items[j] = items[k] => j = k
  BY DEF CacheCoherent
<1>7. \A j, k \in DOMAIN items : p[j] = p[k] => j = k
  <2> HIDE DEF p
  <2> SUFFICES ASSUME NEW j \in DOMAIN items, NEW k \in DOMAIN items, p[j] = p[k]
               PROVE  j = k
    OBVIOUS
  <2> DEFINE was(m) == IF m = 1 THEN i ELSE IF m <= i THEN m - 1 ELSE m
  <2>1. \A m \in DOMAIN items : was(m) \in DOMAIN items /\ p[m] = items[was(m)]
    BY <1>1, <1>2
  <2>2. was(j) = was(k)
    BY <2>1, <1>6
  <2> QED
    BY <2>2, <1>1
<1>8. \A j \in DOMAIN items : \E m \in DOMAIN items : p[m] = items[j]
  <2> HIDE DEF p
  <2> SUFFICES ASSUME NEW j \in DOMAIN items
               PROVE  \E m \in DOMAIN items : p[m] = items[j]
    OBVIOUS
  <2> DEFINE m == IF j = i THEN 1 ELSE IF j < i THEN j + 1 ELSE j
  <2>1. m \in DOMAIN items /\ p[m] = items[j]
    BY <1>1, <1>2
  <2> QED
    BY <2>1
<1>9. \A j \in DOMAIN items : \E m \in DOMAIN items : p[j] = items[m]
  BY <1>1, <1>2
<1>10. {p[j] : j \in DOMAIN items} = {items[j] : j \in DOMAIN items}
  <2> HIDE DEF p
  <2> QED
    BY <1>8, <1>9
<1> QED
  BY <1>1, <1>3, <1>5, <1>7, <1>10

(* store: the new frame in front, and the last of a full cache gone. *)
LEMMA StoredItems ==
  ASSUME TypeOK, CacheCoherent, NEW k \in Keys, k \notin index
  PROVE  /\ Stored(k) \in Seq(Keys)
         /\ {Stored(k)[j] : j \in DOMAIN Stored(k)} = Indexed(k)
         /\ \A j, m \in DOMAIN Stored(k) : Stored(k)[j] = Stored(k)[m] => j = m
         /\ Len(Stored(k)) <= Capacity
<1> DEFINE last == IF Full THEN Len(items) ELSE Len(items) + 1
           q == Stored(k)
<1>1. /\ items \in Seq(Keys) /\ Len(items) \in Nat
      /\ DOMAIN items = 1..Len(items)
  BY DEF TypeOK
<1>2. Capacity \in Nat /\ Capacity >= 1
  BY FramesAssumption
<1>3. /\ Full => Len(items) = Capacity
      /\ ~Full => Len(items) < Capacity
  <2>1. Len(items) <= Capacity
    BY DEF CacheCoherent
  <2>2. Full <=> Len(items) >= Capacity
    BY DEF Full
  <2>3. Len(items) \in Nat /\ Capacity \in Nat
    BY <1>1, <1>2
  <2> QED
    BY <2>1, <2>2, <2>3
<1>4. last \in Nat /\ last <= Capacity /\ last >= 1 /\ last <= Len(items) + 1
  <2>1. CASE Full
    <3>1. last = Len(items)
      BY <2>1
    <3> HIDE DEF last
    <3> QED
      BY <2>1, <3>1, <1>1, <1>2, <1>3
  <2>2. CASE ~Full
    <3>1. last = Len(items) + 1
      BY <2>2
    <3>2. Len(items) < Capacity
      BY <2>2, <1>3
    <3>3. Len(items) \in Nat /\ Capacity \in Nat
      BY <1>1, <1>2
    <3> HIDE DEF last
    <3> QED
      BY <3>1, <3>2, <3>3
  <2> QED
    BY <2>1, <2>2
<1>5. q = [j \in 1..last |-> IF j = 1 THEN k ELSE items[j - 1]]
  BY DEF Stored
<1> HIDE DEF q
<1>6. \A j \in 1..last : j # 1 => j - 1 \in DOMAIN items
  BY <1>1, <1>4
<1>7. \A j \in 1..last : q[j] \in Keys
  BY <1>1, <1>5, <1>6
<1>8. q \in Seq(Keys) /\ Len(q) = last /\ DOMAIN q = 1..last
  <2>1. q = [j \in 1..last |-> q[j]]
    BY <1>5
  <2> HIDE DEF last
  <2> QED
    BY <1>4, <1>7, <2>1
<1>9. \A j, m \in DOMAIN items : items[j] = items[m] => j = m
  BY DEF CacheCoherent
<1>10. \A j \in DOMAIN items : items[j] \in index
  BY DEF CacheCoherent
<1>11. \A j, m \in 1..last : q[j] = q[m] => j = m
  <2> SUFFICES ASSUME NEW j \in 1..last, NEW m \in 1..last, q[j] = q[m]
               PROVE  j = m
    OBVIOUS
  <2> HIDE DEF last
  <2>1. CASE j = 1 \/ m = 1
    BY <2>1, <1>4, <1>5, <1>6, <1>10
  <2>2. CASE j # 1 /\ m # 1
    BY <2>2, <1>4, <1>5, <1>6, <1>9
  <2> QED
    BY <2>1, <2>2
<1>12. \A j \in 1..last : q[j] \in Indexed(k)
  <2> SUFFICES ASSUME NEW j \in 1..last, j # 1
               PROVE  q[j] \in index /\ q[j] \notin Evicted
    BY <1>4, <1>5 DEF Indexed
  <2>1. q[j] = items[j - 1] /\ j - 1 \in DOMAIN items
    BY <1>5, <1>6
  <2>2. Full => j - 1 < Len(items)
    BY <1>1, <1>3, <1>4
  <2> QED
    BY <2>1, <2>2, <1>1, <1>9, <1>10 DEF Evicted
<1>13. \A x \in Indexed(k) : \E j \in 1..last : q[j] = x
  <2> SUFFICES ASSUME NEW x \in index, x \notin Evicted
               PROVE  \E j \in 1..last : q[j] = x
    BY <1>4, <1>5 DEF Indexed
  <2>1. PICK m \in DOMAIN items : items[m] = x
    BY DEF CacheCoherent
  <2>2. Full => m # Len(items)
    BY <2>1 DEF Evicted
  <2>3. m + 1 \in 1..last /\ m + 1 # 1 /\ (m + 1) - 1 = m
    BY <2>2, <1>1, <1>4
  <2>4. q[m + 1] = x
    <3> HIDE DEF last
    <3> QED
      BY <2>1, <2>3, <1>5
  <2> QED
    BY <2>3, <2>4
<1>14. {q[j] : j \in DOMAIN q} = Indexed(k)
  BY <1>8, <1>12, <1>13
<1> QED
  BY <1>4, <1>8, <1>11, <1>14 DEF q

-----------------------------------------------------------------------------
(* The steps of the actions that touch the cache and the file.             *)

(* What the invariant says of the data, and of nothing else. *)
DataInv == TypeOK /\ CacheCoherent /\ LiveInv /\ FileInv /\ StringInv

(* TypeOK, in two parts. *)
DataTyping ==
  /\ string_table \subseteq Strings
  /\ frame_cache \in BOOLEAN
  /\ items \in Seq(Keys)
  /\ index \subseteq Keys
  /\ python_stack \in Seq(Ref)
  /\ current_tasks \in Seq(Ref)
  /\ current_greenlets \in Seq(Ref)
  /\ file \in File

ControlTyping ==
  /\ phase \in {"off", "cache", "opened", "listening", "on", "cleared",
                "joined", "closed"}
  /\ where_thread \in BOOLEAN
  /\ dumping \in BOOLEAN
  /\ who \in {"sampler", "listener", nullptr}
  /\ pc \in {"idle", "unwinding", "unwound", "task", "tasks", "greenlet",
             "greenlets"}
  /\ greenlets \subseteq GreenletNames
  /\ sessions \in Nat
  /\ dumps \in Nat

(* New strings go to the file and to the table. *)
LEMMA StringsStep ==
  ASSUME TypeOK, FileInv, StringInv, NEW S \in SUBSET Strings,
         string_table' = string_table \cup S,
         Write(WithStrings(S)),
         index' = index
  PROVE  /\ string_table' \subseteq Strings /\ file' \in File
         /\ file'.open = file.open /\ FileInv'
         /\ greenlets' \subseteq greenlets \cup S => StringInv'
<1>1. file \in File /\ string_table \subseteq Strings
  BY DEF TypeOK
<1>2. CASE file.open
  <2>1. file' = [file EXCEPT !.strings = file.strings \cup (S \ string_table)]
    BY <1>2 DEF Write, WithStrings
  <2>2. /\ file' \in File
        /\ file'.strings = file.strings \cup (S \ string_table)
        /\ file'.open = file.open /\ file'.clean = file.clean
        /\ file'.frames = file.frames /\ file'.refs = file.refs
    BY <1>1, <2>1 DEF File
  <2>3. FileInv'
    BY <2>2 DEF FileInv
  <2>4. ASSUME greenlets' \subseteq greenlets \cup S PROVE StringInv'
    BY <1>2, <2>2, <2>4 DEF StringInv, StringsDefined, Mentioned
  <2> QED
    BY <1>1, <2>2, <2>3, <2>4
<1>3. CASE ~file.open
  <2>1. file' = file
    BY <1>3 DEF Write
  <2> QED
    BY <1>1, <1>3, <2>1 DEF FileInv, StringInv, StringsDefined, Mentioned
<1> QED
  BY <1>2, <1>3

(* Frame::get when the frame is in the cache. *)
LEMMA HitStep ==
  ASSUME DataInv, NEW k \in Keys,
         NEW ps \in Seq(Ref), NEW ts \in Seq(Ref), NEW gs \in Seq(Ref),
         Covered(ps, index \cup {nullptr, k}),
         Covered(ts, index \cup {nullptr, k}),
         Covered(gs, index \cup {nullptr, k}),
         Hit(k, ps, ts, gs), UNCHANGED greenlets
  PROVE  /\ DataTyping' /\ CacheCoherent' /\ LiveInv' /\ FileInv' /\ StringInv'
         /\ frame_cache' = frame_cache /\ file'.open = file.open
<1> USE DEF DataInv
<1>1. k \in index /\ UNCHANGED <<frame_cache, index, string_table, file>>
  BY DEF Hit
<1>2. PICK i \in DOMAIN items : items' = Promoted(i)
  BY DEF Hit
<1>3. /\ items' \in Seq(Keys) /\ Len(items') = Len(items)
      /\ DOMAIN items' = DOMAIN items
      /\ {items'[j] : j \in DOMAIN items} = {items[j] : j \in DOMAIN items}
      /\ \A j, m \in DOMAIN items : items'[j] = items'[m] => j = m
  BY <1>2, PromotedItems
<1>4. CacheCoherent'
  BY <1>1, <1>3 DEF CacheCoherent
<1>5. python_stack' = ps /\ current_tasks' = ts /\ current_greenlets' = gs
  BY DEF Hit
<1>6. LiveInv'
  BY <1>1, <1>5 DEF LiveInv, Covered
<1>7. DataTyping'
  BY <1>1, <1>3, <1>5 DEF DataTyping, TypeOK
<1>8. FileInv' /\ StringInv'
  BY <1>1 DEF FileInv, StringInv, StringsDefined, Mentioned
<1> QED
  BY <1>1, <1>4, <1>6, <1>7, <1>8

(* Frame::get when it is not: the frame is stored, and so is what it       *)
(* mentions; references to the evicted one dangle.                         *)
LEMMA MissStep ==
  ASSUME DataInv, NEW k \in Keys,
         k \notin Locations => k \in string_table \cup greenlets,
         NEW ps \in Seq(Ref), NEW ts \in Seq(Ref), NEW gs \in Seq(Ref),
         Covered(ps, index \cup {nullptr, k}),
         Covered(ts, index \cup {nullptr, k}),
         Covered(gs, index \cup {nullptr, k}),
         Miss(k, ps, ts, gs), UNCHANGED greenlets
  PROVE  /\ DataTyping' /\ CacheCoherent' /\ LiveInv' /\ FileInv' /\ StringInv'
         /\ frame_cache' = frame_cache /\ file'.open = file.open
<1> USE DEF DataInv
<1>1. /\ k \notin index /\ frame_cache' = frame_cache
      /\ items' = Stored(k) /\ index' = Indexed(k)
      /\ python_stack' = Without(ps, Evicted)
      /\ current_tasks' = Without(ts, Evicted)
      /\ current_greenlets' = Without(gs, Evicted)
      /\ string_table' = string_table \cup NamesOf(k)
      /\ Write(WithFrame(k, NamesOf(k)))
  BY DEF Miss
<1>2. /\ items' \in Seq(Keys)
      /\ {items'[j] : j \in DOMAIN items'} = index'
      /\ \A j, m \in DOMAIN items' : items'[j] = items'[m] => j = m
      /\ Len(items') <= Capacity
  BY <1>1, StoredItems
<1>3. CacheCoherent'
  BY <1>2 DEF CacheCoherent
<1>4. index' = (index \ Evicted) \cup {k} /\ index \subseteq Keys
  BY <1>1 DEF Indexed, TypeOK
<1>5. ASSUME NEW s \in Seq(Ref), Covered(s, index \cup {nullptr, k})
      PROVE  /\ Without(s, Evicted) \in Seq(Ref)
             /\ Covered(Without(s, Evicted), index' \cup {nullptr})
  BY <1>4, <1>5, WithoutTyping DEF Covered
<1>6. /\ LiveInv'
      /\ python_stack' \in Seq(Ref) /\ current_tasks' \in Seq(Ref)
      /\ current_greenlets' \in Seq(Ref)
  BY <1>1, <1>5 DEF LiveInv
<1>7. NamesOf(k) \subseteq Strings /\ string_table \subseteq Strings
  BY FramesAssumption DEF NamesOf, Strings, TypeOK
<1>11. file' \in File => DataTyping'
  <2>1. frame_cache \in BOOLEAN
    BY DEF TypeOK
  <2>2. index' \subseteq Keys
    BY <1>4
  <2>3. string_table' \subseteq Strings
    BY <1>1, <1>7
  <2> QED
    BY <2>1, <2>2, <2>3, <1>1, <1>2, <1>6 DEF DataTyping
<1>8. file \in File
  BY DEF TypeOK
<1>9. CASE file.open
  <2>1. file' = [file EXCEPT
                   !.strings = file.strings \cup (NamesOf(k) \ string_table),
                   !.frames = file.frames \cup {k}]
    BY <1>1, <1>8, <1>9 DEF Write, WithFrame, WithStrings, File
  <2>2. /\ file' \in File
        /\ file'.strings = file.strings \cup (NamesOf(k) \ string_table)
        /\ file'.frames = file.frames \cup {k}
        /\ file'.refs = file.refs
        /\ file'.open = file.open /\ file'.clean = file.clean
    BY <1>7, <1>8, <2>1 DEF File
  <2>3. FileInv'
    BY <1>4, <1>9, <2>2 DEF FileInv
  <2>4. file.clean => string_table' \cup greenlets' \subseteq file'.strings
    BY <1>1, <1>9, <2>2 DEF StringInv
  <2>5. file.clean => Mentioned(k) \subseteq file'.strings
    BY <1>1, <2>4 DEF Mentioned, NamesOf
  <2>6. StringInv'
    BY <2>2, <2>4, <2>5 DEF StringInv, StringsDefined, Mentioned
  <2> QED
    BY <2>2, <2>3, <2>6, <1>1, <1>3, <1>6, <1>11
<1>10. CASE ~file.open
  <2>1. file' = file
    BY <1>1, <1>10 DEF Write
  <2>2. FileInv' /\ StringInv'
    BY <1>10, <2>1 DEF FileInv, StringInv, StringsDefined, Mentioned
  <2> QED
    BY <2>1, <2>2, <1>1, <1>3, <1>6, <1>8, <1>11
<1> QED
  BY <1>9, <1>10

(* Frame::get when the code cannot be read. *)
LEMMA InvalidStep ==
  ASSUME DataInv, NEW k \in Keys,
         NEW ps \in Seq(Ref), NEW ts \in Seq(Ref), NEW gs \in Seq(Ref),
         Covered(ps, index \cup {nullptr}),
         Covered(ts, index \cup {nullptr}),
         Covered(gs, index \cup {nullptr}),
         GetInvalid(k, ps, ts, gs), UNCHANGED greenlets
  PROVE  /\ DataTyping' /\ CacheCoherent' /\ LiveInv' /\ FileInv' /\ StringInv'
         /\ frame_cache' = frame_cache /\ file'.open = file.open
<1> USE DEF DataInv
<1>1. /\ python_stack' = ps /\ current_tasks' = ts /\ current_greenlets' = gs
      /\ UNCHANGED <<frame_cache, items, index>>
  BY DEF GetInvalid, cache
<1>2. PICK S \in SUBSET NamesOf(k) : /\ string_table' = string_table \cup S
                                     /\ Write(WithStrings(S))
  BY DEF GetInvalid, ReadBefore
<1>3. S \in SUBSET Strings
  BY FramesAssumption DEF NamesOf, Strings
<1>4. /\ string_table' \subseteq Strings /\ file' \in File
      /\ file'.open = file.open /\ FileInv' /\ StringInv'
  BY <1>1, <1>2, <1>3, StringsStep
<1>5. CacheCoherent' /\ LiveInv'
  BY <1>1 DEF CacheCoherent, LiveInv
<1>6. DataTyping'
  BY <1>1, <1>4 DEF DataTyping, TypeOK
<1> QED
  BY <1>1, <1>4, <1>5, <1>6

LEMMA TypeParts == TypeOK <=> DataTyping /\ ControlTyping
  BY DEF TypeOK, DataTyping, ControlTyping

LEMMA CoveredAppend ==
  ASSUME NEW s \in Seq(Ref), NEW k \in Keys \cup {nullptr}, NEW K,
         Covered(s, K)
  PROVE  Covered(Append(s, RefTo(k)), K \cup {k})
  BY DEF Covered, RefTo

(* Rendering refers to frames that exist, so to frames of the file. *)
LEMMA RenderStep ==
  ASSUME DataInv, NEW s \in Seq(Ref), Covered(s, index \cup {nullptr}),
         Write(WithRefs(s)), UNCHANGED <<string_table, greenlets, cache>>
  PROVE  file' \in File /\ file'.open = file.open /\ FileInv' /\ StringInv'
<1> USE DEF DataInv
<1>1. file \in File /\ index \subseteq Keys
  BY DEF TypeOK
<1> DEFINE R == {s[i].key : i \in {j \in DOMAIN s : s[j].live}} \ {nullptr}
           w == \E i \in DOMAIN s : ~s[i].live
<1>2. R \subseteq index
  BY DEF Covered
<1>3. UNCHANGED <<string_table, greenlets, index>>
  BY DEF cache
<1>4. CASE file.open
  <2>1. file' = [file EXCEPT !.refs = file.refs \cup R,
                             !.wild = file.wild \/ w]
    BY <1>1, <1>4 DEF Write, WithRefs, RefsTo
  <2>2. (file.wild \/ w) \in BOOLEAN
    OBVIOUS
  <2> HIDE DEF R, w
  <2>3. /\ file' \in File
        /\ file'.open = file.open /\ file'.clean = file.clean
        /\ file'.strings = file.strings /\ file'.frames = file.frames
        /\ file'.refs = file.refs \cup R
    BY <1>1, <1>2, <2>1, <2>2 DEF File
  <2>4. FileInv'
    BY <1>2, <1>3, <1>4, <2>3 DEF FileInv
  <2>5. StringInv'
    BY <1>3, <2>3 DEF StringInv, StringsDefined, Mentioned
  <2> QED
    BY <2>3, <2>4, <2>5
<1>5. CASE ~file.open
  <2>1. file' = file
    BY <1>5 DEF Write
  <2> QED
    BY <1>1, <1>3, <2>1 DEF FileInv, StringInv, StringsDefined, Mentioned
<1> QED
  BY <1>4, <1>5

(* A step that leaves the caches and the file alone. *)
LEMMA QuietStep ==
  ASSUME DataInv, ControlTyping',
         UNCHANGED <<string_table, cache, stacks, file>>,
         greenlets' \subseteq greenlets
  PROVE  DataInv'
<1> USE DEF DataInv
<1>1. UNCHANGED <<string_table, frame_cache, items, index, python_stack,
                  current_tasks, current_greenlets, file>>
  BY DEF cache, stacks
<1>2. TypeOK'
  BY <1>1, TypeParts DEF DataTyping, ControlTyping, TypeOK
<1>3. CacheCoherent' /\ LiveInv' /\ FileInv' /\ StringInv'
  BY <1>1 DEF CacheCoherent, LiveInv, FileInv, StringInv, StringsDefined,
              Mentioned
<1> QED
  BY <1>2, <1>3

-----------------------------------------------------------------------------
(* The invariant, action by action.                                        *)

(* The variables of the control are well typed after every step. *)
LEMMA ControlStep ==
  ASSUME TypeOK, [Next]_vars
  PROVE  ControlTyping'
<1> USE DEF TypeOK, ControlTyping, session, control
<1>1. ASSUME BeginDump PROVE ControlTyping'
  BY <1>1 DEF BeginDump
<1>2. ASSUME EndDump PROVE ControlTyping'
  BY <1>2 DEF EndDump
<1>3. ASSUME NEW w \in {"sampler", "listener"}, Callback(w) PROVE ControlTyping'
  BY <1>3 DEF Callback
<1>4. ASSUME NEW k \in Locations, ReadFrame(k) PROVE ControlTyping'
  BY <1>4 DEF ReadFrame
<1>5. ASSUME NEW k \in Locations, ReadInvalid(k) PROVE ControlTyping'
  BY <1>5 DEF ReadInvalid
<1>6. ASSUME StackEnds PROVE ControlTyping'
  BY <1>6 DEF StackEnds
<1>7. ASSUME NEW n \in TaskNames, TaskKey(n) PROVE ControlTyping'
  BY <1>7 DEF TaskKey
<1>8. ASSUME NEW k \in Locations, TaskFrame(k) PROVE ControlTyping'
  BY <1>8 DEF TaskFrame
<1>9. ASSUME NEW i \in DOMAIN python_stack, CopyFrame(i) PROVE ControlTyping'
  BY <1>9 DEF CopyFrame
<1>10. ASSUME NEW n \in TaskNames, TaskName(n) PROVE ControlTyping'
  BY <1>10 DEF TaskName
<1>11. ASSUME NEW k \in Locations, GreenletFrame(k) PROVE ControlTyping'
  BY <1>11 DEF GreenletFrame
<1>12. ASSUME NEW n \in GreenletNames, GreenletName(n) PROVE ControlTyping'
  BY <1>12 DEF GreenletName
<1>13. ASSUME RenderTasks PROVE ControlTyping'
  BY <1>13 DEF RenderTasks, Release
<1>14. ASSUME RenderGreenlets PROVE ControlTyping'
  BY <1>14 DEF RenderGreenlets, Release
<1>15. ASSUME RenderThread PROVE ControlTyping'
  BY <1>15 DEF RenderThread, Release
<1>16. ASSUME RenderFails PROVE ControlTyping'
  BY <1>16 DEF RenderFails, Release
<1>17. ASSUME RenderWhere PROVE ControlTyping'
  BY <1>17 DEF RenderWhere, Release
<1>18. ASSUME NEW n \in GreenletNames, TrackGreenlet(n) PROVE ControlTyping'
  BY <1>18 DEF TrackGreenlet
<1>19. ASSUME NEW n \in GreenletNames, UntrackGreenlet(n) PROVE ControlTyping'
  BY <1>19 DEF UntrackGreenlet
<1>20. ASSUME InitFrameCache PROVE ControlTyping'
  BY <1>20 DEF InitFrameCache
<1>21. ASSUME OpenFile PROVE ControlTyping'
  BY <1>21 DEF OpenFile
<1>22. ASSUME OpenFails PROVE ControlTyping'
  BY <1>22 DEF OpenFails
<1>23. ASSUME SetupWhere PROVE ControlTyping'
  BY <1>23 DEF SetupWhere
<1>24. ASSUME Header PROVE ControlTyping'
  BY <1>24 DEF Header
<1>25. ASSUME ClearMaps PROVE ControlTyping'
  BY <1>25 DEF ClearMaps
<1>26. ASSUME TeardownWhere PROVE ControlTyping'
  BY <1>26 DEF TeardownWhere
<1>27. ASSUME CloseFile PROVE ControlTyping'
  BY <1>27 DEF CloseFile
<1>28. ASSUME ResetFrameCache PROVE ControlTyping'
  BY <1>28 DEF ResetFrameCache
<1>29. CASE UNCHANGED vars
  BY <1>29 DEF vars
<1> QED
  BY <1>1, <1>2, <1>3, <1>4, <1>5, <1>6, <1>7, <1>8, <1>9, <1>10, <1>11,
     <1>12, <1>13, <1>14, <1>15, <1>16, <1>17, <1>18, <1>19, <1>20, <1>21,
     <1>22, <1>23, <1>24, <1>25, <1>26, <1>27, <1>28, <1>29
  DEF Next, Unwind, Render, Session

(* Frame::get, hit or miss. *)
LEMMA GetFrameStep ==
  ASSUME DataInv, ControlTyping', NEW k \in Keys,
         k \notin Locations => k \in string_table \cup greenlets,
         NEW ps \in Seq(Ref), NEW ts \in Seq(Ref), NEW gs \in Seq(Ref),
         Covered(ps, index \cup {nullptr, k}),
         Covered(ts, index \cup {nullptr, k}),
         Covered(gs, index \cup {nullptr, k}),
         GetFrame(k, ps, ts, gs), UNCHANGED greenlets
  PROVE  DataInv' /\ frame_cache' = frame_cache /\ file'.open = file.open
<1>1. CASE Hit(k, ps, ts, gs)
  BY <1>1, HitStep, TypeParts DEF DataInv, DataTyping, ControlTyping, TypeOK
<1>2. CASE Miss(k, ps, ts, gs)
  BY <1>2, MissStep, TypeParts DEF DataInv, DataTyping, ControlTyping, TypeOK
<1> QED
  BY <1>1, <1>2 DEF GetFrame

(* The stacks, with and without a new reference, are covered by the cache  *)
(* and the frame at hand.                                                  *)
LEMMA StacksCovered ==
  ASSUME DataInv, NEW k \in Keys \cup {nullptr},
         NEW s \in {python_stack, current_tasks, current_greenlets}
  PROVE  /\ s \in Seq(Ref) /\ Append(s, RefTo(k)) \in Seq(Ref)
         /\ Covered(s, index \cup {nullptr})
         /\ Covered(s, index \cup {nullptr, k})
         /\ Covered(Append(s, RefTo(k)), index \cup {nullptr, k})
<1>1. s \in Seq(Ref)
  BY DEF DataInv, TypeOK
<1>2. Covered(s, index \cup {nullptr})
  BY DEF DataInv, LiveInv
<1>3. Covered(s, index \cup {nullptr, k})
  BY <1>2 DEF Covered
<1>4. Covered(Append(s, RefTo(k)), (index \cup {nullptr}) \cup {k})
  BY <1>1, <1>2, CoveredAppend
<1>5. (index \cup {nullptr}) \cup {k} = index \cup {nullptr, k}
  OBVIOUS
<1> QED
  BY <1>1, <1>2, <1>3, <1>4, <1>5, AppendRef

(* Every step keeps the caches, the stacks and the file in agreement. *)
LEMMA DataStep ==
  ASSUME DataInv, OrderInv, [Next]_vars
  PROVE  DataInv'
<1>0. ControlTyping'
  BY ControlStep DEF DataInv
<1>1. ASSUME BeginDump PROVE DataInv'
  BY <1>0, <1>1, QuietStep DEF BeginDump, session, control
<1>2. ASSUME EndDump PROVE DataInv'
  BY <1>0, <1>2, QuietStep DEF EndDump, session, control
<1>3. ASSUME NEW w \in {"sampler", "listener"}, Callback(w) PROVE DataInv'
  <2>1. UNCHANGED <<string_table, greenlets, frame_cache, items, index, file>>
    BY <1>3 DEF Callback, cache, stacks
  <2>2. LiveInv' /\ DataTyping'
    <3>1. /\ python_stack' = <<>>
          /\ UNCHANGED <<current_tasks, current_greenlets>>
      BY <1>3 DEF Callback
    <3> QED
      BY <2>1, <3>1 DEF DataInv, DataTyping, TypeOK, LiveInv, Covered
  <2>3. CacheCoherent' /\ FileInv' /\ StringInv'
    BY <2>1 DEF DataInv, CacheCoherent, FileInv, StringInv, StringsDefined,
                Mentioned
  <2> QED
    BY <1>0, <2>2, <2>3, TypeParts
    DEF DataInv, DataTyping, ControlTyping, TypeOK
<1>4. ASSUME NEW k \in Locations, ReadFrame(k) PROVE DataInv'
  <2>1. k \in Keys /\ k \in Locations
    BY DEF Keys
  <2>2. /\ GetFrame(k, Append(python_stack, RefTo(k)), current_tasks,
                    current_greenlets)
        /\ UNCHANGED greenlets
    BY <1>4 DEF ReadFrame
  <2> QED
    BY <1>0, <2>1, <2>2, GetFrameStep, StacksCovered
<1>5. ASSUME NEW k \in Locations, ReadInvalid(k) PROVE DataInv'
  <2>1. k \in Keys /\ nullptr \in Keys \cup {nullptr}
    BY DEF Keys
  <2>2. /\ GetInvalid(k, Append(python_stack, RefTo(nullptr)), current_tasks,
                      current_greenlets)
        /\ UNCHANGED greenlets
    BY <1>5 DEF ReadInvalid, Invalid
  <2>3. Covered(Append(python_stack, RefTo(nullptr)), index \cup {nullptr})
    BY StacksCovered DEF Covered
  <2>4. /\ DataTyping' /\ CacheCoherent' /\ LiveInv' /\ FileInv'
        /\ StringInv'
    BY <2>1, <2>2, <2>3, InvalidStep, StacksCovered
  <2> QED
    BY <1>0, <2>4, TypeParts DEF DataInv, DataTyping, ControlTyping, TypeOK
<1>6. ASSUME StackEnds PROVE DataInv'
  BY <1>0, <1>6, QuietStep DEF StackEnds, session, control
<1>7. ASSUME NEW n \in TaskNames, TaskKey(n) PROVE DataInv'
  <2>1. {n} \in SUBSET Strings
    BY DEF Strings, Labels
  <2>2. /\ string_table' = string_table \cup {n}
        /\ Write(WithStrings({n}))
        /\ greenlets' \subseteq greenlets \cup {n}
        /\ UNCHANGED <<frame_cache, items, index, python_stack,
                       current_tasks, current_greenlets>>
    BY <1>7 DEF TaskKey, cache, stacks
  <2>3. /\ string_table' \subseteq Strings /\ file' \in File
        /\ FileInv' /\ StringInv'
    BY <2>1, <2>2, StringsStep DEF DataInv
  <2>4. CacheCoherent' /\ LiveInv'
    BY <2>2 DEF DataInv, CacheCoherent, LiveInv
  <2>5. DataTyping'
    BY <2>2, <2>3 DEF DataInv, DataTyping, TypeOK
  <2> QED
    BY <1>0, <2>3, <2>4, <2>5, TypeParts
    DEF DataInv, DataTyping, ControlTyping, TypeOK
<1>8. ASSUME NEW k \in Locations, TaskFrame(k) PROVE DataInv'
  <2>1. k \in Keys /\ k \in Locations /\ nullptr \in Keys \cup {nullptr}
    BY DEF Keys
  <2>2. UNCHANGED greenlets
    BY <1>8 DEF TaskFrame
  <2>3. CASE GetFrame(k, python_stack, Append(current_tasks, RefTo(k)),
      current_greenlets)
    BY <1>0, <2>1, <2>2, <2>3, GetFrameStep, StacksCovered
  <2>4. CASE GetFrame(k, python_stack, current_tasks,
      current_greenlets)
    BY <1>0, <2>1, <2>2, <2>4, GetFrameStep, StacksCovered
  <2>5. CASE GetInvalid(k, python_stack, Append(current_tasks, RefTo(nullptr)),
      current_greenlets)
    <3>1. Covered(Append(current_tasks, RefTo(nullptr)), index \cup {nullptr})
      BY ZenonT(60), StacksCovered DEF Covered
    <3>2. /\ DataTyping' /\ CacheCoherent' /\ LiveInv' /\ FileInv'
          /\ StringInv'
      BY <2>1, <2>2, <2>5, <3>1, InvalidStep, StacksCovered
    <3> QED
      BY <1>0, <3>2, TypeParts DEF DataInv, DataTyping, ControlTyping, TypeOK
  <2> QED
    BY <1>8, <2>3, <2>4, <2>5 DEF TaskFrame, Invalid
<1>9. ASSUME NEW i \in DOMAIN python_stack, CopyFrame(i) PROVE DataInv'
  <2>1. UNCHANGED <<string_table, greenlets, frame_cache, items, index, file>>
    BY <1>9 DEF CopyFrame, cache, stacks
  <2>2. LiveInv' /\ DataTyping'
    <3>1. /\ current_tasks' = Append(current_tasks, python_stack[i])
          /\ UNCHANGED <<python_stack, current_greenlets>>
      BY <1>9 DEF CopyFrame
    <3>2. python_stack \in Seq(Ref) /\ current_tasks \in Seq(Ref)
      BY DEF DataInv, TypeOK
    <3>3. python_stack[i] \in Ref
      BY <3>2
    <3>4. Covered(current_tasks', index \cup {nullptr})
      BY <3>1, <3>2, <3>3 DEF DataInv, LiveInv, Covered
    <3> QED
      BY <2>1, <3>1, <3>2, <3>3, <3>4 DEF DataInv, DataTyping, TypeOK, LiveInv
  <2>3. CacheCoherent' /\ FileInv' /\ StringInv'
    BY <2>1 DEF DataInv, CacheCoherent, FileInv, StringInv, StringsDefined,
                Mentioned
  <2> QED
    BY <1>0, <2>2, <2>3, TypeParts
    DEF DataInv, DataTyping, ControlTyping, TypeOK
<1>10. ASSUME NEW n \in TaskNames, TaskName(n) PROVE DataInv'
  <2>1. n \in Keys /\ n \in string_table \cup greenlets
    BY <1>10 DEF TaskName, Keys, Labels
  <2>2. /\ GetFrame(n, python_stack, Append(current_tasks, RefTo(n)),
                    current_greenlets)
        /\ UNCHANGED greenlets
    BY <1>10 DEF TaskName
  <2> QED
    BY <1>0, <2>1, <2>2, GetFrameStep, StacksCovered
<1>11. ASSUME NEW k \in Locations, GreenletFrame(k) PROVE DataInv'
  <2>1. k \in Keys /\ k \in Locations /\ nullptr \in Keys \cup {nullptr}
    BY DEF Keys
  <2>2. UNCHANGED greenlets
    BY <1>11 DEF GreenletFrame
  <2>3. CASE GetFrame(k, python_stack, current_tasks,
      Append(current_greenlets, RefTo(k)))
    BY <1>0, <2>1, <2>2, <2>3, GetFrameStep, StacksCovered
  <2>5. CASE GetInvalid(k, python_stack, current_tasks,
      Append(current_greenlets, RefTo(nullptr)))
    <3>1. Covered(Append(current_greenlets, RefTo(nullptr)), index \cup {nullptr})
      BY ZenonT(60), StacksCovered DEF Covered
    <3>2. /\ DataTyping' /\ CacheCoherent' /\ LiveInv' /\ FileInv'
          /\ StringInv'
      BY <2>1, <2>2, <2>5, <3>1, InvalidStep, StacksCovered
    <3> QED
      BY <1>0, <3>2, TypeParts DEF DataInv, DataTyping, ControlTyping, TypeOK
  <2> QED
    BY <1>11, <2>3, <2>5 DEF GreenletFrame, Invalid
<1>12. ASSUME NEW n \in GreenletNames, GreenletName(n) PROVE DataInv'
  <2>1. n \in Keys /\ n \in string_table \cup greenlets
    BY <1>12 DEF GreenletName, Keys, Labels
  <2>2. /\ GetFrame(n, python_stack, current_tasks,
                    Append(current_greenlets, RefTo(n)))
        /\ UNCHANGED greenlets
    BY <1>12 DEF GreenletName
  <2> QED
    BY <1>0, <2>1, <2>2, GetFrameStep, StacksCovered
<1>13. ASSUME RenderTasks PROVE DataInv'
  <2>1. Write(WithRefs(current_tasks)) /\ UNCHANGED <<string_table, greenlets, cache>>
    BY <1>13 DEF RenderTasks
  <2>2. file' \in File /\ FileInv' /\ StringInv'
    BY <2>1, RenderStep, StacksCovered
  <2>3. /\ python_stack' = python_stack
        /\ current_tasks' = <<>>
        /\ current_greenlets' = current_greenlets
    BY <1>13 DEF RenderTasks, stacks
  <2>4. CacheCoherent' /\ LiveInv'
    BY <2>1, <2>3 DEF DataInv, CacheCoherent, LiveInv, Covered, cache
  <2>5. DataTyping'
    BY <2>1, <2>2, <2>3 DEF DataInv, DataTyping, TypeOK, cache
  <2> QED
    BY <1>0, <2>2, <2>4, <2>5, TypeParts
    DEF DataInv, DataTyping, ControlTyping, TypeOK
<1>14. ASSUME RenderGreenlets PROVE DataInv'
  <2>1. Write(WithRefs(current_greenlets)) /\ UNCHANGED <<string_table, greenlets, cache>>
    BY <1>14 DEF RenderGreenlets
  <2>2. file' \in File /\ FileInv' /\ StringInv'
    BY <2>1, RenderStep, StacksCovered
  <2>3. /\ python_stack' = python_stack
        /\ current_tasks' = current_tasks
        /\ current_greenlets' = <<>>
    BY <1>14 DEF RenderGreenlets, stacks
  <2>4. CacheCoherent' /\ LiveInv'
    BY <2>1, <2>3 DEF DataInv, CacheCoherent, LiveInv, Covered, cache
  <2>5. DataTyping'
    BY <2>1, <2>2, <2>3 DEF DataInv, DataTyping, TypeOK, cache
  <2> QED
    BY <1>0, <2>2, <2>4, <2>5, TypeParts
    DEF DataInv, DataTyping, ControlTyping, TypeOK
<1>15. ASSUME RenderThread PROVE DataInv'
  <2>1. Write(WithRefs(python_stack)) /\ UNCHANGED <<string_table, greenlets, cache>>
    BY <1>15 DEF RenderThread
  <2>2. file' \in File /\ FileInv' /\ StringInv'
    BY <2>1, RenderStep, StacksCovered
  <2>3. /\ python_stack' = python_stack
        /\ current_tasks' = current_tasks
        /\ current_greenlets' = current_greenlets
    BY <1>15 DEF RenderThread, stacks
  <2>4. CacheCoherent' /\ LiveInv'
    BY <2>1, <2>3 DEF DataInv, CacheCoherent, LiveInv, Covered, cache
  <2>5. DataTyping'
    BY <2>1, <2>2, <2>3 DEF DataInv, DataTyping, TypeOK, cache
  <2> QED
    BY <1>0, <2>2, <2>4, <2>5, TypeParts
    DEF DataInv, DataTyping, ControlTyping, TypeOK
<1>16. ASSUME RenderFails PROVE DataInv'
  <2>1. UNCHANGED <<string_table, greenlets, cache>>
    BY <1>16 DEF RenderFails
  <2>2. file' \in File /\ FileInv' /\ StringInv'
    <3> DEFINE s == IF current_tasks # <<>> THEN current_tasks
                    ELSE current_greenlets
    <3>1. PICK i \in NamesIn(s) :
            \E n \in 0..(i - 1) : Write(WithRefs(SubSeq(s, 1, n)))
      BY <1>16 DEF RenderFails
    <3>5. PICK m \in 0..(i - 1) : Write(WithRefs(SubSeq(s, 1, m)))
      BY <3>1
    <3>2. s \in Seq(Ref) /\ Covered(s, index \cup {nullptr})
      BY StacksCovered
    <3> HIDE DEF s
    <3>3. m \in 0..Len(s)
      BY <3>1, <3>2 DEF NamesIn
    <3>4. /\ SubSeq(s, 1, m) \in Seq(Ref)
          /\ Covered(SubSeq(s, 1, m), index \cup {nullptr})
      BY <3>2, <3>3 DEF Covered
    <3> QED
      BY <2>1, <3>5, <3>4, RenderStep
  <2>3. /\ python_stack' = python_stack
        /\ current_tasks' = current_tasks
        /\ current_greenlets' = current_greenlets
    BY <1>16 DEF RenderFails, stacks
  <2>4. CacheCoherent' /\ LiveInv'
    BY <2>1, <2>3 DEF DataInv, CacheCoherent, LiveInv, Covered, cache
  <2>5. DataTyping'
    BY <2>1, <2>2, <2>3 DEF DataInv, DataTyping, TypeOK, cache
  <2> QED
    BY <1>0, <2>2, <2>4, <2>5, TypeParts
    DEF DataInv, DataTyping, ControlTyping, TypeOK
<1>17. ASSUME RenderWhere PROVE DataInv'
  BY <1>0, <1>17, QuietStep DEF RenderWhere, session, control
<1>18. ASSUME NEW n \in GreenletNames, TrackGreenlet(n) PROVE DataInv'
  <2>1. {n} \in SUBSET Strings
    BY DEF Strings, Labels
  <2>2. /\ string_table' = string_table \cup {n}
        /\ Write(WithStrings({n}))
        /\ greenlets' \subseteq greenlets \cup {n}
        /\ UNCHANGED <<frame_cache, items, index, python_stack,
                       current_tasks, current_greenlets>>
    BY <1>18 DEF TrackGreenlet, cache, stacks
  <2>3. /\ string_table' \subseteq Strings /\ file' \in File
        /\ FileInv' /\ StringInv'
    BY <2>1, <2>2, StringsStep DEF DataInv
  <2>4. CacheCoherent' /\ LiveInv'
    BY <2>2 DEF DataInv, CacheCoherent, LiveInv
  <2>5. DataTyping'
    BY <2>2, <2>3 DEF DataInv, DataTyping, TypeOK
  <2> QED
    BY <1>0, <2>3, <2>4, <2>5, TypeParts
    DEF DataInv, DataTyping, ControlTyping, TypeOK
<1>19. ASSUME NEW n \in GreenletNames, UntrackGreenlet(n) PROVE DataInv'
  BY <1>0, <1>19, QuietStep DEF UntrackGreenlet, session, control
<1>20. ASSUME InitFrameCache PROVE DataInv'
  <2>1. /\ frame_cache' = TRUE /\ items' = <<>> /\ index' = {}
        /\ UNCHANGED <<string_table, greenlets, file, python_stack,
                       current_tasks, current_greenlets>>
    BY <1>20 DEF InitFrameCache, stacks
  <2>2. index = {}
    BY <1>20 DEF InitFrameCache, OrderInv
  <2>5. CacheCoherent'
    BY <2>1, FramesAssumption DEF CacheCoherent
  <2>6. LiveInv'
    BY <2>1, <2>2 DEF DataInv, LiveInv, Covered
  <2>3. CacheCoherent' /\ LiveInv'
    BY <2>5, <2>6
  <2>4. FileInv' /\ StringInv' /\ DataTyping'
    BY <2>1 DEF DataInv, FileInv, StringInv, StringsDefined, Mentioned,
                DataTyping, TypeOK
  <2> QED
    BY <1>0, <2>3, <2>4, TypeParts
    DEF DataInv, DataTyping, ControlTyping, TypeOK
<1>21. ASSUME OpenFile PROVE DataInv'
  <2>1. UNCHANGED <<string_table, greenlets, frame_cache, items, index,
                    python_stack, current_tasks, current_greenlets>>
    BY <1>21 DEF OpenFile, cache, stacks
  <2>2. file' = [open |-> TRUE, wild |-> FALSE,
                 clean |-> string_table = {} /\ greenlets = {},
                 strings |-> {}, frames |-> {}, refs |-> {}]
    BY <1>21 DEF OpenFile
  <2>3. (string_table = {} /\ greenlets = {}) \in BOOLEAN
    OBVIOUS
  <2>4. file' \in File
    BY <2>2, <2>3 DEF File
  <2>5. index = {}
    BY <1>21 DEF OpenFile, OrderInv
  <2>6. CacheCoherent' /\ LiveInv' /\ FileInv' /\ StringInv'
    BY <2>1, <2>2, <2>5 DEF DataInv, CacheCoherent, LiveInv, FileInv,
                            StringInv, StringsDefined, Mentioned
  <2>7. DataTyping'
    BY <2>1, <2>4 DEF DataInv, DataTyping, TypeOK
  <2> QED
    BY <1>0, <2>6, <2>7, TypeParts
    DEF DataInv, DataTyping, ControlTyping, TypeOK
<1>22. ASSUME OpenFails PROVE DataInv'
  BY <1>0, <1>22, QuietStep DEF OpenFails, session, control
<1>23. ASSUME SetupWhere PROVE DataInv'
  BY <1>0, <1>23, QuietStep DEF SetupWhere, session, control
<1>24. ASSUME Header PROVE DataInv'
  BY <1>0, <1>24, QuietStep DEF Header, session, control
<1>25. ASSUME ClearMaps PROVE DataInv'
  <2>1. /\ string_table' = {}
        /\ UNCHANGED <<greenlets, frame_cache, items, index, file,
                       python_stack, current_tasks, current_greenlets>>
    BY <1>25 DEF ClearMaps, cache, stacks
  <2>2. CacheCoherent' /\ LiveInv' /\ FileInv' /\ StringInv' /\ DataTyping'
    BY <2>1 DEF DataInv, CacheCoherent, LiveInv, FileInv, StringInv,
                StringsDefined, Mentioned, DataTyping, TypeOK
  <2> QED
    BY <1>0, <2>2, TypeParts DEF DataInv, DataTyping, ControlTyping, TypeOK
<1>26. ASSUME TeardownWhere PROVE DataInv'
  BY <1>0, <1>26, QuietStep DEF TeardownWhere, session, control
<1>27. ASSUME CloseFile PROVE DataInv'
  <2>1. /\ file' = [file EXCEPT !.open = FALSE]
        /\ UNCHANGED <<string_table, greenlets, frame_cache, items, index,
                       python_stack, current_tasks, current_greenlets>>
    BY <1>27 DEF CloseFile, cache, stacks
  <2>2. /\ file' \in File /\ file'.open = FALSE
        /\ file'.clean = file.clean /\ file'.strings = file.strings
        /\ file'.frames = file.frames /\ file'.refs = file.refs
    BY <2>1 DEF DataInv, TypeOK, File
  <2>3. CacheCoherent' /\ LiveInv' /\ FileInv' /\ StringInv'
    BY <2>1, <2>2 DEF DataInv, CacheCoherent, LiveInv, FileInv, StringInv,
                      StringsDefined, Mentioned
  <2>4. DataTyping'
    BY <2>1, <2>2 DEF DataInv, DataTyping, TypeOK
  <2> QED
    BY <1>0, <2>3, <2>4, TypeParts
    DEF DataInv, DataTyping, ControlTyping, TypeOK
<1>28. ASSUME ResetFrameCache PROVE DataInv'
  <2>1. /\ frame_cache' = FALSE /\ items' = <<>> /\ index' = {}
        /\ python_stack' = Without(python_stack, index)
        /\ current_tasks' = Without(current_tasks, index)
        /\ current_greenlets' = Without(current_greenlets, index)
        /\ UNCHANGED <<string_table, greenlets, file>>
    BY <1>28 DEF ResetFrameCache
  <2>2. ASSUME NEW s \in {python_stack, current_tasks, current_greenlets}
        PROVE  /\ Without(s, index) \in Seq(Ref)
               /\ Covered(Without(s, index), {nullptr})
    <3>1. s \in Seq(Ref) /\ Covered(s, index \cup {nullptr})
      BY DEF DataInv, TypeOK, LiveInv
    <3> QED
      BY <3>1, WithoutTyping DEF Covered
  <2>3. LiveInv'
    BY <2>1, <2>2 DEF LiveInv
  <2>4. CacheCoherent'
    BY <2>1, FramesAssumption DEF CacheCoherent
  <2>5. FileInv' /\ StringInv'
    BY <2>1 DEF DataInv, FileInv, StringInv, StringsDefined, Mentioned
  <2>7. /\ Without(python_stack, index) \in Seq(Ref)
        /\ Without(current_tasks, index) \in Seq(Ref)
        /\ Without(current_greenlets, index) \in Seq(Ref)
    BY <2>2
  <2>8. <<>> \in Seq(Keys) /\ {} \in SUBSET Keys
    OBVIOUS
  <2>6. DataTyping'
    BY <2>1, <2>7, <2>8 DEF DataInv, DataTyping, TypeOK
  <2> QED
    BY <1>0, <2>3, <2>4, <2>5, <2>6, TypeParts
    DEF DataInv, DataTyping, ControlTyping, TypeOK
<1>29. CASE UNCHANGED vars
  BY <1>0, <1>29, QuietStep DEF vars, cache, stacks
<1> QED
  BY <1>1, <1>2, <1>3, <1>4, <1>5, <1>6, <1>7, <1>8, <1>9, <1>10, <1>11,
     <1>12, <1>13, <1>14, <1>15, <1>16, <1>17, <1>18, <1>19, <1>20, <1>21,
     <1>22, <1>23, <1>24, <1>25, <1>26, <1>27, <1>28, <1>29
  DEF Next, Unwind, Render, Session

(* The session is in the middle of its life while a thread is unwound. *)
LEMMA Busy ==
  ASSUME TypeOK, OrderInv, pc # "idle"
  PROVE  who # nullptr /\ frame_cache /\ phase \in {"listening", "on", "cleared"}
  BY DEF TypeOK, OrderInv

(* Nothing but OpenFile and CloseFile opens or closes the file. *)
LEMMA WriteOpen ==
  ASSUME TypeOK, NEW S, NEW k, NEW s,
         Write(WithStrings(S)) \/ Write(WithFrame(k, S)) \/ Write(WithRefs(s))
  PROVE  file'.open = file.open
<1>1. file \in File
  BY DEF TypeOK
<1>2. /\ WithStrings(S).open = file.open
      /\ WithFrame(k, S).open = file.open
      /\ WithRefs(s).open = file.open
  BY <1>1 DEF WithStrings, WithFrame, WithRefs, File
<1> QED
  BY <1>2 DEF Write

LEMMA GetOpen ==
  ASSUME TypeOK, NEW k, NEW ps, NEW ts, NEW gs,
         GetFrame(k, ps, ts, gs) \/ GetInvalid(k, ps, ts, gs)
  PROVE  frame_cache' = frame_cache /\ file'.open = file.open
<1>1. CASE Hit(k, ps, ts, gs)
  BY <1>1 DEF Hit
<1>2. CASE Miss(k, ps, ts, gs)
  BY <1>2, WriteOpen DEF Miss
<1>3. CASE GetInvalid(k, ps, ts, gs)
  BY <1>3, WriteOpen DEF GetInvalid, cache
<1> QED
  BY <1>1, <1>2, <1>3 DEF GetFrame

(* A step of a callback that goes on. *)
LEMMA BusyStep ==
  ASSUME TypeOK, OrderInv, pc # "idle", pc' # "idle",
         UNCHANGED <<phase, who, dumping, frame_cache>>,
         file'.open = file.open
  PROVE  OrderInv'
<1>1. who # nullptr /\ phase \in {"listening", "on", "cleared"}
  BY Busy
<1> QED
  BY <1>1 DEF OrderInv

(* Its last step. *)
LEMMA LastStep ==
  ASSUME TypeOK, OrderInv, pc # "idle", Release,
         UNCHANGED <<phase, dumping, frame_cache>>,
         file'.open = file.open
  PROVE  OrderInv'
<1>1. who # nullptr /\ phase \in {"listening", "on", "cleared"}
  BY Busy
<1> QED
  BY <1>1, FramesAssumption DEF OrderInv, Release

(* The steps of a session and of the callbacks keep their order. *)
LEMMA OrderStep ==
  ASSUME TypeOK, OrderInv, [Next]_vars
  PROVE  OrderInv'
<1> USE DEF OrderInv, session, control, cache, stacks
<1>1. ASSUME BeginDump PROVE OrderInv'
  BY <1>1 DEF BeginDump, TypeOK
<1>2. ASSUME EndDump PROVE OrderInv'
  BY <1>2 DEF EndDump, TypeOK
<1>3. ASSUME NEW w \in {"sampler", "listener"}, Callback(w) PROVE OrderInv'
  BY <1>3, FramesAssumption DEF Callback
<1>4. ASSUME NEW k \in Locations, ReadFrame(k) PROVE OrderInv'
  <2>1. pc # "idle" /\ pc' # "idle" /\ UNCHANGED <<phase, who, dumping>>
    BY <1>4 DEF ReadFrame
  <2>2. frame_cache' = frame_cache /\ file'.open = file.open
    BY <1>4, GetOpen DEF ReadFrame
  <2> QED
    BY <2>1, <2>2, BusyStep
<1>5. ASSUME NEW k \in Locations, ReadInvalid(k) PROVE OrderInv'
  <2>1. pc # "idle" /\ pc' # "idle" /\ UNCHANGED <<phase, who, dumping>>
    BY <1>5 DEF ReadInvalid
  <2>2. frame_cache' = frame_cache /\ file'.open = file.open
    BY <1>5, GetOpen DEF ReadInvalid
  <2> QED
    BY <2>1, <2>2, BusyStep
<1>6. ASSUME StackEnds PROVE OrderInv'
  BY <1>6, BusyStep DEF StackEnds
<1>7. ASSUME NEW n \in TaskNames, TaskKey(n) PROVE OrderInv'
  <2>1. file'.open = file.open
    BY <1>7, WriteOpen DEF TaskKey
  <2> QED
    BY <1>7, <2>1, BusyStep DEF TaskKey
<1>8. ASSUME NEW k \in Locations, TaskFrame(k) PROVE OrderInv'
  <2>1. pc # "idle" /\ pc' # "idle" /\ UNCHANGED <<phase, who, dumping>>
    BY <1>8 DEF TaskFrame
  <2>2. frame_cache' = frame_cache /\ file'.open = file.open
    BY <1>8, GetOpen DEF TaskFrame
  <2> QED
    BY <2>1, <2>2, BusyStep
<1>9. ASSUME NEW i \in DOMAIN python_stack, CopyFrame(i) PROVE OrderInv'
  BY <1>9, BusyStep DEF CopyFrame
<1>10. ASSUME NEW n \in TaskNames, TaskName(n) PROVE OrderInv'
  <2>1. pc # "idle" /\ pc' # "idle" /\ UNCHANGED <<phase, who, dumping>>
    BY <1>10 DEF TaskName
  <2>2. frame_cache' = frame_cache /\ file'.open = file.open
    BY <1>10, GetOpen DEF TaskName
  <2> QED
    BY <2>1, <2>2, BusyStep
<1>11. ASSUME NEW k \in Locations, GreenletFrame(k) PROVE OrderInv'
  <2>1. pc # "idle" /\ pc' # "idle" /\ UNCHANGED <<phase, who, dumping>>
    BY <1>11 DEF GreenletFrame
  <2>2. frame_cache' = frame_cache /\ file'.open = file.open
    BY <1>11, GetOpen DEF GreenletFrame
  <2> QED
    BY <2>1, <2>2, BusyStep
<1>12. ASSUME NEW n \in GreenletNames, GreenletName(n) PROVE OrderInv'
  <2>1. pc # "idle" /\ pc' # "idle" /\ UNCHANGED <<phase, who, dumping>>
    BY <1>12 DEF GreenletName
  <2>2. frame_cache' = frame_cache /\ file'.open = file.open
    BY <1>12, GetOpen DEF GreenletName
  <2> QED
    BY <2>1, <2>2, BusyStep
<1>13. ASSUME RenderTasks PROVE OrderInv'
  <2>1. /\ pc # "idle" /\ Release
        /\ UNCHANGED <<phase, dumping, frame_cache>>
    BY <1>13 DEF RenderTasks, Unwound
  <2>2. file'.open = file.open
    BY <1>13, WriteOpen DEF RenderTasks
  <2> QED
    BY <2>1, <2>2, LastStep
<1>14. ASSUME RenderGreenlets PROVE OrderInv'
  <2>1. /\ pc # "idle" /\ Release
        /\ UNCHANGED <<phase, dumping, frame_cache>>
    BY <1>14 DEF RenderGreenlets, Unwound
  <2>2. file'.open = file.open
    BY <1>14, WriteOpen DEF RenderGreenlets
  <2> QED
    BY <2>1, <2>2, LastStep
<1>15. ASSUME RenderThread PROVE OrderInv'
  <2>1. /\ pc # "idle" /\ Release
        /\ UNCHANGED <<phase, dumping, frame_cache>>
    BY <1>15 DEF RenderThread, Unwound
  <2>2. file'.open = file.open
    BY <1>15, WriteOpen DEF RenderThread
  <2> QED
    BY <2>1, <2>2, LastStep
<1>16. ASSUME RenderFails PROVE OrderInv'
  <2>1. /\ pc # "idle" /\ Release
        /\ UNCHANGED <<phase, dumping, frame_cache>>
    BY <1>16 DEF RenderFails, Unwound
  <2>2. file'.open = file.open
    BY <1>16, WriteOpen DEF RenderFails
  <2> QED
    BY <2>1, <2>2, LastStep
<1>17. ASSUME RenderWhere PROVE OrderInv'
  <2>1. /\ pc # "idle" /\ Release
        /\ UNCHANGED <<phase, dumping, frame_cache>>
    BY <1>17 DEF RenderWhere, Unwound
  <2>2. file'.open = file.open
    BY <1>17, WriteOpen DEF RenderWhere
  <2> QED
    BY <2>1, <2>2, LastStep
<1>18. ASSUME NEW n \in GreenletNames, TrackGreenlet(n) PROVE OrderInv'
  <2>1. file'.open = file.open
    BY <1>18, WriteOpen DEF TrackGreenlet
  <2> QED
    BY <1>18, <2>1 DEF TrackGreenlet
<1>19. ASSUME NEW n \in GreenletNames, UntrackGreenlet(n) PROVE OrderInv'
  BY <1>19 DEF UntrackGreenlet, TypeOK
<1>20. ASSUME InitFrameCache PROVE OrderInv'
  BY <1>20 DEF InitFrameCache, TypeOK
<1>21. ASSUME OpenFile PROVE OrderInv'
  BY <1>21 DEF OpenFile, TypeOK
<1>22. ASSUME OpenFails PROVE OrderInv'
  BY <1>22 DEF OpenFails, TypeOK
<1>23. ASSUME SetupWhere PROVE OrderInv'
  BY <1>23 DEF SetupWhere, TypeOK
<1>24. ASSUME Header PROVE OrderInv'
  BY <1>24 DEF Header, TypeOK
<1>25. ASSUME ClearMaps PROVE OrderInv'
  BY <1>25, FramesAssumption DEF ClearMaps, TypeOK
<1>26. ASSUME TeardownWhere PROVE OrderInv'
  BY <1>26 DEF TeardownWhere, TypeOK
<1>27. ASSUME CloseFile PROVE OrderInv'
  <2>1. file'.open = FALSE
    BY <1>27 DEF CloseFile, TypeOK, File
  <2> QED
    BY <1>27, <2>1 DEF CloseFile, TypeOK
<1>28. ASSUME ResetFrameCache PROVE OrderInv'
  BY <1>28 DEF ResetFrameCache, TypeOK
<1>29. CASE UNCHANGED vars
  BY <1>29 DEF vars
<1> QED
  BY <1>1, <1>2, <1>3, <1>4, <1>5, <1>6, <1>7, <1>8, <1>9, <1>10, <1>11,
     <1>12, <1>13, <1>14, <1>15, <1>16, <1>17, <1>18, <1>19, <1>20, <1>21,
     <1>22, <1>23, <1>24, <1>25, <1>26, <1>27, <1>28, <1>29
  DEF Next, Unwind, Render, Session

-----------------------------------------------------------------------------
(* The stack being unwound.                                                *)

(* Where a frame of the stack is in the list of the cache. *)
Recent(x, its, n) ==
  x = nullptr \/ \E p \in DOMAIN its : p <= n /\ its[p] = x

(* lookup moves a frame back by one place at most, and to the front the    *)
(* frame it finds.                                                         *)
LEMMA PromotedRecent ==
  ASSUME TypeOK, NEW m \in DOMAIN items, NEW x, NEW n \in Nat,
         Recent(x, items, n)
  PROVE  Recent(x, Promoted(m), n + 1)
<1>1. /\ items \in Seq(Keys) /\ Len(items) \in Nat
      /\ DOMAIN items = 1..Len(items) /\ DOMAIN Promoted(m) = 1..Len(items)
  BY DEF TypeOK, Promoted
<1>2. \A j \in 1..Len(items) :
        Promoted(m)[j] = IF j = 1 THEN items[m]
                         ELSE IF j <= m THEN items[j - 1] ELSE items[j]
  BY DEF Promoted
<1>3. Recent(items[m], Promoted(m), n + 1)
  BY <1>1, <1>2 DEF Recent
<1>4. ASSUME NEW p \in DOMAIN items, p <= n, items[p] = x
      PROVE  Recent(x, Promoted(m), n + 1)
  <2> DEFINE q == IF p = m THEN 1 ELSE IF p < m THEN p + 1 ELSE p
  <2>1. q \in 1..Len(items) /\ q <= n + 1
    BY <1>1, <1>4
  <2>2. Promoted(m)[q] = x
    BY <1>1, <1>2, <1>4
  <2> QED
    BY <1>1, <2>1, <2>2 DEF Recent
<1> QED
  BY <1>3, <1>4 DEF Recent

(* store moves every frame back by one place and evicts the one in place   *)
(* Capacity.                                                               *)
LEMMA StoredRecent ==
  ASSUME TypeOK, CacheCoherent, NEW k \in Keys, NEW x, NEW n \in Nat,
         n < Capacity, Recent(x, items, n)
  PROVE  /\ Recent(x, Stored(k), n + 1) /\ x \notin Evicted
         /\ Recent(k, Stored(k), n + 1)
<1> DEFINE last == IF Full THEN Len(items) ELSE Len(items) + 1
<1>1. /\ items \in Seq(Keys) /\ Len(items) \in Nat
      /\ DOMAIN items = 1..Len(items) /\ DOMAIN Stored(k) = 1..last
      /\ Capacity \in Nat /\ Capacity >= 1 /\ nullptr \notin Keys
  BY FramesAssumption DEF TypeOK, Stored
<1>2. \A j \in 1..last : Stored(k)[j] = IF j = 1 THEN k ELSE items[j - 1]
  BY DEF Stored
<1>3. Full => Len(items) >= Capacity
  BY DEF Full
<1>4. last \in Nat /\ last >= 1
  <2>1. CASE Full
    <3>1. last = Len(items)
      BY <2>1
    <3> HIDE DEF last
    <3> QED
      BY <2>1, <3>1, <1>1, <1>3
  <2>2. CASE ~Full
    <3>1. last = Len(items) + 1
      BY <2>2
    <3> HIDE DEF last
    <3> QED
      BY <3>1, <1>1
  <2> QED
    BY <2>1, <2>2
<1>5. Recent(k, Stored(k), n + 1)
  <2>1. Stored(k)[1] = k /\ 1 \in DOMAIN Stored(k) /\ 1 <= n + 1
    <3> HIDE DEF last
    <3> QED
      BY <1>1, <1>2, <1>4
  <2> QED
    BY <2>1 DEF Recent
<1>6. CASE x = nullptr
  <2>1. Evicted \subseteq Keys
    <3>1. Full => Len(items) \in DOMAIN items
      BY <1>1, <1>3
    <3> QED
      BY <1>1, <3>1 DEF Evicted
  <2> QED
    BY <1>1, <1>5, <1>6, <2>1 DEF Recent
<1>7. ASSUME NEW p \in DOMAIN items, p <= n, items[p] = x
      PROVE  Recent(x, Stored(k), n + 1) /\ x \notin Evicted
  <2>1. Full => p # Len(items) /\ Len(items) \in DOMAIN items
    BY <1>1, <1>3, <1>7
  <2>2. x \notin Evicted
    BY <1>7, <2>1 DEF Evicted, CacheCoherent
  <2>3. p + 1 \in 1..last
    <3>1. CASE Full
      <4>1. last = Len(items)
        BY <3>1
      <4> HIDE DEF last
      <4> QED
        BY <3>1, <4>1, <1>1, <1>7, <2>1
    <3>2. CASE ~Full
      <4>1. last = Len(items) + 1
        BY <3>2
      <4> HIDE DEF last
      <4> QED
        BY <4>1, <1>1, <1>7
    <3> QED
      BY <3>1, <3>2
  <2>4. Stored(k)[p + 1] = x /\ p + 1 <= n + 1
    <3> HIDE DEF last
    <3> QED
      BY <1>1, <1>2, <1>7, <2>3
  <2> QED
    BY <1>1, <2>2, <2>3, <2>4 DEF Recent
<1> QED
  BY <1>5, <1>6, <1>7 DEF Recent

(* The evicted frame was in the cache. *)
LEMMA EvictedIndexed ==
  ASSUME TypeOK, CacheCoherent
  PROVE  Evicted \subseteq index
<1>1. Len(items) \in Nat /\ DOMAIN items = 1..Len(items)
  BY DEF TypeOK
<1>2. Full => Len(items) \in DOMAIN items
  BY <1>1, FramesAssumption DEF Full
<1> QED
  BY <1>2 DEF Evicted, CacheCoherent

(* One more frame on the stack: all of them exist and are recent. *)
AllRecent(s, its) ==
  \A i \in DOMAIN s : s[i].live /\ Recent(s[i].key, its, Len(s))

LEMMA ReadFrameRecent ==
  ASSUME TypeOK, CacheCoherent, NEW k \in Keys,
         AllRecent(python_stack, items), Len(python_stack) < Capacity,
         GetFrame(k, Append(python_stack, RefTo(k)), current_tasks,
                  current_greenlets)
  PROVE  AllRecent(python_stack, items)'
<1> DEFINE n  == Len(python_stack)
           ps == Append(python_stack, RefTo(k))
<1>1. /\ python_stack \in Seq(Ref) /\ n \in Nat /\ n < Capacity
      /\ DOMAIN python_stack = 1..n
  BY DEF TypeOK
<1>2. /\ ps \in Seq(Ref) /\ Len(ps) = n + 1 /\ DOMAIN ps = 1..(n + 1)
      /\ ps[n + 1] = RefTo(k) /\ \A i \in 1..n : ps[i] = python_stack[i]
  BY <1>1, AppendRef
<1>3. /\ ps[n + 1].live /\ ps[n + 1].key = k
      /\ \A i \in 1..n : ps[i].live /\ Recent(ps[i].key, items, n)
  BY <1>1, <1>2 DEF AllRecent, RefTo
<1>4. CASE Hit(k, ps, current_tasks, current_greenlets)
  <2>1. PICK m \in DOMAIN items : items[m] = k /\ items' = Promoted(m)
    BY <1>4 DEF Hit
  <2>2. python_stack' = ps
    BY <1>4 DEF Hit
  <2>3. \A i \in 1..n : Recent(ps[i].key, items', n + 1)
    <3> HIDE DEF ps, n
    <3> QED
      BY <1>1, <1>3, <2>1, PromotedRecent
  <2>4. Recent(k, items', n + 1)
    <3>1. 1 \in DOMAIN Promoted(m) /\ Promoted(m)[1] = items[m] /\ 1 <= n + 1
      BY <1>1 DEF Promoted, TypeOK
    <3> QED
      BY <2>1, <3>1 DEF Recent
  <2> HIDE DEF ps, n
  <2> QED
    BY <1>1, <1>2, <1>3, <2>2, <2>3, <2>4 DEF AllRecent
<1>5. CASE Miss(k, ps, current_tasks, current_greenlets)
  <2>1. /\ k \notin index /\ items' = Stored(k)
        /\ python_stack' = Without(ps, Evicted)
    BY <1>5 DEF Miss
  <2>2. k \notin Evicted
    BY <2>1, EvictedIndexed
  <2>3. \A i \in 1..n : /\ Recent(ps[i].key, items', n + 1)
                        /\ ps[i].key \notin Evicted
    <3> HIDE DEF ps, n
    <3> QED
      BY <1>1, <1>3, <2>1, StoredRecent
  <2>4. Recent(k, items', n + 1)
    <3>1. Recent(nullptr, items, n)
      BY DEF Recent
    <3> HIDE DEF ps, n
    <3> QED
      BY <1>1, <2>1, <3>1, StoredRecent
  <2>5. /\ DOMAIN python_stack' = 1..(n + 1) /\ Len(python_stack') = n + 1
        /\ \A i \in 1..(n + 1) :
             /\ python_stack'[i].key = ps[i].key
             /\ python_stack'[i].live = (ps[i].live /\ ps[i].key \notin Evicted)
    <3> HIDE DEF ps, n
    <3> QED
      BY <1>2, <2>1, WithoutTyping
  <2> HIDE DEF ps, n
  <2>6. \A i \in 1..(n + 1) : i \in 1..n \/ i = n + 1
    BY <1>1
  <2> QED
    BY ZenonT(60), <1>1, <1>3, <2>2, <2>3, <2>4, <2>5, <2>6 DEF AllRecent
<1> QED
  BY <1>4, <1>5 DEF GetFrame

LEMMA ReadInvalidRecent ==
  ASSUME TypeOK, NEW k,
         GetInvalid(k, Append(python_stack, Invalid), current_tasks,
                    current_greenlets),
         \A i \in DOMAIN python_stack : python_stack[i].live
  PROVE  \A i \in DOMAIN python_stack' : python_stack'[i].live
<1>1. /\ python_stack' = Append(python_stack, RefTo(nullptr))
      /\ python_stack \in Seq(Ref) /\ RefTo(nullptr).live
  BY AppendRef DEF GetInvalid, Invalid, TypeOK, RefTo
<1> QED
  BY <1>1, AppendRef

(* While a thread is being unwound, the frames of its stack are in the     *)
(* cache, the most recently used ones, and exist.                          *)
StackInv == RecentInv /\ StackLive

(* Evictions do not reach the stack at hand. *)
LEMMA RecentStep ==
  ASSUME TypeOK, CacheCoherent, OrderInv, StackInv, [Next]_vars
  PROVE  StackInv'
<1> USE DEF StackInv, RecentInv, StackLive, session, control, cache, stacks
<1>1. ASSUME BeginDump PROVE StackInv'
  BY <1>1 DEF BeginDump
<1>2. ASSUME EndDump PROVE StackInv'
  BY <1>2 DEF EndDump
<1>3. ASSUME NEW w \in {"sampler", "listener"}, Callback(w) PROVE StackInv'
  <2>1. python_stack' = <<>>
    BY <1>3 DEF Callback
  <2> QED
    BY <2>1
<1>4. ASSUME NEW k \in Locations, ReadFrame(k) PROVE StackInv'
  <2>1. /\ pc = "unwinding" /\ pc' = pc /\ Len(python_stack) < MaxFrames
        /\ GetFrame(k, Append(python_stack, RefTo(k)), current_tasks,
                    current_greenlets)
    BY <1>4 DEF ReadFrame
  <2>2. k \in Keys /\ Len(python_stack) \in Nat
    BY DEF Keys, TypeOK
  <2>3. ASSUME MaxFrames <= Capacity PROVE AllRecent(python_stack, items)'
    <3>1. AllRecent(python_stack, items)
      BY <2>1, <2>3 DEF AllRecent, Recent
    <3>2. Len(python_stack) < Capacity
      BY <2>1, <2>2, <2>3, FramesAssumption
    <3> QED
      BY <2>1, <2>2, <3>1, <3>2, ReadFrameRecent
  <2> QED
    BY <2>1, <2>3 DEF AllRecent, Recent
<1>5. ASSUME NEW k \in Locations, ReadInvalid(k) PROVE StackInv'
  <2>1. /\ pc = "unwinding" /\ pc' = "unwound"
        /\ GetInvalid(k, Append(python_stack, Invalid), current_tasks,
                      current_greenlets)
    BY <1>5 DEF ReadInvalid
  <2> QED
    BY <2>1, ReadInvalidRecent
<1>6. ASSUME StackEnds PROVE StackInv'
  BY <1>6 DEF StackEnds
<1>7. ASSUME NEW n \in TaskNames, TaskKey(n) PROVE StackInv'
  BY <1>7 DEF TaskKey
<1>8. ASSUME NEW k \in Locations, TaskFrame(k) PROVE StackInv'
  BY <1>8 DEF TaskFrame
<1>9. ASSUME NEW i \in DOMAIN python_stack, CopyFrame(i) PROVE StackInv'
  BY <1>9 DEF CopyFrame
<1>10. ASSUME NEW n \in TaskNames, TaskName(n) PROVE StackInv'
  BY <1>10 DEF TaskName
<1>11. ASSUME NEW k \in Locations, GreenletFrame(k) PROVE StackInv'
  BY <1>11 DEF GreenletFrame
<1>12. ASSUME NEW n \in GreenletNames, GreenletName(n) PROVE StackInv'
  BY <1>12 DEF GreenletName
<1>13. ASSUME RenderTasks PROVE StackInv'
  BY <1>13 DEF RenderTasks, Release
<1>14. ASSUME RenderGreenlets PROVE StackInv'
  BY <1>14 DEF RenderGreenlets, Release
<1>15. ASSUME RenderThread PROVE StackInv'
  BY <1>15 DEF RenderThread, Release
<1>16. ASSUME RenderFails PROVE StackInv'
  BY <1>16 DEF RenderFails, Release
<1>17. ASSUME RenderWhere PROVE StackInv'
  BY <1>17 DEF RenderWhere, Release
<1>18. ASSUME NEW n \in GreenletNames, TrackGreenlet(n) PROVE StackInv'
  BY <1>18 DEF TrackGreenlet
<1>19. ASSUME NEW n \in GreenletNames, UntrackGreenlet(n) PROVE StackInv'
  BY <1>19 DEF UntrackGreenlet
<1>20. ASSUME InitFrameCache PROVE StackInv'
  <2>1. pc' = pc /\ pc = "idle"
    BY <1>20 DEF InitFrameCache, OrderInv, TypeOK
  <2> QED
    BY <2>1
<1>21. ASSUME OpenFile PROVE StackInv'
  BY <1>21 DEF OpenFile
<1>22. ASSUME OpenFails PROVE StackInv'
  BY <1>22 DEF OpenFails
<1>23. ASSUME SetupWhere PROVE StackInv'
  BY <1>23 DEF SetupWhere
<1>24. ASSUME Header PROVE StackInv'
  BY <1>24 DEF Header
<1>25. ASSUME ClearMaps PROVE StackInv'
  BY <1>25 DEF ClearMaps
<1>26. ASSUME TeardownWhere PROVE StackInv'
  BY <1>26 DEF TeardownWhere
<1>27. ASSUME CloseFile PROVE StackInv'
  BY <1>27 DEF CloseFile
<1>28. ASSUME ResetFrameCache PROVE StackInv'
  <2>1. pc' = pc /\ pc = "idle"
    BY <1>28 DEF ResetFrameCache, OrderInv, TypeOK
  <2> QED
    BY <2>1
<1>29. CASE UNCHANGED vars
  BY <1>29 DEF vars
<1> QED
  BY <1>1, <1>2, <1>3, <1>4, <1>5, <1>6, <1>7, <1>8, <1>9, <1>10, <1>11,
     <1>12, <1>13, <1>14, <1>15, <1>16, <1>17, <1>18, <1>19, <1>20, <1>21,
     <1>22, <1>23, <1>24, <1>25, <1>26, <1>27, <1>28, <1>29
  DEF Next, Unwind, Render, Session

-----------------------------------------------------------------------------
(* Theorems.                                                               *)

LEMMA FramesInit == Init => DataInv /\ OrderInv /\ StackInv
<1> SUFFICES ASSUME Init PROVE DataInv /\ OrderInv /\ StackInv
  OBVIOUS
<1> USE DEF Init
<1>1. TypeOK
  <2>1. file \in File
    BY DEF File
  <2>2. <<>> \in Seq(Ref) /\ <<>> \in Seq(Keys)
    OBVIOUS
  <2>3. DataTyping
    BY <2>1, <2>2 DEF DataTyping
  <2>4. ControlTyping
    BY DEF ControlTyping
  <2> QED
    BY <2>3, <2>4, TypeParts
<1>2. CacheCoherent
  BY FramesAssumption DEF CacheCoherent
<1>3. LiveInv /\ FileInv /\ StringInv
  BY DEF LiveInv, Covered, FileInv, StringInv, StringsDefined
<1>4. OrderInv
  BY FramesAssumption DEF OrderInv
<1>5. StackInv
  BY DEF StackInv, RecentInv, StackLive
<1> QED
  BY <1>1, <1>2, <1>3, <1>4, <1>5 DEF DataInv

LEMMA FramesInductive ==
  ASSUME DataInv, OrderInv, StackInv, [Next]_vars
  PROVE  DataInv' /\ OrderInv' /\ StackInv'
<1>1. TypeOK /\ CacheCoherent
  BY DEF DataInv
<1> QED
  BY <1>1, DataStep, OrderStep, RecentStep

(* The inductive invariant of Frames: the caches, the stacks and the file  *)
(* agree, the steps of _start, _stop and the callbacks come in order, and  *)
(* the frames of the stack at hand are the cache's most recent ones.       *)
THEOREM FramesInvariant == Spec => [](TypeOK /\ FramesInv)
<1> DEFINE IInv == DataInv /\ OrderInv /\ StackInv
<1>1. IInv /\ [Next]_vars => IInv'
  BY FramesInductive
<1>2. Init => IInv
  BY FramesInit
<1>3. IInv => TypeOK /\ FramesInv
  BY DEF DataInv, StackInv, FramesInv
<1> HIDE DEF IInv
<1> QED
  BY <1>1, <1>2, <1>3, PTL DEF Spec

(* Every variable keeps its type: in particular the list of the LRU cache  *)
(* only holds keys of frames, and the file only refers to frames, never to *)
(* nullptr, which is rendered as FRAME_INVALID.                            *)
THEOREM FramesTypeOK == Spec => []TypeOK
BY FramesInvariant, PTL

(* LRUCache: whatever lookups and stores follow, the hash map finds        *)
(* exactly the frames of the list, and there are at most Capacity.         *)
THEOREM CacheIsCoherent == Spec => []CacheCoherent
<1>1. FramesInv => CacheCoherent
  BY DEF FramesInv
<1> QED
  BY <1>1, FramesInvariant, PTL

(* No callback of the sampler or of a dump runs without the frame cache:   *)
(* _stop joins the listener before it resets the cache.                    *)
THEOREM CacheOutlivesUnwinding == Spec => []CacheAlive
<1>1. TypeOK /\ FramesInv => CacheAlive
  BY FramesAssumption DEF FramesInv, TypeOK, OrderInv, CacheAlive
<1> QED
  BY <1>1, FramesInvariant, PTL

(* With max_frames no larger than the cache, unwinding a thread never      *)
(* evicts a frame of its own stack.                                        *)
THEOREM StackStaysAlive == Spec => []StackLive
<1>1. FramesInv => StackLive
  BY DEF FramesInv
<1> QED
  BY <1>1, FramesInvariant, PTL

(* Every FRAME_REF in the file names a frame the file defines, unless a    *)
(* destroyed frame was rendered.                                           *)
THEOREM ReferencesAreDefined == Spec => []RefsDefined
<1>1. FramesInv => RefsDefined
  BY DEF FramesInv, FileInv, RefsDefined
<1> QED
  BY <1>1, FramesInvariant, PTL

(* In a file opened with no string known, every FRAME names strings that   *)
(* the file defines.                                                       *)
THEOREM StringsAreDefined == Spec => []StringsDefined
<1>1. FramesInv => StringsDefined
  BY DEF FramesInv, StringInv
<1> QED
  BY <1>1, FramesInvariant, PTL

-----------------------------------------------------------------------------
(* The copies of chunks.                                                   *)

(* What can be read has been there since.                                  *)
SinceInv ==
  \A a \in C!Addresses : memory[a] # nullptr => memory[a].frame \in since[a]

(* Chunks lie apart from each other and from the frames of generators, and *)
(* each leads to the one before.                                           *)
Chunk == [at : C!Addresses, size : 1..LastCell]

Placed ==
  /\ chunks \in [Threads -> Seq(Chunk)]
  /\ \A t \in Threads : \A i \in DOMAIN chunks[t] :
       C!CellsOf(chunks[t][i]) \subseteq C!Addresses \ objects

Apart ==
  \A t, u \in Threads : \A i \in DOMAIN chunks[t], j \in DOMAIN chunks[u] :
    \A a \in C!CellsOf(chunks[t][i]) : a \in C!CellsOf(chunks[u][j]) => t = u /\ i = j

Previous(t, i) == IF i = Len(chunks[t]) THEN nullptr ELSE chunks[t][i + 1].at

Headed ==
  \A t \in Threads : \A i \in DOMAIN chunks[t] :
    LET c == chunks[t][i]
    IN /\ memory[c.at] # nullptr
       /\ memory[c.at].size = c.size
       /\ memory[c.at].previous = Previous(t, i)

(* Where update is, as long as no chunk is given back: at a chunk, with    *)
(* its header as it is.                                                    *)
IsChunk(a) == \E t \in Threads : \E i \in DOMAIN chunks[t] : a = chunks[t][i].at

UpdateInv ==
  /\ chunk_pc = "data" => chunk_addr \in C!Addresses
  /\ level <= Len(stack_chunk)
  /\ ~freed /\ chunk_pc \in {"header", "data"} => chunk_addr = nullptr \/ IsChunk(chunk_addr)
  /\ ~freed /\ chunk_pc = "data" => chunk = memory[chunk_addr]

(* A copy that holds nothing but what has been at its place since.         *)
Fresh(c) ==
  /\ c.size <= Len(c.data)
  /\ \A i \in 1..c.size :
       c.origin + i - 1 \in C!Addresses /\ c.data[i] \in since[c.origin + i - 1]

CopiesInv ==
  ~freed /\ chunk_pc # "idle" => \A d \in 1..level : Fresh(stack_chunk[d])

FoundInv == C!FramesFresh /\ (chunk_pc # "frames" => frame_addr = nullptr)

ChunksInv ==
  /\ C!TypeOK /\ SinceInv /\ Placed /\ Apart /\ Headed
  /\ UpdateInv /\ CopiesInv /\ FoundInv

LEMMA Writing ==
  ASSUME C!TypeOK, SinceInv, NEW c \in Chunk, NEW previous \in C!Pointer,
         C!CellsOf(c) \subseteq C!Addresses, C!Write(C!CellsOf(c), c.size, previous)
  PROVE  /\ memory' \in [C!Addresses -> C!Cell \cup {nullptr}]
         /\ since' \in [C!Addresses -> SUBSET C!Frame]
         /\ writes' \in 0..MaxWrites
         /\ memory'[c.at].size = c.size /\ memory'[c.at].previous = previous
         /\ \A a \in C!CellsOf(c) : memory'[a] # nullptr
         /\ \A a \in C!Addresses \ C!CellsOf(c) : memory'[a] = memory[a]
         /\ \A a \in C!Addresses : since[a] \subseteq since'[a]
         /\ SinceInv'
<1> DEFINE here == c.at
           size == c.size
           S == C!CellsOf(c)
<1>1. here \in C!Addresses /\ size \in 1..LastCell /\ S = here..(here + size - 1)
  BY DEF Chunk, C!CellsOf
<1>2. S \subseteq C!Addresses /\ C!Write(S, size, previous)
  OBVIOUS
<1> HIDE DEF here, size, S
<1> SUFFICES /\ memory' \in [C!Addresses -> C!Cell \cup {nullptr}]
             /\ since' \in [C!Addresses -> SUBSET C!Frame]
             /\ writes' \in 0..MaxWrites
             /\ memory'[here].size = size /\ memory'[here].previous = previous
             /\ \A a \in S : memory'[a] # nullptr
             /\ \A a \in C!Addresses \ S : memory'[a] = memory[a]
             /\ \A a \in C!Addresses : since[a] \subseteq since'[a]
             /\ SinceInv'
  BY DEF here, size, S
<1> USE <1>1, <1>2
<1> USE ChunksAssumption DEF C!Addresses
<1> DEFINE first == CHOOSE a \in S : \A b \in S : a <= b
           new(a) == [frame |-> writes + 1 + a - here,
                      size |-> IF a = here THEN size ELSE 0,
                      previous |-> IF a = here THEN previous ELSE nullptr]
<1>3. first = here
  <2>1. here \in S /\ \A b \in S : here <= b
    OBVIOUS
  <2>2. first \in S /\ \A b \in S : first <= b
    BY <2>1
  <2>3. \A x, y \in S : x <= y /\ y <= x => x = y
    OBVIOUS
  <2> HIDE DEF first
  <2> QED
    BY <2>1, <2>2, <2>3
<1>4. /\ writes + size <= MaxWrites
      /\ writes' = writes + size
      /\ memory' = [a \in C!Addresses |-> IF a \in S THEN new(a) ELSE memory[a]]
      /\ since' = [a \in C!Addresses |->
                     IF a \in S THEN since[a] \cup {new(a).frame} ELSE since[a]]
  BY ONLY <1>2, <1>3 DEF C!Write
<1>5. ASSUME NEW a \in S PROVE new(a) \in C!Cell /\ new(a).frame \in C!Frame
  <2>1. writes + 1 + a - here \in C!Frame
    BY <1>4 DEF C!TypeOK, C!Frame
  <2> QED
    BY <2>1 DEF C!Cell, C!Pointer
<1>6. \A a \in S : new(a) # nullptr
  BY <1>5
<1>7. new(here).size = size /\ new(here).previous = previous /\ here \in S
  OBVIOUS
<1>8. \A a \in S : new(a).frame \in C!Frame /\ new(a) \in C!Cell
  BY <1>5
<1> HIDE DEF new
<1>9. memory' \in [C!Addresses -> C!Cell \cup {nullptr}]
  BY <1>4, <1>8 DEF C!TypeOK
<1>10. since' \in [C!Addresses -> SUBSET C!Frame]
  BY <1>4, <1>8 DEF C!TypeOK
<1>11. writes' \in 0..MaxWrites
  BY <1>4 DEF C!TypeOK
<1>12. SinceInv'
  BY <1>4 DEF SinceInv
<1> QED
  BY <1>4, <1>6, <1>7, <1>9, <1>10, <1>11, <1>12

LEMMA Freeing ==
  ASSUME C!TypeOK, SinceInv, NEW S, C!Freed(S), since' = since
  PROVE  /\ memory' \in [C!Addresses -> C!Cell \cup {nullptr}]
         /\ \A a \in C!Addresses \ S : memory'[a] = memory[a]
         /\ SinceInv'
BY DEF C!Freed, C!TypeOK, SinceInv

LEMMA Cells ==
  ASSUME Placed, NEW t \in Threads, NEW i \in DOMAIN chunks[t]
  PROVE  /\ chunks[t] \in Seq(Chunk) /\ i \in 1..Len(chunks[t]) /\ Len(chunks[t]) \in Nat
         /\ chunks[t][i] \in Chunk
         /\ chunks[t][i].at \in C!Addresses /\ chunks[t][i].size \in 1..LastCell
         /\ chunks[t][i].at \in C!CellsOf(chunks[t][i])
         /\ C!CellsOf(chunks[t][i]) \subseteq C!Addresses \ objects
         /\ C!CellsOf(chunks[t][i]) \subseteq C!Used
<1> USE ChunksAssumption
<1>1. chunks[t] \in Seq(Chunk) /\ i \in 1..Len(chunks[t]) /\ Len(chunks[t]) \in Nat
  BY DEF Placed
<1>2. chunks[t][i] \in Chunk
  BY <1>1
<1>3. C!CellsOf(chunks[t][i]) \subseteq C!Used
  BY DEF C!Used
<1>4. chunks[t][i].at \in C!Addresses /\ chunks[t][i].size \in 1..LastCell
  BY <1>2 DEF Chunk
<1>5. chunks[t][i].at \in C!CellsOf(chunks[t][i])
  BY <1>4 DEF C!CellsOf, C!Addresses
<1> QED
  BY <1>1, <1>2, <1>3, <1>4, <1>5 DEF Placed

LEMMA Tops ==
  ASSUME Placed, NEW t \in Threads
  PROVE  /\ C!Top(t) \in C!Pointer
         /\ chunks[t] = <<>> => C!Top(t) = nullptr
         /\ chunks[t] # <<>> => 1 \in DOMAIN chunks[t] /\ C!Top(t) = chunks[t][1].at
                                /\ Head(chunks[t]) = chunks[t][1]
<1>1. chunks[t] \in Seq(Chunk)
  BY DEF Placed
<1>2. chunks[t] # <<>> => 1 \in DOMAIN chunks[t] /\ Head(chunks[t]) = chunks[t][1]
  BY <1>1
<1> QED
  BY <1>2, Cells DEF C!Top, C!Pointer

(* Nothing but the cells of S changes, and no chunk has its header there.  *)
LEMMA HeadsStay ==
  ASSUME Headed, Placed, UNCHANGED chunks,
         \A t \in Threads : \A i \in DOMAIN chunks[t] :
           memory'[chunks[t][i].at] = memory[chunks[t][i].at]
  PROVE  Headed'
BY DEF Headed, Previous

LEMMA Pushed ==
  ASSUME ChunksInv, NEW t \in Threads, NEW c \in Chunk, C!PushChunk(t, c)
  PROVE  /\ Placed' /\ Apart' /\ Headed'
         /\ \A a : IsChunk(a) => IsChunk(a)' /\ memory'[a] = memory[a]
<1> USE ChunksAssumption
<1>1. /\ C!TypeOK /\ SinceInv /\ Placed /\ Apart /\ Headed
      /\ C!CellsOf(c) \subseteq C!Addresses /\ C!CellsOf(c) \cap C!Used = {}
      /\ C!Write(C!CellsOf(c), c.size, C!Top(t))
      /\ chunks' = [chunks EXCEPT ![t] = <<c>> \o @] /\ objects' = objects
  BY DEF C!PushChunk, ChunksInv
<1>2. c.at \in C!Addresses /\ c.size \in 1..LastCell /\ c.at \in C!CellsOf(c)
  BY DEF Chunk, C!CellsOf, C!Addresses
<1>3. /\ memory'[c.at].size = c.size /\ memory'[c.at].previous = C!Top(t)
      /\ memory'[c.at] # nullptr
      /\ \A a \in C!Addresses \ C!CellsOf(c) : memory'[a] = memory[a]
  <2>2. C!Top(t) \in C!Pointer
    BY <1>1, Tops
  <2> QED
    BY <1>1, <1>2, <2>2, Writing
<1>4. chunks[t] \in Seq(Chunk) /\ Len(chunks[t]) \in Nat
  BY <1>1 DEF Placed
<1>5. /\ chunks'[t] \in Seq(Chunk)
      /\ chunks'[t][1] = c
      /\ Len(chunks'[t]) = Len(chunks[t]) + 1
      /\ DOMAIN chunks'[t] = 1..(Len(chunks[t]) + 1)
      /\ \A i \in DOMAIN chunks[t] : chunks'[t][i + 1] = chunks[t][i]
  <2>1. chunks'[t] = <<c>> \o chunks[t]
    BY <1>1 DEF Placed
  <2> QED
    BY <1>4, <2>1
<1>6. \A u \in Threads \ {t} : chunks'[u] = chunks[u]
  BY <1>1 DEF Placed
<1>7. chunks' \in [Threads -> Seq(Chunk)]
  BY <1>1, <1>4, <1>5 DEF Placed
(* Every chunk is the new one, or was there. *)
<1>8. ASSUME NEW u \in Threads, NEW i \in DOMAIN chunks'[u]
      PROVE  \/ u = t /\ i = 1 /\ chunks'[u][i] = c
             \/ u = t /\ i - 1 \in DOMAIN chunks[t] /\ chunks'[u][i] = chunks[t][i - 1]
             \/ u # t /\ i \in DOMAIN chunks[u] /\ chunks'[u][i] = chunks[u][i]
  <2>1. CASE u = t
    <3>1. i \in 1..(Len(chunks[t]) + 1) /\ DOMAIN chunks[t] = 1..Len(chunks[t])
      BY <1>4, <1>5, <2>1
    <3>2. i # 1 => i - 1 \in DOMAIN chunks[t] /\ (i - 1) + 1 = i
      BY <1>4, <3>1
    <3> QED
      BY <1>5, <2>1, <3>1, <3>2
  <2>2. CASE u # t
    BY <1>6, <2>2
  <2> QED
    BY <2>1, <2>2
<1>9. Placed'
  <2>1. ASSUME NEW u \in Threads, NEW i \in DOMAIN chunks'[u]
        PROVE  C!CellsOf(chunks'[u][i]) \subseteq C!Addresses \ objects
    BY <1>1, <1>8, Cells DEF C!Used
  <2> QED
    BY <1>1, <1>7, <2>1 DEF Placed, C!CellsOf
<1>10. Apart'
  <2> SUFFICES ASSUME NEW u \in Threads, NEW v \in Threads,
                      NEW i \in DOMAIN chunks'[u], NEW j \in DOMAIN chunks'[v],
                      NEW a, a \in C!CellsOf(chunks'[u][i]), a \in C!CellsOf(chunks'[v][j])
               PROVE  u = v /\ i = j
    BY DEF Apart, C!CellsOf
  <2>1. ASSUME NEW w \in Threads, NEW k \in DOMAIN chunks'[w], a \in C!CellsOf(chunks'[w][k])
        PROVE  \/ a \in C!CellsOf(c) /\ w = t /\ k = 1
               \/ a \notin C!CellsOf(c) /\ w = t /\ k - 1 \in DOMAIN chunks[t]
                  /\ a \in C!CellsOf(chunks[t][k - 1])
               \/ a \notin C!CellsOf(c) /\ w # t /\ k \in DOMAIN chunks[w]
                  /\ a \in C!CellsOf(chunks[w][k])
    <3>1. CASE w = t /\ k = 1 /\ chunks'[w][k] = c
      BY <2>1, <3>1
    <3>2. CASE w = t /\ k - 1 \in DOMAIN chunks[t] /\ chunks'[w][k] = chunks[t][k - 1]
      <4>1. C!CellsOf(chunks[t][k - 1]) \subseteq C!Used
        BY <1>1, <3>2, Cells
      <4> QED
        BY <1>1, <2>1, <3>2, <4>1
    <3>3. CASE w # t /\ k \in DOMAIN chunks[w] /\ chunks'[w][k] = chunks[w][k]
      <4>1. C!CellsOf(chunks[w][k]) \subseteq C!Used
        BY <1>1, <3>3, Cells
      <4> QED
        BY <1>1, <2>1, <3>3, <4>1
    <3> QED
      BY <1>8, <2>1, <3>1, <3>2, <3>3
  <2>2. i \in Int /\ j \in Int
    BY <1>7
  <2>3. CASE a \in C!CellsOf(c)
    BY <2>1, <2>3
  <2>4. CASE a \notin C!CellsOf(c)
    <3> DEFINE At(w, k) == IF w = t THEN k - 1 ELSE k
    <3>1. /\ At(u, i) \in DOMAIN chunks[u] /\ a \in C!CellsOf(chunks[u][At(u, i)])
          /\ At(v, j) \in DOMAIN chunks[v] /\ a \in C!CellsOf(chunks[v][At(v, j)])
      BY <2>1, <2>4
    <3>2. u = v /\ At(u, i) = At(v, j)
      <4> HIDE DEF At
      <4> QED
        BY <1>1, <3>1 DEF Apart
    <3> QED
      BY <2>2, <3>2
  <2> QED
    BY <2>3, <2>4
<1>11. ASSUME NEW u \in Threads, NEW i \in DOMAIN chunks[u]
       PROVE  /\ chunks[u][i].at # c.at
              /\ memory'[chunks[u][i].at] = memory[chunks[u][i].at]
  <2>1. /\ chunks[u][i].at \in C!Addresses \ C!CellsOf(c)
    BY <1>1, Cells
  <2> QED
    BY <1>2, <1>3, <2>1
<1>12. Headed'
  <2> SUFFICES ASSUME NEW u \in Threads, NEW i \in DOMAIN chunks'[u]
               PROVE  LET k == chunks'[u][i]
                      IN /\ memory'[k.at] # nullptr
                         /\ memory'[k.at].size = k.size
                         /\ memory'[k.at].previous = Previous(u, i)'
    BY DEF Headed
  <2>1. CASE u = t /\ i = 1
    <3>1. Previous(u, i)' = C!Top(t)
      <4>1. CASE chunks[t] = <<>>
        BY <1>1, <1>4, <1>5, <2>1, <4>1, Tops DEF Previous
      <4>2. CASE chunks[t] # <<>>
        BY <1>1, <1>4, <1>5, <2>1, <4>2, Tops DEF Previous
      <4> QED
        BY <4>1, <4>2
    <3> QED
      BY <1>3, <1>5, <2>1, <3>1
  <2>2. CASE u = t /\ i # 1
    <3>1. i \in Nat /\ i - 1 \in DOMAIN chunks[t] /\ chunks'[u][i] = chunks[t][i - 1]
      BY <1>5, <1>8, <2>2
    <3>2. Previous(u, i)' = Previous(t, i - 1)
      <4>1. i = Len(chunks'[t]) <=> i - 1 = Len(chunks[t])
        BY <1>4, <1>5, <3>1
      <4>2. i - 1 # Len(chunks[t]) => chunks'[t][i + 1] = chunks[t][(i - 1) + 1]
        <5>1. i - 1 # Len(chunks[t]) => i \in DOMAIN chunks[t] /\ (i - 1) + 1 = i
          BY <1>4, <3>1
        <5> QED
          BY <1>5, <5>1
      <4> QED
        BY <2>2, <4>1, <4>2 DEF Previous
    <3>3. memory'[chunks[t][i - 1].at] = memory[chunks[t][i - 1].at]
      BY <1>11, <3>1
    <3>4. /\ memory[chunks[t][i - 1].at] # nullptr
          /\ memory[chunks[t][i - 1].at].size = chunks[t][i - 1].size
          /\ memory[chunks[t][i - 1].at].previous = Previous(t, i - 1)
      BY <1>1, <3>1 DEF Headed
    <3> QED
      BY <2>2, <3>1, <3>2, <3>3, <3>4
  <2>3. CASE u # t
    <3>1. i \in DOMAIN chunks[u] /\ chunks'[u] = chunks[u]
      BY <1>6, <2>3
    <3>2. Previous(u, i)' = Previous(u, i)
      BY <3>1 DEF Previous
    <3>3. memory'[chunks[u][i].at] = memory[chunks[u][i].at]
      BY <1>11, <3>1
    <3>4. /\ memory[chunks[u][i].at] # nullptr
          /\ memory[chunks[u][i].at].size = chunks[u][i].size
          /\ memory[chunks[u][i].at].previous = Previous(u, i)
      BY <1>1, <3>1 DEF Headed
    <3> QED
      BY <3>1, <3>2, <3>3, <3>4
  <2> QED
    BY <2>1, <2>2, <2>3
<1>13. ASSUME NEW a, IsChunk(a) PROVE IsChunk(a)' /\ memory'[a] = memory[a]
  <2>1. PICK u \in Threads : \E i \in DOMAIN chunks[u] : a = chunks[u][i].at
    BY <1>13 DEF IsChunk
  <2>2. PICK i \in DOMAIN chunks[u] : a = chunks[u][i].at
    BY <2>1
  <2>3. \E k \in DOMAIN chunks'[u] : chunks'[u][k] = chunks[u][i]
    <3>1. CASE u = t
      <4>1. i + 1 \in DOMAIN chunks'[u] /\ chunks'[u][i + 1] = chunks[u][i]
        BY <1>4, <1>5, <2>2, <3>1
      <4> QED
        BY <4>1
    <3>2. CASE u # t
      BY <1>6, <2>2, <3>2
    <3> QED
      BY <3>1, <3>2
  <2> QED
    BY <1>11, <2>2, <2>3 DEF IsChunk
<1> QED
  BY <1>9, <1>10, <1>12, <1>13

(* Writing or freeing cells without the header of a chunk.                 *)
LEMMA Elsewhere ==
  ASSUME ChunksInv, UNCHANGED chunks, NEW S,
         \A a \in C!Addresses \ S : memory'[a] = memory[a],
         \A t \in Threads : \A i \in DOMAIN chunks[t] : chunks[t][i].at \notin S,
         objects' \cap C!Used \subseteq objects
  PROVE  /\ Placed' /\ Apart' /\ Headed'
         /\ \A a : IsChunk(a) => IsChunk(a)' /\ memory'[a] = memory[a]
<1>1. Placed /\ Apart /\ Headed
  BY DEF ChunksInv
<1>2. \A t \in Threads : \A i \in DOMAIN chunks[t] :
        memory'[chunks[t][i].at] = memory[chunks[t][i].at]
  BY <1>1, Cells
<1>3. Placed'
  <2>1. ASSUME NEW t \in Threads, NEW i \in DOMAIN chunks[t]
        PROVE  C!CellsOf(chunks[t][i]) \subseteq C!Addresses \ objects'
    BY <1>1, Cells
  <2> QED
    BY <1>1, <2>1 DEF Placed, C!CellsOf
<1>4. Apart'
  BY <1>1 DEF Apart, C!CellsOf
<1>5. Headed'
  BY <1>1, <1>2, HeadsStay
<1> QED
  BY <1>2, <1>3, <1>4, <1>5 DEF IsChunk

LEMMA Popped ==
  ASSUME ChunksInv, NEW t \in Threads, C!PopChunk(t)
  PROVE  Placed' /\ Apart' /\ Headed'
<1>1. /\ C!TypeOK /\ SinceInv /\ Placed /\ Apart /\ Headed
      /\ chunks[t] # <<>>
      /\ C!Freed(C!CellsOf(Head(chunks[t])))
      /\ chunks' = [chunks EXCEPT ![t] = Tail(@)] /\ objects' = objects
      /\ since' = since
  BY DEF C!PopChunk, ChunksInv
<1>2. chunks[t] \in Seq(Chunk) /\ Len(chunks[t]) \in Nat /\ chunks[t] # <<>>
  BY <1>1 DEF Placed
<1>3. /\ chunks'[t] \in Seq(Chunk)
      /\ Len(chunks'[t]) = Len(chunks[t]) - 1
      /\ DOMAIN chunks'[t] = 1..(Len(chunks[t]) - 1)
      /\ \A i \in DOMAIN chunks'[t] :
           i + 1 \in DOMAIN chunks[t] /\ chunks'[t][i] = chunks[t][i + 1]
  <2>1. chunks'[t] = Tail(chunks[t])
    BY <1>1 DEF Placed
  <2> QED
    BY <1>2, <2>1
<1>4. \A u \in Threads \ {t} : chunks'[u] = chunks[u]
  BY <1>1 DEF Placed
<1>5. chunks' \in [Threads -> Seq(Chunk)]
  BY <1>1, <1>2, <1>3 DEF Placed
<1> DEFINE Was(u, i) == IF u = t THEN i + 1 ELSE i
<1>6. ASSUME NEW u \in Threads, NEW i \in DOMAIN chunks'[u]
      PROVE  Was(u, i) \in DOMAIN chunks[u] /\ chunks'[u][i] = chunks[u][Was(u, i)]
             /\ i \in Nat /\ i >= 1
  BY <1>3, <1>4, <1>5
<1>7. ASSUME NEW u \in Threads, NEW i \in DOMAIN chunks'[u]
      PROVE  Previous(u, i)' = Previous(u, Was(u, i))
  <2>1. CASE u = t
    <3>1. i = Len(chunks'[t]) <=> i + 1 = Len(chunks[t])
      BY SMTT(30), <1>2, <1>3, <1>6, <2>1
    <3>2. i # Len(chunks'[t]) => chunks'[t][i + 1] = chunks[t][i + 1 + 1]
      <4>1. i # Len(chunks'[t]) => i + 1 \in DOMAIN chunks'[t]
        BY <1>2, <1>3, <1>6, <2>1
      <4> QED
        BY <1>3, <4>1
    <3> QED
      BY <2>1, <3>1, <3>2 DEF Previous
  <2>2. CASE u # t
    BY <1>4, <2>2 DEF Previous
  <2> QED
    BY <2>1, <2>2
<1>8. \A a \in C!Addresses \ C!CellsOf(chunks[t][1]) : memory'[a] = memory[a]
  BY <1>1, Tops, Freeing
<1>9. ASSUME NEW u \in Threads, NEW i \in DOMAIN chunks'[u]
      PROVE  memory'[chunks'[u][i].at] = memory[chunks'[u][i].at]
  <2> DEFINE j == Was(u, i)
             c == chunks[u][j]
  <2>1. j \in DOMAIN chunks[u] /\ chunks'[u][i] = c /\ (u # t \/ j # 1)
    BY <1>6
  <2> HIDE DEF j
  <2>2. c.at \in C!CellsOf(c) /\ c.at \in C!Addresses
    BY <1>1, <2>1, Cells
  <2>3. 1 \in DOMAIN chunks[t]
    BY <1>1, Tops
  <2>4. c.at \notin C!CellsOf(chunks[t][1])
    <3> DEFINE p == c.at
    <3>1. p \in C!CellsOf(chunks[u][j])
      BY <2>2
    <3> HIDE DEF p
    <3>2. p \in C!CellsOf(chunks[t][1]) => u = t /\ j = 1
      BY <1>1, <2>1, <2>3, <3>1 DEF Apart
    <3> QED
      BY <2>1, <3>2 DEF p
  <2> QED
    BY <1>8, <2>1, <2>2, <2>4
<1> HIDE DEF Was
<1>10. Placed'
  <2>1. ASSUME NEW u \in Threads, NEW i \in DOMAIN chunks'[u]
        PROVE  C!CellsOf(chunks'[u][i]) \subseteq C!Addresses \ objects
    BY <1>1, <1>6, Cells
  <2> QED
    BY <1>1, <1>5, <2>1 DEF Placed, C!CellsOf
<1>11. Apart'
  <2> SUFFICES ASSUME NEW u \in Threads, NEW v \in Threads,
                      NEW i \in DOMAIN chunks'[u], NEW j \in DOMAIN chunks'[v],
                      NEW a, a \in C!CellsOf(chunks'[u][i]), a \in C!CellsOf(chunks'[v][j])
               PROVE  u = v /\ i = j
    BY DEF Apart, C!CellsOf
  <2>1. /\ Was(u, i) \in DOMAIN chunks[u] /\ a \in C!CellsOf(chunks[u][Was(u, i)])
        /\ Was(v, j) \in DOMAIN chunks[v] /\ a \in C!CellsOf(chunks[v][Was(v, j)])
    BY <1>6
  <2>2. u = v /\ Was(u, i) = Was(v, j)
    BY ZenonT(60), <1>1, <2>1 DEF Apart
  <2> QED
    BY <1>6, <2>2 DEF Was
<1>12. Headed'
  <2> SUFFICES ASSUME NEW u \in Threads, NEW i \in DOMAIN chunks'[u]
               PROVE  LET k == chunks'[u][i]
                      IN /\ memory'[k.at] # nullptr
                         /\ memory'[k.at].size = k.size
                         /\ memory'[k.at].previous = Previous(u, i)'
    BY DEF Headed
  <2>1. Was(u, i) \in DOMAIN chunks[u] /\ chunks'[u][i] = chunks[u][Was(u, i)]
    BY <1>6
  <2>2. LET k == chunks[u][Was(u, i)]
        IN /\ memory[k.at] # nullptr
           /\ memory[k.at].size = k.size
           /\ memory[k.at].previous = Previous(u, Was(u, i))
    BY <1>1, <2>1 DEF Headed
  <2> QED
    BY <1>7, <1>9, <2>1, <2>2
<1> QED
  BY <1>10, <1>11, <1>12

(* What the program does to memory while frames are copied and read.       *)
Moves ==
  /\ memory' \in [C!Addresses -> C!Cell \cup {nullptr}]
  /\ since' \in [C!Addresses -> SUBSET C!Frame]
  /\ writes' \in 0..MaxWrites
  /\ objects' \subseteq C!Addresses
  /\ SinceInv' /\ Placed' /\ Apart' /\ Headed'
  /\ \A a \in C!Addresses : since[a] \subseteq since'[a]
  /\ UNCHANGED <<C!update, C!found>>
  /\ freed' \in BOOLEAN
  /\ ~freed' => /\ ~freed
                /\ \A a : IsChunk(a) => IsChunk(a)' /\ memory'[a] = memory[a]

LEMMA ChunkMoves ==
  ASSUME ChunksInv, NEW t \in Threads
  PROVE  /\ \A a, n \in C!Addresses : C!PushChunk(t, [at |-> a, size |-> n]) => Moves
         /\ C!Call(t) => Moves
         /\ C!PopChunk(t) => Moves
<1> USE ChunksAssumption
<1>1. C!TypeOK /\ SinceInv /\ Placed /\ Apart /\ Headed
  BY DEF ChunksInv
<1>2. ASSUME NEW a \in C!Addresses, NEW n \in C!Addresses,
             C!PushChunk(t, [at |-> a, size |-> n])
      PROVE  Moves
  <2> DEFINE c == [at |-> a, size |-> n]
  <2>1. c \in Chunk
    BY DEF Chunk, C!Addresses
  <2>2. C!PushChunk(t, c)
    BY <1>2
  <2> HIDE DEF c
  <2>3. C!Top(t) \in C!Pointer
    BY <1>1, Tops
  <2>4. C!CellsOf(c) \subseteq C!Addresses /\ C!Write(C!CellsOf(c), c.size, C!Top(t))
    BY <2>2 DEF C!PushChunk
  <2>5. /\ memory' \in [C!Addresses -> C!Cell \cup {nullptr}]
        /\ since' \in [C!Addresses -> SUBSET C!Frame]
        /\ writes' \in 0..MaxWrites
        /\ \A b \in C!Addresses : since[b] \subseteq since'[b]
        /\ SinceInv'
    BY <1>1, <2>1, <2>3, <2>4, Writing
  <2>6. /\ Placed' /\ Apart' /\ Headed'
        /\ \A b : IsChunk(b) => IsChunk(b)' /\ memory'[b] = memory[b]
    BY <2>1, <2>2, Pushed
  <2> QED
    BY <1>1, <2>2, <2>5, <2>6 DEF C!PushChunk, Moves, C!TypeOK
<1>3. ASSUME C!Call(t) PROVE Moves
  <2>1. PICK a \in C!CellsOf(Head(chunks[t])) \ {C!Top(t)} : C!Write({a}, 1, nullptr)
    BY <1>3 DEF C!Call
  <2>2. 1 \in DOMAIN chunks[t] /\ C!Top(t) = chunks[t][1].at /\ Head(chunks[t]) = chunks[t][1]
    BY <1>1, <1>3, Tops DEF C!Call
  <2>3. a \in C!CellsOf(chunks[t][1]) /\ a # chunks[t][1].at /\ a \in C!Addresses
    BY <1>1, <2>1, <2>2, Cells
  <2> DEFINE c == [at |-> a, size |-> 1]
  <2>4. c \in Chunk /\ C!CellsOf(c) = {a} /\ c.size = 1
    BY <2>3 DEF Chunk, C!CellsOf, C!Addresses
  <2> HIDE DEF c
  <2>5. nullptr \in C!Pointer /\ C!Write(C!CellsOf(c), c.size, nullptr)
    BY <2>1, <2>4 DEF C!Pointer
  <2>6. /\ memory' \in [C!Addresses -> C!Cell \cup {nullptr}]
        /\ since' \in [C!Addresses -> SUBSET C!Frame]
        /\ writes' \in 0..MaxWrites
        /\ \A b \in C!Addresses \ {a} : memory'[b] = memory[b]
        /\ \A b \in C!Addresses : since[b] \subseteq since'[b]
        /\ SinceInv'
    BY <1>1, <2>3, <2>4, <2>5, Writing
  <2>7. ASSUME NEW u \in Threads, NEW i \in DOMAIN chunks[u] PROVE chunks[u][i].at # a
    <3> DEFINE head == chunks[u][i].at
    <3>1. head \in C!CellsOf(chunks[u][i])
      BY <1>1, Cells
    <3>2. head = a => head = chunks[t][1].at
      <4> HIDE DEF head
      <4>1. head = a => u = t /\ i = 1
        BY <1>1, <2>2, <2>3, <3>1 DEF Apart
      <4> QED
        BY <4>1 DEF head
    <3> QED
      BY <2>3, <3>2
  <2>8. UNCHANGED chunks /\ objects' = objects
    BY <1>3 DEF C!Call
  <2>9. /\ Placed' /\ Apart' /\ Headed'
        /\ \A b : IsChunk(b) => IsChunk(b)' /\ memory'[b] = memory[b]
    <3>1. \A b \in C!Addresses \ {a} : memory'[b] = memory[b]
      BY <2>6
    <3>2. objects' \cap C!Used \subseteq objects
      BY <2>8
    <3>3. \A u \in Threads : \A i \in DOMAIN chunks[u] : chunks[u][i].at \notin {a}
      BY <2>7
    <3> QED
      BY <2>8, <3>1, <3>2, <3>3, Elsewhere
  <2> QED
    BY <1>1, <1>3, <2>6, <2>9 DEF C!Call, Moves, C!TypeOK
<1>4. ASSUME C!PopChunk(t) PROVE Moves
  <2>1. C!Freed(C!CellsOf(Head(chunks[t]))) /\ since' = since /\ freed' = TRUE
    BY <1>4 DEF C!PopChunk
  <2>2. memory' \in [C!Addresses -> C!Cell \cup {nullptr}] /\ SinceInv'
    BY <1>1, <2>1, Freeing
  <2>3. Placed' /\ Apart' /\ Headed'
    BY <1>4, Popped
  <2> QED
    BY <1>1, <1>4, <2>1, <2>2, <2>3 DEF C!PopChunk, Moves, C!TypeOK
<1> QED
  BY <1>2, <1>3, <1>4

LEMMA GeneratorMoves ==
  ASSUME ChunksInv, NEW a \in C!Addresses
  PROVE  /\ C!NewGenerator(a) => Moves
         /\ C!EndGenerator(a) => Moves
<1> USE ChunksAssumption
<1>1. C!TypeOK /\ SinceInv /\ Placed /\ Apart /\ Headed
  BY DEF ChunksInv
<1>2. ASSUME C!NewGenerator(a) PROVE Moves
  <2> DEFINE c == [at |-> a, size |-> 1]
  <2>1. c \in Chunk /\ C!CellsOf(c) = {a} /\ c.size = 1
    BY DEF Chunk, C!CellsOf, C!Addresses
  <2> HIDE DEF c
  <2>2. nullptr \in C!Pointer /\ C!Write(C!CellsOf(c), c.size, nullptr)
    BY <1>2, <2>1 DEF C!Pointer, C!NewGenerator
  <2>3. /\ memory' \in [C!Addresses -> C!Cell \cup {nullptr}]
        /\ since' \in [C!Addresses -> SUBSET C!Frame]
        /\ writes' \in 0..MaxWrites
        /\ \A b \in C!Addresses \ {a} : memory'[b] = memory[b]
        /\ \A b \in C!Addresses : since[b] \subseteq since'[b]
        /\ SinceInv'
    BY <1>1, <2>1, <2>2, Writing
  <2>4. UNCHANGED chunks /\ objects' = objects \cup {a} /\ a \notin C!Used
    BY <1>2 DEF C!NewGenerator
  <2>5. ASSUME NEW u \in Threads, NEW i \in DOMAIN chunks[u] PROVE chunks[u][i].at # a
    BY <1>1, <2>4, Cells
  <2>6. /\ Placed' /\ Apart' /\ Headed'
        /\ \A b : IsChunk(b) => IsChunk(b)' /\ memory'[b] = memory[b]
    <3>1. \A b \in C!Addresses \ {a} : memory'[b] = memory[b]
      BY <2>3
    <3>2. objects' \cap C!Used \subseteq objects
      BY <2>4
    <3>3. \A u \in Threads : \A i \in DOMAIN chunks[u] : chunks[u][i].at \notin {a}
      BY <2>5
    <3> QED
      BY <2>4, <3>1, <3>2, <3>3, Elsewhere
  <2> QED
    BY <1>1, <1>2, <2>3, <2>6 DEF C!NewGenerator, Moves, C!TypeOK
<1>3. ASSUME C!EndGenerator(a) PROVE Moves
  <2>1. /\ C!Freed({a}) /\ since' = since /\ UNCHANGED chunks
        /\ a \in objects /\ objects' = objects \ {a}
    BY <1>3 DEF C!EndGenerator
  <2>2. /\ memory' \in [C!Addresses -> C!Cell \cup {nullptr}] /\ SinceInv'
        /\ \A b \in C!Addresses \ {a} : memory'[b] = memory[b]
    BY <1>1, <2>1, Freeing
  <2>3. ASSUME NEW u \in Threads, NEW i \in DOMAIN chunks[u] PROVE chunks[u][i].at # a
    BY <1>1, <2>1, Cells
  <2>4. /\ Placed' /\ Apart' /\ Headed'
        /\ \A b : IsChunk(b) => IsChunk(b)' /\ memory'[b] = memory[b]
    BY <2>1, <2>2, <2>3, Elsewhere
  <2> QED
    BY <1>1, <1>3, <2>2, <2>4 DEF C!EndGenerator, Moves, C!TypeOK
<1> QED
  BY <1>2, <1>3

LEMMA Moved ==
  ASSUME ChunksInv, Moves
  PROVE  ChunksInv'
<1> USE ChunksAssumption
<1>1. /\ C!TypeOK /\ SinceInv /\ Placed /\ UpdateInv /\ CopiesInv /\ FoundInv
      /\ UNCHANGED <<stack_chunk, chunk_pc, chunk_addr, chunk, level, frame_addr, frame>>
      /\ \A a \in C!Addresses : since[a] \subseteq since'[a]
      /\ ~freed' => ~freed
  BY DEF ChunksInv, Moves, C!update, C!found
<1>2. C!TypeOK'
  BY <1>1 DEF C!TypeOK, Moves, Placed, Chunk
<1>3. UpdateInv'
  <2>1. ~freed' => \A a : IsChunk(a) => IsChunk(a)' /\ memory'[a] = memory[a]
    BY DEF Moves
  <2> QED
    BY <1>1, <2>1 DEF UpdateInv, C!Addresses
<1>4. CopiesInv'
  BY <1>1 DEF CopiesInv, Fresh
<1>5. FoundInv'
  <2>1. frame_addr \in C!Pointer
    BY <1>1 DEF C!TypeOK
  <2>2. C!Kept' = C!Kept
    BY <1>1 DEF C!Kept
  <2> QED
    BY <1>1, <2>1, <2>2 DEF FoundInv, C!FramesFresh, C!Pointer
<1> QED
  BY <1>2, <1>3, <1>4, <1>5 DEF ChunksInv, Moves

(* The steps of the sampler leave the program as it is.                    *)
LEMMA Still ==
  ASSUME ChunksInv, UNCHANGED C!program
  PROVE  Placed' /\ Apart' /\ Headed' /\ \A a : IsChunk(a) => IsChunk(a)'
<1>1. UNCHANGED <<memory, objects, chunks, writes>>
  BY DEF C!program
<1> QED
  BY <1>1 DEF ChunksInv, Placed, Apart, C!CellsOf, Headed, Previous, IsChunk

LEMMA UnwindStarts ==
  ASSUME ChunksInv, NEW t \in Threads, C!UnwindPythonStack(t)
  PROVE  ChunksInv'
<1> USE ChunksAssumption
<1>1. /\ C!TypeOK /\ Placed /\ UpdateInv /\ FoundInv
      /\ UNCHANGED <<memory, objects, chunks, writes, stack_chunk, chunk, frame_addr, frame>>
      /\ chunk_pc = "idle" /\ chunk_pc' = "header"
      /\ chunk_addr' = C!Top(t) /\ level' = 0 /\ freed' = FALSE
      /\ since' = [a \in C!Addresses |->
                     IF memory[a] = nullptr THEN {} ELSE {memory[a].frame}]
  BY DEF ChunksInv, C!UnwindPythonStack, C!program, C!found
<1>2. Placed' /\ Apart' /\ Headed'
  BY <1>1, Still DEF C!program
<1>3. C!Top(t) \in C!Pointer /\ (C!Top(t) = nullptr \/ IsChunk(C!Top(t)))
  BY <1>1, Tops DEF IsChunk
<1>4. since' \in [C!Addresses -> SUBSET C!Frame]
  <2>1. \A a \in C!Addresses : memory[a] # nullptr => memory[a].frame \in C!Frame
    BY <1>1 DEF C!TypeOK, C!Cell
  <2> QED
    BY <1>1, <2>1
<1>5. C!TypeOK'
  BY <1>1, <1>3, <1>4 DEF C!TypeOK
<1>6. UpdateInv'
  <2>1. IsChunk(C!Top(t)) =>
          \E u \in Threads : \E i \in DOMAIN chunks'[u] : chunk_addr' = chunks'[u][i].at
    BY <1>1 DEF IsChunk
  <2>2. level' <= Len(stack_chunk')
    BY <1>1 DEF C!TypeOK
  <2> QED
    BY <1>1, <1>3, <2>1, <2>2 DEF UpdateInv, IsChunk
<1>7. SinceInv' /\ CopiesInv' /\ FoundInv'
  BY <1>1 DEF SinceInv, CopiesInv, FoundInv, C!FramesFresh
<1> QED
  BY <1>2, <1>5, <1>6, <1>7 DEF ChunksInv

(* What an update that fails leaves.                                       *)
LEMMA Fails ==
  ASSUME ChunksInv, chunk_pc \in {"header", "data"}, C!UpdateFails,
         UNCHANGED <<C!program, C!found, since, freed>>
  PROVE  ChunksInv'
<1> USE ChunksAssumption
<1>1. /\ C!TypeOK /\ SinceInv /\ UpdateInv /\ CopiesInv /\ FoundInv
      /\ UNCHANGED <<memory, objects, chunks, writes, chunk_addr, chunk, level,
                     frame_addr, frame, since, freed>>
      /\ stack_chunk' = SubSeq(stack_chunk, 1, level) /\ chunk_pc' = "frames"
  BY DEF ChunksInv, C!UpdateFails, C!Updated, C!program, C!found
<1>2. stack_chunk \in Seq(C!Copy) /\ level \in Nat /\ level <= Len(stack_chunk)
  BY <1>1 DEF C!TypeOK, UpdateInv
<1>3. /\ stack_chunk' \in Seq(C!Copy) /\ Len(stack_chunk') = level
      /\ \A d \in 1..level : stack_chunk'[d] = stack_chunk[d]
  BY <1>1, <1>2
<1>4. C!TypeOK'
  BY <1>1, <1>3 DEF C!TypeOK
<1>5. UpdateInv'
  BY <1>1, <1>2, <1>3 DEF UpdateInv
<1>6. CopiesInv'
  BY <1>1, <1>3 DEF CopiesInv, Fresh
<1>7. SinceInv' /\ FoundInv'
  BY <1>1 DEF SinceInv, FoundInv, C!FramesFresh
<1> QED
  BY <1>4, <1>5, <1>6, <1>7, Still DEF ChunksInv

LEMMA HeaderCopied ==
  ASSUME ChunksInv, C!CopyHeader
  PROVE  ChunksInv'
<1> USE ChunksAssumption
<1>1. /\ C!TypeOK /\ SinceInv /\ UpdateInv /\ CopiesInv /\ FoundInv /\ Headed
      /\ chunk_pc = "header" /\ UNCHANGED <<C!program, C!found, since, freed>>
      /\ UNCHANGED <<memory, objects, chunks, writes, frame_addr, frame>>
  BY DEF ChunksInv, C!CopyHeader, C!program, C!found
<1>2. CASE C!UpdateFails
  BY <1>1, <1>2, Fails
<1>3. ASSUME chunk_addr # nullptr, C!Readable({chunk_addr}),
             NEW size \in IF memory[chunk_addr].size > 0 THEN {memory[chunk_addr].size}
                          ELSE 0..(MAX_CHUNK_SIZE + 1),
             ~C!TooLarge(size), chunk' = [memory[chunk_addr] EXCEPT !.size = size],
             chunk_pc' = "data", UNCHANGED <<stack_chunk, chunk_addr, level>>
      PROVE  ChunksInv'
  <2>1. chunk_addr \in C!Addresses /\ memory[chunk_addr] \in C!Cell
    BY <1>1, <1>3 DEF C!TypeOK, C!Readable
  <2>2. size \in 0..MAX_CHUNK_SIZE
    <3>1. memory[chunk_addr].size \in 0..LastCell
      BY <2>1 DEF C!Cell
    <3> QED
      BY <1>3, <3>1 DEF C!TooLarge
  <2>3. chunk' \in [frame : C!Frame, size : 0..MAX_CHUNK_SIZE, previous : C!Pointer]
    BY <1>3, <2>1, <2>2 DEF C!Cell
  <2>4. C!TypeOK'
    BY <1>1, <1>3, <2>3 DEF C!TypeOK
  <2>5. ~freed => chunk' = memory[chunk_addr] /\ IsChunk(chunk_addr)
    <3> SUFFICES ASSUME ~freed PROVE chunk' = memory[chunk_addr] /\ IsChunk(chunk_addr)
      OBVIOUS
    <3>1. IsChunk(chunk_addr)
      BY <1>1, <1>3 DEF UpdateInv
    <3>2. PICK t \in Threads : \E i \in DOMAIN chunks[t] : chunk_addr = chunks[t][i].at
      BY <3>1 DEF IsChunk
    <3>3. PICK i \in DOMAIN chunks[t] : chunk_addr = chunks[t][i].at
      BY <3>2
    <3>4. memory[chunk_addr].size = chunks[t][i].size
      BY <1>1, <3>3 DEF Headed
    <3>5. chunks[t][i].size \in 1..LastCell
      BY Cells DEF ChunksInv
    <3>6. size = memory[chunk_addr].size
      BY <1>3, <3>4, <3>5
    <3>7. chunk' = memory[chunk_addr]
      BY <1>3, <2>1, <3>6 DEF C!Cell
    <3> QED
      BY <3>1, <3>7
  <2>6. UpdateInv'
    <3>1. IsChunk(chunk_addr) => IsChunk(chunk_addr)'
      BY <1>1, <1>3 DEF IsChunk
    <3> QED
      BY <1>1, <1>3, <2>1, <2>5, <3>1 DEF UpdateInv
  <2>7. CopiesInv' /\ SinceInv' /\ FoundInv'
    BY <1>1, <1>3 DEF CopiesInv, Fresh, SinceInv, FoundInv, C!FramesFresh,
       C!Kept
  <2> QED
    BY <1>1, <2>4, <2>6, <2>7, Still DEF ChunksInv
<1> QED
  BY <1>2, <1>3 DEF C!CopyHeader

(* A sequence with its element after the first n replaced, or put there.   *)
Replacing(s, n, x) == SubSeq(s, 1, n) \o <<x>> \o SubSeq(s, n + 2, Len(s))

LEMMA Joined ==
  ASSUME NEW u \in Seq(C!Copy), NEW q \in Seq(C!Copy)
  PROVE  /\ u \o q \in Seq(C!Copy) /\ Len(u \o q) = Len(u) + Len(q)
         /\ \A d \in 1..Len(u) : (u \o q)[d] = u[d]
<1>1. u \o q \in Seq(C!Copy) /\ Len(u \o q) = Len(u) + Len(q)
  OBVIOUS
<1>2. ASSUME NEW d \in 1..Len(u) PROVE (u \o q)[d] = u[d]
  OBVIOUS
<1> QED
  BY <1>1, <1>2

LEMMA Replaced ==
  ASSUME NEW s \in Seq(C!Copy), NEW n \in Nat, n <= Len(s), NEW x \in C!Copy
  PROVE  /\ Replacing(s, n, x) \in Seq(C!Copy) /\ n + 1 <= Len(Replacing(s, n, x))
         /\ Replacing(s, n, x)[n + 1] = x
         /\ \A d \in 1..n : Replacing(s, n, x)[d] = s[d]
<1> DEFINE r == Replacing(s, n, x)
<1>1. /\ SubSeq(s, 1, n) \in Seq(C!Copy) /\ Len(SubSeq(s, 1, n)) = n
      /\ \A d \in 1..n : SubSeq(s, 1, n)[d] = s[d]
  OBVIOUS
<1>2. SubSeq(s, n + 2, Len(s)) \in Seq(C!Copy)
  OBVIOUS
<1> DEFINE p == SubSeq(s, 1, n)
           q == SubSeq(s, n + 2, Len(s))
<1> HIDE DEF p, q, r
<1>3. p \in Seq(C!Copy) /\ Len(p) = n /\ q \in Seq(C!Copy) /\ \A d \in 1..n : p[d] = s[d]
  BY <1>1, <1>2 DEF p, q
<1>4. r = (p \o <<x>>) \o q
  BY DEF p, q, r, Replacing
<1>5. /\ p \o <<x>> \in Seq(C!Copy) /\ Len(p \o <<x>>) = n + 1
      /\ (p \o <<x>>)[n + 1] = x
      /\ \A d \in 1..n : (p \o <<x>>)[d] = s[d]
  BY ONLY <1>3, n \in Nat, x \in C!Copy
<1> DEFINE u == p \o <<x>>
<1>6. /\ u \in Seq(C!Copy) /\ Len(u) = n + 1 /\ u[n + 1] = x
      /\ \A d \in 1..n : u[d] = s[d]
      /\ r = u \o q
  BY <1>4, <1>5
<1> HIDE DEF u
<1>7. /\ r \in Seq(C!Copy) /\ Len(r) = Len(u) + Len(q)
      /\ \A d \in 1..Len(u) : r[d] = u[d]
  <2>1. u \in Seq(C!Copy) /\ q \in Seq(C!Copy)
    BY <1>3, <1>6
  <2>2. /\ u \o q \in Seq(C!Copy) /\ Len(u \o q) = Len(u) + Len(q)
        /\ \A d \in 1..Len(u) : (u \o q)[d] = u[d]
    BY ONLY <2>1, Joined
  <2> QED
    BY <1>6, <2>2
<1>8. Len(q) \in Nat
  BY <1>3
<1>9. n + 1 <= Len(r)
  <2>1. n \in Nat /\ Len(u) = n + 1 /\ Len(r) = Len(u) + Len(q)
    BY <1>6, <1>7
  <2> QED
    BY ONLY <1>8, <2>1
<1>10. n + 1 \in 1..Len(u) /\ \A d \in 1..n : d \in 1..Len(u)
  BY <1>6
<1> QED
  BY <1>6, <1>7, <1>9, <1>10 DEF r

(* What the second copy holds, of every cell the header announced.         *)
LEMMA Copied ==
  ASSUME ChunksInv, chunk_pc = "data", C!Readable(C!CopiedCells), NEW size \in C!SizesAgain,
         NEW copy, copy = [origin |-> chunk_addr, size |-> size, data |-> C!DataAgain]
  PROVE  /\ copy \in C!Copy
         /\ ~freed => Fresh(copy)
<1> USE ChunksAssumption
<1>1. /\ C!TypeOK /\ SinceInv /\ UpdateInv /\ Headed /\ Placed
      /\ chunk_addr \in C!Addresses /\ chunk.size \in Nat /\ chunk.frame \in C!Frame
      /\ chunk.previous \in C!Pointer
      /\ level \in Nat /\ stack_chunk \in Seq(C!Copy)
  <2>1. C!TypeOK /\ SinceInv /\ UpdateInv /\ Headed /\ Placed
    BY DEF ChunksInv
  <2>2. chunk \in [frame : C!Frame, size : 0..MAX_CHUNK_SIZE, previous : C!Pointer]
    BY <2>1 DEF C!TypeOK
  <2>3. chunk.size \in Nat /\ chunk.frame \in C!Frame /\ chunk.previous \in C!Pointer
    BY <2>2
  <2>4. chunk_addr \in C!Addresses
    BY <2>1 DEF UpdateInv
  <2> QED
    BY <2>1, <2>3, <2>4 DEF C!TypeOK
<1>2. C!Old.size \in Nat /\ C!Old.data \in Seq(C!Frame)
  <2>1. CASE level < Len(stack_chunk)
    <3>1. level + 1 \in 1..Len(stack_chunk)
      BY <1>1, <2>1
    <3>2. stack_chunk[level + 1] \in C!Copy
      BY <1>1, <3>1
    <3> QED
      BY <2>1, <3>2 DEF C!Old, C!Copy
  <2>2. CASE ~(level < Len(stack_chunk))
    BY <2>2 DEF C!Old
  <2> QED
    BY <2>1, <2>2
<1>3. ASSUME NEW i \in 1..chunk.size
      PROVE  /\ chunk_addr + i - 1 \in C!Addresses /\ memory[chunk_addr + i - 1] \in C!Cell
             /\ memory[chunk_addr + i - 1] # nullptr
             /\ memory[chunk_addr + i - 1].frame \in C!Frame
  <2>1. chunk_addr + i - 1 \in C!CopiedCells
    BY DEF C!CopiedCells
  <2>2. chunk_addr + i - 1 \in C!Addresses /\ memory[chunk_addr + i - 1] # nullptr
    BY <2>1 DEF C!Readable
  <2> DEFINE a == chunk_addr + i - 1
  <2> HIDE DEF a
  <2>3. a \in C!Addresses /\ memory[a] # nullptr =>
          memory[a] \in C!Cell /\ memory[a].frame \in C!Frame
    BY <1>1 DEF C!TypeOK, C!Cell
  <2> QED
    BY <2>2, <2>3 DEF a
<1>4. size \in Nat
  <2>1. memory[chunk_addr] = nullptr \/ memory[chunk_addr].size \in 0..LastCell
    BY <1>1 DEF C!TypeOK, C!Cell
  <2>2. chunk.size # 0 => memory[chunk_addr].size \in 0..LastCell
    <3> SUFFICES ASSUME chunk.size # 0 PROVE memory[chunk_addr].size \in 0..LastCell
      OBVIOUS
    <3>1. 1 \in 1..chunk.size /\ chunk_addr + 1 - 1 = chunk_addr
      BY <1>1 DEF C!Addresses
    <3>2. memory[chunk_addr] # nullptr
      BY <1>3, <3>1
    <3> QED
      BY <2>1, <3>2
  <2> QED
    BY <1>1, <1>2, <2>2 DEF C!SizesAgain
<1> DEFINE n == C!Longer(Len(C!Old.data), chunk.size)
<1>5. n \in Nat /\ chunk.size <= n /\ Len(C!Old.data) <= n
      /\ \A i \in 1..n : ~(i <= chunk.size) => i \in 1..Len(C!Old.data)
  BY <1>1, <1>2 DEF C!Longer
<1>6. C!DataAgain = [i \in 1..n |-> IF i <= chunk.size THEN memory[chunk_addr + i - 1].frame
                                  ELSE C!Old.data[i]]
  BY DEF C!DataAgain
<1> HIDE DEF n
<1>7. ASSUME NEW i \in 1..n
      PROVE  (IF i <= chunk.size THEN memory[chunk_addr + i - 1].frame
              ELSE C!Old.data[i]) \in C!Frame
  <2>1. CASE i <= chunk.size
    <3>1. i \in 1..chunk.size
      BY <1>1, <1>5, <2>1
    <3> QED
      BY <1>3, <2>1, <3>1
  <2>2. CASE ~(i <= chunk.size)
    BY <1>2, <1>5, <2>2
  <2> QED
    BY <2>1, <2>2
<1>8. C!DataAgain \in [1..n -> C!Frame]
  BY <1>6, <1>7
<1>9. C!DataAgain \in Seq(C!Frame) /\ Len(C!DataAgain) = n
  BY <1>5, <1>8
<1>10. copy \in C!Copy
  BY <1>1, <1>4, <1>9 DEF C!Copy
<1>11. ASSUME ~freed PROVE Fresh(copy)
  <2>1. chunk = memory[chunk_addr] /\ (chunk_addr = nullptr \/ IsChunk(chunk_addr))
    BY <1>1, <1>11 DEF UpdateInv, ChunksInv
  <2>2. size = chunk.size
    <3>1. IsChunk(chunk_addr)
      BY <1>1, <2>1 DEF C!Pointer
    <3>2. PICK t \in Threads : \E i \in DOMAIN chunks[t] : chunk_addr = chunks[t][i].at
      BY <3>1 DEF IsChunk
    <3>3. PICK i \in DOMAIN chunks[t] : chunk_addr = chunks[t][i].at
      BY <3>2
    <3>4. memory[chunk_addr].size = chunks[t][i].size /\ chunks[t][i].size \in 1..LastCell
      BY <1>1, <3>3, Cells DEF Headed
    <3> QED
      BY <2>1, <3>4 DEF C!SizesAgain
  <2>3. ASSUME NEW i \in 1..size
        PROVE  /\ chunk_addr + i - 1 \in C!Addresses
               /\ C!DataAgain[i] \in since[chunk_addr + i - 1]
    <3>1. i \in 1..n /\ i <= chunk.size /\ i \in 1..chunk.size
      BY <1>1, <1>5, <2>2
    <3>2. C!DataAgain[i] = memory[chunk_addr + i - 1].frame
      BY <1>6, <3>1
    <3>3. chunk_addr + i - 1 \in C!Addresses /\ memory[chunk_addr + i - 1] # nullptr
      BY <1>3, <3>1
    <3> QED
      BY <1>1, <3>2, <3>3 DEF SinceInv
  <2> QED
    BY <1>5, <1>9, <2>2, <2>3 DEF Fresh
<1> QED
  BY <1>10, <1>11

LEMMA DataCopied ==
  ASSUME ChunksInv, C!CopyData
  PROVE  ChunksInv'
<1> USE ChunksAssumption
<1>1. /\ C!TypeOK /\ SinceInv /\ UpdateInv /\ CopiesInv /\ FoundInv /\ Headed /\ Placed
      /\ chunk_pc = "data" /\ UNCHANGED <<C!program, C!found, since, freed>>
      /\ UNCHANGED <<memory, objects, chunks, writes, frame_addr, frame>>
  BY DEF ChunksInv, C!CopyData, C!program, C!found
<1>2. CASE C!UpdateFails
  BY <1>1, <1>2, Fails
<1>3. ASSUME C!Readable(C!CopiedCells), NEW size \in C!SizesAgain, NEW copy,
             copy = [origin |-> chunk_addr, size |-> size, data |-> C!DataAgain],
             stack_chunk' = SubSeq(stack_chunk, 1, level) \o <<copy>>
                              \o SubSeq(stack_chunk, level + 2, Len(stack_chunk)),
             level' = level + 1, chunk_addr' = chunk.previous,
             chunk_pc' = IF chunk.previous = nullptr THEN "frames" ELSE "header",
             UNCHANGED chunk
      PROVE  ChunksInv'
  <2>1. copy \in C!Copy /\ (~freed => Fresh(copy))
    BY <1>1, <1>3, Copied
  <2>2. stack_chunk \in Seq(C!Copy) /\ level \in Nat /\ level <= Len(stack_chunk)
    BY <1>1 DEF C!TypeOK, UpdateInv
  <2>3. /\ stack_chunk' \in Seq(C!Copy) /\ level + 1 <= Len(stack_chunk')
        /\ stack_chunk'[level + 1] = copy
        /\ \A d \in 1..level : stack_chunk'[d] = stack_chunk[d]
    <3>1. copy \in C!Copy
      BY <2>1
    <3>2. stack_chunk' = Replacing(stack_chunk, level, copy)
      BY <1>3 DEF Replacing
    <3>3. /\ Replacing(stack_chunk, level, copy) \in Seq(C!Copy)
          /\ level + 1 <= Len(Replacing(stack_chunk, level, copy))
          /\ Replacing(stack_chunk, level, copy)[level + 1] = copy
          /\ \A d \in 1..level : Replacing(stack_chunk, level, copy)[d] = stack_chunk[d]
      BY ONLY <2>2, <3>1, Replaced
    <3> QED
      BY ONLY <3>2, <3>3
  <2>4. chunk.previous \in C!Pointer
    BY <1>1 DEF C!TypeOK
  <2>5. C!TypeOK'
    <3>1. level' \in Nat /\ stack_chunk' \in Seq(C!Copy) /\ chunk_addr' \in C!Pointer
          /\ chunk_pc' \in {"idle", "header", "data", "frames"}
      BY <1>3, <2>2, <2>3, <2>4
    <3> QED
      BY <1>1, <1>3, <3>1 DEF C!TypeOK
  <2>6. ~freed => chunk.previous = nullptr \/ IsChunk(chunk.previous)
    <3> SUFFICES ASSUME ~freed PROVE chunk.previous = nullptr \/ IsChunk(chunk.previous)
      OBVIOUS
    <3>1. chunk = memory[chunk_addr] /\ IsChunk(chunk_addr)
      BY <1>1 DEF UpdateInv, C!Pointer
    <3>2. PICK t \in Threads : \E i \in DOMAIN chunks[t] : chunk_addr = chunks[t][i].at
      BY <3>1 DEF IsChunk
    <3>3. PICK i \in DOMAIN chunks[t] : chunk_addr = chunks[t][i].at
      BY <3>2
    <3>4. chunk.previous = Previous(t, i)
      BY <1>1, <3>1, <3>3 DEF Headed
    <3>5. i # Len(chunks[t]) => i + 1 \in DOMAIN chunks[t]
      BY <1>1, Cells
    <3> QED
      BY <3>4, <3>5 DEF Previous, IsChunk
  <2>7. UpdateInv'
    <3>1. IsChunk(chunk.previous) =>
            \E u \in Threads : \E i \in DOMAIN chunks'[u] : chunk_addr' = chunks'[u][i].at
      BY <1>1, <1>3 DEF IsChunk
    <3> QED
      BY <1>1, <1>3, <2>3, <2>6, <3>1 DEF UpdateInv, IsChunk
  <2>8. CopiesInv'
    <3> SUFFICES ASSUME ~freed, NEW d \in 1..(level + 1) PROVE Fresh(stack_chunk'[d])
      BY ZenonT(60), <1>1, <1>3 DEF CopiesInv, Fresh
    <3>1. CASE d = level + 1
      BY <2>1, <2>3, <3>1
    <3>2. CASE d # level + 1
      <4>1. d \in 1..level
        BY <2>2, <3>2
      <4>2. Fresh(stack_chunk[d])
        BY <1>1, <4>1 DEF CopiesInv
      <4> QED
        BY <2>3, <4>1, <4>2
    <3> QED
      BY SMTT(30), <3>1, <3>2
  <2>9. SinceInv' /\ FoundInv'
    BY <1>1, <1>3 DEF SinceInv, FoundInv, C!FramesFresh
  <2> QED
    BY <1>1, <2>5, <2>7, <2>8, <2>9, Still DEF ChunksInv
<1>4. C!Readable(C!CopiedCells) => ChunksInv'
  <2> SUFFICES ASSUME C!Readable(C!CopiedCells) PROVE ChunksInv'
    OBVIOUS
  <2>1. PICK size \in C!SizesAgain :
          stack_chunk' = SubSeq(stack_chunk, 1, level)
                           \o <<[origin |-> chunk_addr, size |-> size, data |-> C!DataAgain]>>
                           \o SubSeq(stack_chunk, level + 2, Len(stack_chunk))
    BY DEF C!CopyData
  <2> QED
    BY <1>3, <2>1 DEF C!CopyData
<1> QED
  BY <1>2, <1>4 DEF C!CopyData

LEMMA FrameIsRead ==
  ASSUME ChunksInv, NEW a \in C!Addresses, C!ReadFrame(a)
  PROVE  ChunksInv'
<1> USE ChunksAssumption
<1>1. /\ C!TypeOK /\ SinceInv /\ UpdateInv /\ CopiesInv
      /\ chunk_pc = "frames" /\ chunk_pc' = chunk_pc /\ frame_addr' = a
      /\ UNCHANGED <<memory, objects, chunks, writes, stack_chunk, chunk_addr, chunk,
                     level, since, freed>>
      /\ UNCHANGED C!program
  BY DEF ChunksInv, C!ReadFrame, C!program, C!update
<1>2. stack_chunk \in Seq(C!Copy) /\ level \in Nat /\ level <= Len(stack_chunk)
  BY <1>1 DEF C!TypeOK, UpdateInv
<1>3. frame' \in C!Frame \cup {C!Outside} /\ (frame' \in since[a] \/ freed \/ C!Kept)
  <2>1. ASSUME NEW d \in C!Resolving(a), NEW c, c = stack_chunk[d],
               NEW i, i = a - c.origin + 1,
               frame' = IF i \in DOMAIN c.data THEN c.data[i] ELSE C!Outside
        PROVE  frame' \in C!Frame \cup {C!Outside} /\ (frame' \in since[a] \/ freed \/ C!Kept)
    <3>1. d \in 1..Len(stack_chunk) /\ C!Holds(c, a)
      BY <1>2, <2>1 DEF C!Resolving
    <3>2. c \in C!Copy
      BY <1>2, <2>1, <3>1
    <3>3. c.origin \in C!Addresses /\ c.size \in Nat /\ c.data \in Seq(C!Frame)
      BY <3>2 DEF C!Copy
    <3>4. i \in 1..c.size /\ c.origin + i - 1 = a
      BY SMTT(30), <2>1, <3>1, <3>3 DEF C!Holds, C!Addresses
    <3>5. frame' \in C!Frame \cup {C!Outside}
      BY <2>1, <3>3
    <3>6. ASSUME ~freed, ~C!Kept PROVE frame' \in since[a]
      <4>1. d \in 1..level
        BY <1>2, <3>1, <3>6 DEF C!Kept
      <4>2. Fresh(c)
        BY <1>1, <2>1, <3>6, <4>1 DEF CopiesInv
      <4>3. c.size <= Len(c.data) /\ c.data[i] \in since[c.origin + i - 1]
        BY <3>4, <4>2 DEF Fresh
      <4>4. i \in DOMAIN c.data
        BY <3>3, <3>4, <4>3
      <4> QED
        BY <2>1, <3>4, <4>3, <4>4
    <3> QED
      BY <3>5, <3>6
  <2>2. ASSUME C!Readable({a}), frame' = memory[a].frame
        PROVE  frame' \in C!Frame \cup {C!Outside} /\ (frame' \in since[a] \/ freed \/ C!Kept)
    BY <1>1, <2>2 DEF C!Readable, C!TypeOK, C!Cell, SinceInv
  <2>3. CASE C!ReadCopy(a)
    BY <2>1, <2>3 DEF C!ReadCopy
  <2> QED
    BY <2>2, <2>3 DEF C!ReadFrame
<1>4. C!TypeOK'
  BY <1>1, <1>3 DEF C!TypeOK, C!Pointer
<1>5. UpdateInv' /\ CopiesInv' /\ SinceInv'
  BY <1>1 DEF UpdateInv, CopiesInv, Fresh, SinceInv
<1>6. FoundInv'
  BY <1>1, <1>3 DEF FoundInv, C!FramesFresh, C!Kept
<1> QED
  BY <1>1, <1>4, <1>5, <1>6, Still DEF ChunksInv

(* What is there between two stacks.                                       *)
LEMMA NoTypes ==
  /\ C!NoChunk \in [frame : C!Frame, size : 0..MAX_CHUNK_SIZE, previous : C!Pointer]
  /\ nullptr \in C!Pointer /\ 0 \in C!Frame
<1>1. 0 \in C!Frame /\ 0 \in 0..MAX_CHUNK_SIZE /\ nullptr \in C!Pointer
  BY ChunksAssumption DEF C!Frame, C!Pointer
<1> QED
  BY <1>1 DEF C!NoChunk

LEMMA StackDone ==
  ASSUME ChunksInv, C!StackEnds
  PROVE  ChunksInv'
<1> USE ChunksAssumption
<1>1. /\ C!TypeOK /\ SinceInv /\ UpdateInv
      /\ chunk_pc' = "idle" /\ frame_addr' = nullptr /\ frame' = 0
      /\ chunk' = C!NoChunk /\ chunk_addr' = nullptr
      /\ UNCHANGED <<memory, objects, chunks, writes, stack_chunk, level, since, freed>>
      /\ UNCHANGED C!program
  BY DEF ChunksInv, C!StackEnds, C!program
<1>2. C!TypeOK'
  BY <1>1, NoTypes DEF C!TypeOK
<1>3. UpdateInv' /\ CopiesInv' /\ SinceInv' /\ FoundInv'
  BY <1>1 DEF UpdateInv, CopiesInv, SinceInv, FoundInv, C!FramesFresh
<1> QED
  BY <1>1, <1>2, <1>3, Still DEF ChunksInv

LEMMA ChunksStart == C!Init => ChunksInv
<1> USE ChunksAssumption
<1> SUFFICES ASSUME C!Init PROVE ChunksInv
  OBVIOUS
<1>1. C!TypeOK
  <2>1. /\ memory \in [C!Addresses -> C!Cell \cup {nullptr}]
        /\ since \in [C!Addresses -> SUBSET C!Frame]
    BY DEF C!Init
  <2>2. \A t \in Threads : chunks[t] \in Seq([at : C!Addresses, size : 1..LastCell])
    BY DEF C!Init
  <2>3. objects \subseteq C!Addresses /\ writes \in 0..MaxWrites /\ stack_chunk \in Seq(C!Copy)
        /\ level \in Nat
    BY DEF C!Init
  <2> QED
    BY <2>1, <2>2, <2>3, NoTypes DEF C!Init, C!TypeOK
<1>2. SinceInv /\ FoundInv
  BY DEF C!Init, SinceInv, FoundInv, C!FramesFresh
<1>3. chunks = [t \in Threads |-> <<>>]
  BY DEF C!Init
<1>4. Placed /\ Apart /\ Headed
  BY <1>3 DEF Placed, Apart, Headed
<1>5. UpdateInv /\ CopiesInv
  BY DEF C!Init, UpdateInv, CopiesInv
<1> QED
  BY <1>1, <1>2, <1>4, <1>5 DEF ChunksInv

LEMMA ChunksStep == ChunksInv /\ [C!Next]_(C!vars) => ChunksInv'
<1> SUFFICES ASSUME ChunksInv, [C!Next]_(C!vars) PROVE ChunksInv'
  OBVIOUS
<1>1. ASSUME NEW t \in Threads, NEW a \in C!Addresses, NEW n \in C!Addresses,
             C!PushChunk(t, [at |-> a, size |-> n])
      PROVE  ChunksInv'
  BY <1>1, ChunkMoves, Moved
<1>2. ASSUME NEW t \in Threads, C!Call(t) \/ C!PopChunk(t) PROVE ChunksInv'
  BY <1>2, ChunkMoves, Moved
<1>3. ASSUME NEW t \in Threads, C!UnwindPythonStack(t) PROVE ChunksInv'
  BY <1>3, UnwindStarts
<1>4. ASSUME NEW a \in C!Addresses, C!NewGenerator(a) \/ C!EndGenerator(a) PROVE ChunksInv'
  BY <1>4, GeneratorMoves, Moved
<1>5. ASSUME NEW a \in C!Addresses, C!ReadFrame(a) PROVE ChunksInv'
  BY <1>5, FrameIsRead
<1>6. ASSUME C!CopyHeader \/ C!CopyData \/ C!StackEnds PROVE ChunksInv'
  BY <1>6, HeaderCopied, DataCopied, StackDone
<1>7. CASE UNCHANGED C!vars
  <2>1. /\ UNCHANGED <<memory, objects, chunks, writes, stack_chunk, chunk_pc,
                       chunk_addr, chunk, level, frame_addr, frame, since, freed>>
        /\ UNCHANGED C!program
    BY <1>7 DEF C!vars, C!program, C!update, C!found
  <2>2. C!TypeOK' /\ SinceInv' /\ UpdateInv' /\ CopiesInv' /\ FoundInv'
    BY <2>1 DEF ChunksInv, C!TypeOK, SinceInv, UpdateInv, IsChunk, CopiesInv,
       Fresh, FoundInv, C!FramesFresh, C!Kept
  <2> QED
    BY <2>1, <2>2, Still DEF ChunksInv
<1> QED
  BY <1>1, <1>2, <1>3, <1>4, <1>5, <1>6, <1>7 DEF C!Next

-----------------------------------------------------------------------------
(* The parts side by side.                                                 *)

LEMMA ChunksAlone ==
  ASSUME ChunksInv, [MCNext]_<<part, vars, chunk_vars, native_vars, line_vars, number_vars>>
  PROVE  ChunksInv'
<1>1. [C!Next]_(C!vars) \/ UNCHANGED chunk_vars
  BY DEF MCNext, Others
<1>2. UNCHANGED chunk_vars => UNCHANGED C!vars
  BY DEF chunk_vars, C!vars, C!program, C!update, C!found
<1> QED
  BY <1>1, <1>2, ChunksStep

(* The inductive invariant of StackChunks: as long as no chunk is given    *)
(* back, each pointer that update follows leads to a chunk whose header is *)
(* as it was copied, and every copy made for this thread holds what has    *)
(* been at its place since the unwinding began.                            *)
THEOREM ChunksInvariant == MCSpec => []ChunksInv
<1>1. MCInit => ChunksInv
  BY ChunksStart DEF MCInit
<1>2. ChunksInv /\ [MCNext]_<<part, vars, chunk_vars, native_vars, line_vars, number_vars>>
        => ChunksInv'
  BY ChunksAlone
<1> QED
  BY <1>1, <1>2, PTL DEF MCSpec

(* StackChunk::update and resolve: whatever the threads call, return from  *)
(* and allocate meanwhile, a frame is read as it is or has been since the  *)
(* unwinding began, never from beyond a copy nor from one made for another *)
(* thread; unless a chunk is given back, or a longer list was kept.        *)
THEOREM ChunksAreFresh == MCSpec => []FramesFresh
<1>1. ChunksInv => FramesFresh
  BY DEF ChunksInv, FoundInv, FramesFresh, C!FramesFresh
<1> QED
  BY <1>1, ChunksInvariant, PTL

-----------------------------------------------------------------------------
(* Interleaving: what the frames of a stack make, put together.            *)

CFrames == N!CFrame
Named   == N!Native \cup Locations

FrameOf  == [x \in Named |-> IF x \in Locations THEN <<x>> ELSE <<>>]
PythonOf == [f \in CFrames |-> f.python]
EntriesOf == [f \in CFrames |-> [j \in DOMAIN f.python |-> j = Len(f.python)]]
TruthOf  == [f \in CFrames |-> IF f.python = <<>> THEN <<f.name>> ELSE f.python]

LEMMA OfTyping ==
  /\ FrameOf \in [Named -> Seq(Locations)]
  /\ PythonOf \in [CFrames -> Seq(Locations)]
  /\ EntriesOf \in [CFrames -> Seq(BOOLEAN)]
  /\ TruthOf \in [CFrames -> Seq(Named)]
<1>1. \A f \in CFrames : /\ f.python \in Seq(Locations) /\ f.python \in Seq(Named)
                         /\ f.name \in Named
  BY DEF CFrames, Named, N!CFrame, N!Native
<1>2. FrameOf \in [Named -> Seq(Locations)] /\ PythonOf \in [CFrames -> Seq(Locations)]
  BY <1>1 DEF FrameOf, PythonOf
<1>3. ASSUME NEW f \in CFrames PROVE EntriesOf[f] \in Seq(BOOLEAN)
  <2>1. f.python \in Seq(Locations)
    BY <1>1
  <2>2. [j \in 1..Len(f.python) |-> j = Len(f.python)] \in Seq(BOOLEAN)
    BY <2>1
  <2>3. DOMAIN f.python = 1..Len(f.python)
    BY <2>1
  <2> QED
    BY <2>2, <2>3 DEF EntriesOf
<1>4. ASSUME NEW f \in CFrames PROVE TruthOf[f] \in Seq(Named)
  BY <1>1 DEF TruthOf
<1> QED
  BY <1>2, <1>3, <1>4 DEF EntriesOf, TruthOf

LEMMA Puts == \A r : N!FlattenSeq(r) = FlattenSeq(r)
  BY DEF FlattenSeq, N!FlattenSeq

LEMMA PythonFramesIs ==
  ASSUME NEW s \in Seq(Named)
  PROVE  N!PythonFrames(s) = FlatMap(FrameOf, s)
<1>1. \A i \in DOMAIN s : s[i] \in Named
  OBVIOUS
<1>2. Mapped(FrameOf, s) = [i \in DOMAIN s |-> IF s[i] \in Locations THEN <<s[i]>> ELSE <<>>]
  BY <1>1 DEF Mapped, FrameOf
<1> QED
  BY <1>2, Puts DEF FlatMap, N!PythonFrames

LEMMA StacksAre ==
  ASSUME c_stack \in Seq(CFrames)
  PROVE  /\ N!PythonStack = FlatMap(PythonOf, c_stack)
         /\ N!Entries = FlatMap(EntriesOf, c_stack)
         /\ N!Truth = FlatMap(TruthOf, c_stack)
<1>1. \A i \in DOMAIN c_stack : c_stack[i] \in CFrames
  OBVIOUS
<1>2. Mapped(PythonOf, c_stack) = [i \in DOMAIN c_stack |-> c_stack[i].python]
  BY <1>1 DEF Mapped, PythonOf
<1>3. Mapped(EntriesOf, c_stack) =
        [i \in DOMAIN c_stack |->
           [j \in DOMAIN c_stack[i].python |-> j = Len(c_stack[i].python)]]
  BY <1>1 DEF Mapped, EntriesOf
<1>4. Mapped(TruthOf, c_stack) =
        [i \in DOMAIN c_stack |-> IF c_stack[i].python = <<>> THEN <<c_stack[i].name>>
                                  ELSE c_stack[i].python]
  BY <1>1 DEF Mapped, TruthOf
<1>5. N!PythonStack = FlatMap(PythonOf, c_stack)
  BY <1>2, Puts DEF FlatMap, N!PythonStack
<1>6. N!Entries = FlatMap(EntriesOf, c_stack)
  BY <1>3, Puts DEF FlatMap, N!Entries
<1>7. N!Truth = FlatMap(TruthOf, c_stack)
  BY <1>4, Puts DEF FlatMap, N!Truth
<1> QED
  BY <1>5, <1>6, <1>7

(* The Python frames of a stack are those of its parts, in their order.    *)
LEMMA PythonFramesConcat ==
  ASSUME NEW s \in Seq(Named), NEW t \in Seq(Named)
  PROVE  N!PythonFrames(s \o t) = N!PythonFrames(s) \o N!PythonFrames(t)
<1>1. s \o t \in Seq(Named)
  OBVIOUS
<1>2. FlatMap(FrameOf, s \o t) = FlatMap(FrameOf, s) \o FlatMap(FrameOf, t)
  BY OfTyping, FlatMapConcat
<1> QED
  BY <1>1, <1>2, PythonFramesIs

(* A native frame has none, and a Python stack has its own.                *)
LEMMA PythonFramesOne ==
  ASSUME NEW x \in Named
  PROVE  N!PythonFrames(<<x>>) = IF x \in Locations THEN <<x>> ELSE <<>>
<1>1. FlatMap(FrameOf, <<>>) = <<>> /\ Joins(FrameOf, <<>>, x)
  <2>1. <<>> \in Seq(Named)
    OBVIOUS
  <2> QED
    BY <2>1, OfTyping, FlatMapLast
<1>2. Append(<<>>, x) = <<x>> /\ <<x>> \in Seq(Named)
  OBVIOUS
<1>3. FrameOf[x] = IF x \in Locations THEN <<x>> ELSE <<>>
  BY DEF FrameOf
<1>4. FrameOf[x] \in Seq(Locations)
  BY OfTyping
<1>5. <<>> \o FrameOf[x] = FrameOf[x]
  BY <1>4
<1> QED
  BY <1>1, <1>2, <1>3, <1>5, PythonFramesIs DEF Joins

LEMMA PythonFramesAll ==
  ASSUME NEW s \in Seq(Locations)
  PROVE  N!PythonFrames(s) = s
<1> DEFINE E == {n \in Nat : \A r \in Seq(Locations) :
                   Len(r) = n => N!PythonFrames(r) = r}
<1>1. 0 \in E
  <2> SUFFICES ASSUME NEW r \in Seq(Locations), Len(r) = 0 PROVE N!PythonFrames(r) = r
    OBVIOUS
  <2>1. r = <<>> /\ <<>> \in Seq(Named)
    OBVIOUS
  <2>2. FlatMap(FrameOf, <<>>) = <<>>
    BY <2>1, OfTyping, FlatMapLast
  <2> QED
    BY <2>1, <2>2, PythonFramesIs
<1>2. ASSUME NEW n \in Nat, n \in E PROVE n + 1 \in E
  <2> SUFFICES ASSUME NEW r \in Seq(Locations), Len(r) = n + 1
               PROVE  N!PythonFrames(r) = r
    OBVIOUS
  <2>1. Len(r) > 0
    OBVIOUS
  <2>2. PICK u \in Seq(Locations), x \in Locations :
          r = Append(u, x) /\ Len(r) = Len(u) + 1
    <3> HIDE DEF E
    <3> QED
      BY <2>1, LastOf
  <2>3. N!PythonFrames(u) = u
    BY <1>2, <2>2
  <2>4. r = u \o <<x>> /\ u \in Seq(Named) /\ <<x>> \in Seq(Named) /\ x \in Named
    BY <2>2 DEF Named
  <2>5. N!PythonFrames(r) = N!PythonFrames(u) \o N!PythonFrames(<<x>>)
    BY <2>4, PythonFramesConcat
  <2> QED
    BY <2>3, <2>4, <2>5, PythonFramesOne
<1> HIDE DEF E
<1>3. Nat \subseteq E
  BY <1>1, <1>2, SetInduction
<1> QED
  BY <1>3 DEF E

-----------------------------------------------------------------------------
(* What the first loops of a stack make, and what the next one adds.       *)

Splits(h, s, k, T) == \E rest \in Seq(T) : FlatMap(h, s) = UpTo(h, s, k) \o rest

LEMMA FlatMapParts ==
  ASSUME NEW S, NEW s \in Seq(S), NEW T, NEW h \in [S -> Seq(T)]
  PROVE  \A k \in 0..Len(s) : Splits(h, s, k, T)
<1> SUFFICES ASSUME NEW k \in 0..Len(s)
             PROVE  \E rest \in Seq(T) : FlatMap(h, s) = UpTo(h, s, k) \o rest
  BY DEF Splits
<1> DEFINE a == SubSeq(s, 1, k)
           b == SubSeq(s, k + 1, Len(s))
<1>1. a \in Seq(S) /\ b \in Seq(S) /\ s = a \o b
  <2>1. SubSeq(s, 1, k) \o SubSeq(s, k + 1, Len(s)) = SubSeq(s, 1, Len(s))
    <3>1. 1 \in 1..(Len(s) + 1) /\ k \in (1 - 1)..Len(s) /\ Len(s) \in k..Len(s)
      OBVIOUS
    <3>2. \A m \in 1..(Len(s) + 1) : \A l \in (m - 1)..Len(s) : \A n \in l..Len(s) :
            SubSeq(s, m, l) \o SubSeq(s, l + 1, n) = SubSeq(s, m, n)
      BY SMTT(30), ConcatAdjacentSubSeq
    <3> QED
      BY <3>1, <3>2
  <2>2. SubSeq(s, 1, Len(s)) = s
    OBVIOUS
  <2>3. s = a \o b
    BY Zenon, <2>1, <2>2
  <2>4. a \in Seq(S) /\ b \in Seq(S)
    <3>1. Len(s) \in Nat /\ k \in Nat /\ k <= Len(s) /\ \A i \in 1..Len(s) : s[i] \in S
      OBVIOUS
    <3> QED
      BY <3>1
  <2> QED
    BY <2>3, <2>4
<1> HIDE DEF a, b
<1>2. FlatMap(h, a \o b) = FlatMap(h, a) \o FlatMap(h, b)
  BY <1>1, FlatMapConcat
<1>3. FlatMap(h, b) \in Seq(T)
  BY <1>1, FlatMapLast
<1> QED
  BY <1>1, <1>2, <1>3 DEF UpTo, a

(* There are as many flags as Python frames, and the last one is set.      *)
LastSet(s) == Len(s) > 0 => s[Len(s)] = TRUE

LEMMA LastSetConcat ==
  ASSUME NEW a \in Seq(BOOLEAN), NEW e \in Seq(BOOLEAN), LastSet(a), LastSet(e)
  PROVE  LastSet(a \o e) /\ Len(a \o e) = Len(a) + Len(e)
<1>1. Len(a \o e) = Len(a) + Len(e)
  OBVIOUS
<1>2. CASE Len(e) = 0
  <2>1. a \o e = a
    BY <1>2
  <2> QED
    BY <1>1, <2>1
<1>3. CASE Len(e) > 0
  <2>1. (a \o e)[Len(a) + Len(e)] = e[Len(e)]
    BY <1>3
  <2> QED
    BY <1>1, <1>3, <2>1 DEF LastSet
<1>4. Len(e) = 0 \/ Len(e) > 0
  OBVIOUS
<1> QED
  BY <1>2, <1>3, <1>4

(* Of the Python frames of a loop, the last has its flag set, no other.    *)
LEMMA EntriesOfLoop ==
  ASSUME NEW f \in CFrames
  PROVE  /\ EntriesOf[f] \in Seq(BOOLEAN)
         /\ Len(EntriesOf[f]) = Len(PythonOf[f])
         /\ LastSet(EntriesOf[f])
         /\ \A j \in 1..(Len(PythonOf[f]) - 1) : ~ EntriesOf[f][j]
<1>1. PICK p \in Seq(Locations) : p = f.python
  BY DEF CFrames, N!CFrame
<1>2. PythonOf[f] = p /\ DOMAIN p = 1..Len(p) /\ Len(p) \in Nat
  BY <1>1 DEF PythonOf
<1>3. EntriesOf[f] = [j \in 1..Len(p) |-> j = Len(p)]
  BY <1>1, <1>2 DEF EntriesOf
<1>4. EntriesOf[f] \in Seq(BOOLEAN)
  BY OfTyping
<1>5. Len(EntriesOf[f]) = Len(p)
  <2>1. DOMAIN EntriesOf[f] = 1..Len(p)
    BY <1>3
  <2>2. DOMAIN EntriesOf[f] = 1..Len(EntriesOf[f]) /\ Len(EntriesOf[f]) \in Nat
    BY <1>4
  <2> QED
    BY <1>2, <2>1, <2>2
<1>6. LastSet(EntriesOf[f])
  <2> SUFFICES ASSUME Len(p) > 0 PROVE EntriesOf[f][Len(p)] = TRUE
    BY <1>5 DEF LastSet
  <2>1. Len(p) \in 1..Len(p)
    BY <1>2
  <2>2. EntriesOf[f][Len(p)] = (Len(p) = Len(p))
    BY <1>3, <2>1, Zenon
  <2> QED
    BY <2>2, Zenon
<1>7. \A j \in 1..(Len(p) - 1) : ~ EntriesOf[f][j]
  <2> SUFFICES ASSUME NEW j \in 1..(Len(p) - 1) PROVE ~ EntriesOf[f][j]
    OBVIOUS
  <2>1. j \in 1..Len(p) /\ ~ (j = Len(p))
    <3>1. PICK m \in Nat : m = Len(p)
      BY <1>2
    <3>2. j \in 1..(m - 1)
      BY <3>1
    <3>3. j \in 1..m /\ ~ (j = m)
      BY <3>2
    <3> QED
      BY SMTT(30), <3>1, <3>3
  <2>2. EntriesOf[f][j] = (j = Len(p))
    BY <1>3, <2>1, Zenon
  <2> QED
    BY <2>1, <2>2, Zenon
<1> QED
  BY <1>2, <1>4, <1>5, <1>6, <1>7

LEMMA EntriesUpTo ==
  ASSUME NEW s \in Seq(CFrames), NEW k \in 0..Len(s)
  PROVE  /\ Len(UpTo(EntriesOf, s, k)) = Len(UpTo(PythonOf, s, k))
         /\ LastSet(UpTo(EntriesOf, s, k))
<1> DEFINE Is(n) == /\ Len(UpTo(EntriesOf, s, n)) = Len(UpTo(PythonOf, s, n))
                    /\ LastSet(UpTo(EntriesOf, s, n))
           E == {n \in Nat : n <= Len(s) => Is(n)}
<1>0. /\ UpTo(EntriesOf, s, 0) = <<>> /\ UpTo(PythonOf, s, 0) = <<>>
      /\ \A n \in 0..Len(s) : /\ UpTo(EntriesOf, s, n) \in Seq(BOOLEAN)
                              /\ UpTo(PythonOf, s, n) \in Seq(Locations)
      /\ \A n \in 1..Len(s) : Extends(EntriesOf, s, n) /\ Extends(PythonOf, s, n)
  BY OfTyping, UpToNext
<1>1. 0 \in E
  BY <1>0 DEF LastSet
<1>2. ASSUME NEW n \in Nat, n \in E PROVE n + 1 \in E
  <2> SUFFICES ASSUME n + 1 <= Len(s) PROVE Is(n + 1)
    OBVIOUS
  <2>1. n \in 0..Len(s) /\ n + 1 \in 1..Len(s) /\ (n + 1) - 1 = n
    OBVIOUS
  <2>2. s[n + 1] \in CFrames
    BY <2>1
  <2>3. PICK e \in Seq(BOOLEAN), p \in Seq(Locations) :
          /\ e = EntriesOf[s[n + 1]] /\ p = PythonOf[s[n + 1]]
          /\ Len(e) = Len(p) /\ LastSet(e)
    <3>1. PythonOf[s[n + 1]] \in Seq(Locations)
      BY <2>2, OfTyping
    <3>2. /\ EntriesOf[s[n + 1]] \in Seq(BOOLEAN)
          /\ Len(EntriesOf[s[n + 1]]) = Len(PythonOf[s[n + 1]])
          /\ LastSet(EntriesOf[s[n + 1]])
      BY <2>2, EntriesOfLoop
    <3> QED
      BY <3>1, <3>2
  <2>4. PICK a \in Seq(BOOLEAN), b \in Seq(Locations) :
          /\ a = UpTo(EntriesOf, s, n) /\ b = UpTo(PythonOf, s, n)
          /\ Len(a) = Len(b) /\ LastSet(a)
    BY <1>0, <1>2, <2>1
  <2>5. UpTo(EntriesOf, s, n + 1) = a \o e /\ UpTo(PythonOf, s, n + 1) = b \o p
    <3>1. Extends(EntriesOf, s, n + 1) /\ Extends(PythonOf, s, n + 1)
      BY <1>0, <2>1
    <3> QED
      BY <2>1, <2>3, <2>4, <3>1 DEF Extends
  <2> HIDE DEF E, Is
  <2>6. LastSet(a \o e) /\ Len(a \o e) = Len(a) + Len(e)
    BY <2>3, <2>4, LastSetConcat
  <2>7. Len(b \o p) = Len(b) + Len(p)
    BY <2>3, <2>4
  <2> QED
    BY <2>3, <2>4, <2>5, <2>6, <2>7 DEF Is
<1> HIDE DEF E, Is
<1>3. k \in E
  BY <1>1, <1>2, SetInduction
<1> QED
  BY <1>3 DEF E, Is

(* Where no loop executes Python frames, there are none.                   *)
LEMMA PythonUpToNone ==
  ASSUME NEW s \in Seq(CFrames), NEW k \in 0..Len(s), \A j \in 1..k : s[j].python = <<>>
  PROVE  UpTo(PythonOf, s, k) = <<>>
<1> DEFINE E == {n \in Nat : n <= k => UpTo(PythonOf, s, n) = <<>>}
<1>0. /\ UpTo(PythonOf, s, 0) = <<>>
      /\ \A n \in 1..Len(s) : Extends(PythonOf, s, n)
  BY OfTyping, UpToNext
<1>1. 0 \in E
  BY <1>0
<1>2. ASSUME NEW n \in Nat, n \in E PROVE n + 1 \in E
  <2> SUFFICES ASSUME n + 1 <= k PROVE UpTo(PythonOf, s, n + 1) = <<>>
    OBVIOUS
  <2>1. n + 1 \in 1..Len(s) /\ n + 1 \in 1..k /\ (n + 1) - 1 = n
    OBVIOUS
  <2>2. s[n + 1] \in CFrames
    BY <2>1
  <2>3. PythonOf[s[n + 1]] = <<>>
    BY <2>1, <2>2 DEF PythonOf
  <2>4. UpTo(PythonOf, s, n + 1) = UpTo(PythonOf, s, n) \o PythonOf[s[n + 1]]
    BY <1>0, <2>1 DEF Extends
  <2> QED
    BY <1>2, <2>3, <2>4
<1> HIDE DEF E
<1>3. k \in E
  BY <1>1, <1>2, SetInduction
<1> QED
  BY <1>3 DEF E

-----------------------------------------------------------------------------
(* The inductive invariant of Interleaving.                                *)

(* Only the interpreter loop executes Python frames, and before 3.11 one   *)
(* of them.                                                                *)
LoopsOf(v) ==
  {f \in CFrames : /\ f.name = PyEval_EvalFrameDefault <=> f.python # <<>>
                   /\ v = 10 => Len(f.python) <= 1}

StacksRead == native_pc \in {"interleave", "done"}

LoopsInv ==
  /\ c_stack \in Seq(LoopsOf(version))
  /\ StacksRead /\ version # 11 => \A l \in Locations : ~ is_entry[l]

(* What is put in its place is the end of the Python stack.                *)
SplitInv ==
  /\ StacksRead =>
       N!PythonFrames(interleaved_stack) = SubSeq(own_stack, own_left + 1, Len(own_stack))
  /\ native_pc = "done" => own_left = 0

(* What is left is what the C frames that are left make, and the rest of   *)
(* the stack is as it is.                                                  *)
PlaceInv ==
  N!Whole /\ N!LoopsKnown =>
    /\ native_pc = "interleave" =>
         /\ native_left >= 2
         /\ own_left = Len(UpTo(PythonOf, c_stack, native_left - 2))
         /\ UpTo(TruthOf, c_stack, native_left - 2) \o interleaved_stack = N!Truth
    /\ native_pc = "done" => interleaved_stack = N!Truth

InterleavingInv == N!TypeOK /\ LoopsInv /\ SplitInv /\ PlaceInv

LEMMA LoopsOfTyping ==
  /\ \A v : LoopsOf(v) \subseteq CFrames
  /\ \A v : \A s \in Seq(LoopsOf(v)) : s \in Seq(CFrames)
<1>1. \A v : LoopsOf(v) \subseteq CFrames
  BY DEF LoopsOf
<1>2. ASSUME NEW S, NEW T, S \subseteq T, NEW s \in Seq(S) PROVE s \in Seq(T)
  BY <1>2
<1> QED
  BY <1>1, <1>2

LEMMA PythonStackTyping ==
  ASSUME c_stack \in Seq(CFrames)
  PROVE  N!PythonStack \in Seq(Locations) /\ Len(N!Entries) = Len(N!PythonStack)
<1>1. N!PythonStack = FlatMap(PythonOf, c_stack) /\ N!Entries = FlatMap(EntriesOf, c_stack)
  BY StacksAre
<1>2. FlatMap(PythonOf, c_stack) \in Seq(Locations)
  BY OfTyping, FlatMapLast
<1>3. /\ UpTo(PythonOf, c_stack, Len(c_stack)) = FlatMap(PythonOf, c_stack)
      /\ UpTo(EntriesOf, c_stack, Len(c_stack)) = FlatMap(EntriesOf, c_stack)
  BY OfTyping, UpToNext
<1>4. PICK k \in 0..Len(c_stack) : k = Len(c_stack)
  OBVIOUS
<1>5. Len(UpTo(EntriesOf, c_stack, k)) = Len(UpTo(PythonOf, c_stack, k))
  BY EntriesUpTo
<1> QED
  BY <1>1, <1>2, <1>3, <1>4, <1>5

(* The flags of the frames that have been read. *)
LEMMA FlagsTyping ==
  ASSUME c_stack \in Seq(CFrames), NEW k \in 0..Len(N!PythonStack)
  PROVE  /\ N!FlagsAfter(k) \in [Locations -> BOOLEAN]
         /\ version # 11 => \A l \in Locations : ~ N!FlagsAfter(k)[l]
<1>1. N!FlagsAfter(k) \in [Locations -> BOOLEAN]
  BY DEF N!FlagsAfter
<1>2. ASSUME version # 11, NEW l \in Locations, N!FlagsAfter(k)[l] PROVE FALSE
  <2> DEFINE seen == {i \in 1..k : N!PythonStack[i] = l}
             last == CHOOSE i \in seen : \A j \in seen : j <= i
  <2>1. seen # {} /\ N!EntriesRead[last]
    BY <1>2 DEF N!FlagsAfter
  <2>2. \E i \in seen : \A j \in seen : j <= i
    <3> DEFINE S == {m \in Nat : k - m \in seen}
    <3>1. k \in Nat /\ seen \subseteq 1..k
      BY PythonStackTyping
    <3> HIDE DEF seen
    <3>2. PICK a \in seen : TRUE
      BY <2>1
    <3>3. k - a \in S
      BY <3>1, <3>2
    <3>4. PICK m \in S : \A q \in S : m <= q
      <4>1. S \in SUBSET Nat /\ S # {}
        BY <3>3
      <4> HIDE DEF S
      <4> QED
        BY <4>1, Least
    <3>5. k - m \in seen
      OBVIOUS
    <3>6. ASSUME NEW j \in seen PROVE j <= k - m
      <4>1. k - j \in S /\ m \in Nat
        BY <3>1
      <4>2. m <= k - j
        BY <3>4, <4>1
      <4>3. j \in Int /\ k \in Int
        BY <3>1
      <4> HIDE DEF S
      <4> QED
        BY <4>1, <4>2, <4>3
    <3> QED
      BY <3>5, <3>6
  <2>3. last \in seen
    <3> HIDE DEF seen
    <3> QED
      BY <2>2
  <2>4. last \in 1..k
    BY <2>3
  <2> HIDE DEF last
  <2>5. last \in DOMAIN N!Entries
    <3>1. PICK m \in Nat : m = Len(N!PythonStack)
      BY PythonStackTyping
    <3>2. N!Entries \in Seq(BOOLEAN)
      BY StacksAre, OfTyping, FlatMapLast
    <3>3. DOMAIN N!Entries = 1..m
      BY <3>1, <3>2, PythonStackTyping
    <3>4. last \in 1..m
      BY <2>4, <3>1
    <3> QED
      BY <3>3, <3>4
  <2>6. N!EntriesRead[last] = (version = 11 /\ N!Entries[last])
    BY <2>5, Zenon DEF N!EntriesRead
  <2> QED
    BY <1>2, <2>1, <2>6, Zenon
<1> QED
  BY <1>1, <1>2

(* A frame more, a frame less. *)
LEMMA StackSteps ==
  ASSUME NEW S, NEW s \in Seq(S), NEW x \in S
  PROVE  /\ <<x>> \o s \in Seq(S)
         /\ s # <<>> => Tail(s) \in Seq(S) /\ [s EXCEPT ![1] = x] \in Seq(S)
  OBVIOUS

LEMMA TailOfLonger ==
  ASSUME NEW S, NEW p \in Seq(S), Len(p) > 1
  PROVE  Tail(p) \in Seq(S) /\ Tail(p) # <<>>
<1>1. Len(p) \in Nat /\ p # <<>>
  <2>1. Len(p) \in Nat /\ (p = <<>> => Len(p) = 0)
    OBVIOUS
  <2> QED
    BY <2>1
<1>2. Tail(p) \in Seq(S) /\ Len(Tail(p)) = Len(p) - 1
  BY <1>1, HeadTailProperties
<1>3. \A n \in Nat : n > 1 => n - 1 # 0
  OBVIOUS
<1>4. Len(Tail(p)) # 0
  BY <1>1, <1>2, <1>3
<1>5. Len(<<>>) = 0
  OBVIOUS
<1> QED
  BY <1>2, <1>4, <1>5

LEMMA StackStart ==
  ASSUME N!Init
  PROVE  InterleavingInv
<1>1. N!TypeOK
  BY DEF N!Init, N!TypeOK
<1>2. LoopsInv
  BY DEF N!Init, LoopsInv, StacksRead
<1>3. SplitInv /\ PlaceInv
  BY DEF N!Init, SplitInv, PlaceInv, StacksRead
<1> QED
  BY <1>1, <1>2, <1>3 DEF InterleavingInv

(* The thread runs: its stack keeps its shape. *)
LEMMA ThreadStep ==
  ASSUME InterleavingInv, NEW program \in Seq(LoopsOf(version)), N!Executes(program)
  PROVE  InterleavingInv'
<1>1. /\ native_pc = "run" /\ c_stack' = program
      /\ UNCHANGED <<version, native_pc, native_stack, own_stack, is_entry,
                     interleaved_stack, native_left, own_left>>
  BY DEF N!Executes
<1>2. N!TypeOK'
  <2>1. program \in Seq(CFrames)
    BY LoopsOfTyping
  <2> QED
    BY <1>1, <2>1 DEF InterleavingInv, N!TypeOK, CFrames
<1>3. LoopsInv'
  BY <1>1 DEF LoopsInv, StacksRead
<1>4. SplitInv' /\ PlaceInv'
  BY <1>1 DEF SplitInv, PlaceInv, StacksRead
<1> QED
  BY <1>2, <1>3, <1>4 DEF InterleavingInv

LEMMA ThreadSteps ==
  ASSUME InterleavingInv,
         \/ \E f \in Functions : N!Call(f)
         \/ \E l \in Locations : N!Eval(l) \/ N!EvalInline(l)
         \/ N!Return
  PROVE  InterleavingInv'
<1>0. version \in 10..12 /\ c_stack \in Seq(LoopsOf(version))
  BY DEF InterleavingInv, LoopsInv, N!TypeOK
<1>1. ASSUME NEW f \in Functions, N!Call(f) PROVE InterleavingInv'
  <2> DEFINE x == [name |-> f, python |-> <<>>]
  <2>1. x \in LoopsOf(version)
    BY InterleavingAssumption DEF LoopsOf, CFrames, N!CFrame
  <2>2. N!Executes(<<x>> \o c_stack)
    BY <1>1 DEF N!Call
  <2> HIDE DEF x
  <2>3. <<x>> \o c_stack \in Seq(LoopsOf(version))
    BY <1>0, <2>1, StackSteps
  <2> QED
    BY <2>2, <2>3, ThreadStep
<1>2. ASSUME NEW l \in Locations, N!Eval(l) PROVE InterleavingInv'
  <2> DEFINE x == [name |-> PyEval_EvalFrameDefault, python |-> <<l>>]
  <2>1. x \in LoopsOf(version)
    <3>1. <<l>> \in Seq(Locations) /\ <<l>> # <<>> /\ Len(<<l>>) = 1
      OBVIOUS
    <3>2. x \in CFrames /\ x.name = PyEval_EvalFrameDefault /\ x.python = <<l>>
      BY <3>1 DEF CFrames, N!CFrame
    <3> HIDE DEF x
    <3>3. x.name = PyEval_EvalFrameDefault <=> x.python # <<>>
      BY <3>1, <3>2
    <3>4. version = 10 => Len(x.python) <= 1
      BY <3>1, <3>2
    <3> QED
      BY <3>2, <3>3, <3>4 DEF LoopsOf
  <2>2. N!Executes(<<x>> \o c_stack)
    BY <1>2 DEF N!Eval
  <2> HIDE DEF x
  <2>3. <<x>> \o c_stack \in Seq(LoopsOf(version))
    BY <1>0, <2>1, StackSteps
  <2> QED
    BY <2>2, <2>3, ThreadStep
<1>3. ASSUME NEW l \in Locations, N!EvalInline(l) PROVE InterleavingInv'
  <2>1. version >= 11 /\ c_stack # <<>> /\ c_stack[1].python # <<>>
    BY <1>0, <1>3 DEF N!EvalInline
  <2> DEFINE x == [c_stack[1] EXCEPT !.python = <<l>> \o c_stack[1].python]
  <2>2. c_stack[1] \in LoopsOf(version)
    BY <1>0, <2>1
  <2>3. x \in LoopsOf(version)
    <3>1. PICK p \in Seq(Locations) : p = c_stack[1].python
      BY <2>2 DEF LoopsOf, CFrames, N!CFrame
    <3>2. <<l>> \o p \in Seq(Locations) /\ <<l>> \o p # <<>>
      OBVIOUS
    <3>3. /\ x \in CFrames /\ x.python = <<l>> \o p
          /\ x.name = PyEval_EvalFrameDefault
      BY <2>1, <2>2, <3>1, <3>2 DEF LoopsOf, CFrames, N!CFrame
    <3> HIDE DEF x
    <3> QED
      BY <1>0, <2>1, <3>2, <3>3 DEF LoopsOf
  <2>4. N!Executes([c_stack EXCEPT ![1] = x])
    BY <1>3 DEF N!EvalInline
  <2> HIDE DEF x
  <2>5. [c_stack EXCEPT ![1] = x] \in Seq(LoopsOf(version))
    BY <1>0, <2>1, <2>3, StackSteps
  <2> QED
    BY <2>4, <2>5, ThreadStep
<1>4. ASSUME N!Return PROVE InterleavingInv'
  <2>1. c_stack # <<>> /\ c_stack[1] \in LoopsOf(version) /\ Head(c_stack) = c_stack[1]
    BY <1>0, <1>4 DEF N!Return
  <2>2. PICK p \in Seq(Locations) : p = c_stack[1].python
    BY <2>1 DEF LoopsOf, CFrames, N!CFrame
  <2>3. CASE Len(p) > 1
    <3> DEFINE x == [c_stack[1] EXCEPT !.python = Tail(p)]
    <3>1. Tail(p) \in Seq(Locations) /\ Tail(p) # <<>>
      BY <2>3, TailOfLonger
    <3>2. /\ x \in CFrames /\ x.python = Tail(p)
          /\ x.name = PyEval_EvalFrameDefault /\ version # 10
      <4>1. c_stack[1] \in CFrames /\ c_stack[1].name = PyEval_EvalFrameDefault
        BY <2>1, <2>2, <2>3 DEF LoopsOf
      <4>2. version # 10
        BY <2>1, <2>2, <2>3 DEF LoopsOf
      <4> QED
        BY <3>1, <4>1, <4>2 DEF CFrames, N!CFrame
    <3>3. N!Executes([c_stack EXCEPT ![1] = x])
      BY <1>4, <2>1, <2>2, <2>3 DEF N!Return
    <3> HIDE DEF x
    <3>4. x \in LoopsOf(version)
      BY <3>1, <3>2 DEF LoopsOf
    <3>5. [c_stack EXCEPT ![1] = x] \in Seq(LoopsOf(version))
      BY <1>0, <2>1, <3>4, StackSteps
    <3> QED
      BY <3>3, <3>5, ThreadStep
  <2>4. CASE ~ (Len(p) > 1)
    <3>1. N!Executes(Tail(c_stack))
      BY <1>4, <2>1, <2>2, <2>4 DEF N!Return
    <3>2. Tail(c_stack) \in Seq(LoopsOf(version))
      BY <1>0, <2>1, StackSteps
    <3> QED
      BY <3>1, <3>2, ThreadStep
  <2> QED
    BY <2>3, <2>4
<1> QED
  BY <1>1, <1>2, <1>3, <1>4

-----------------------------------------------------------------------------
(* Which Python frames are taken for those of a loop.                      *)

LEMMA SizeIs == \A S : N!Cardinality(S) = Cardinality(S)
  BY DEF Cardinality, N!Cardinality

LEMMA FewElements ==
  ASSUME NEW S, IsFiniteSet(S)
  PROVE  /\ \A x : S \subseteq {x} => Cardinality(S) <= 1
         /\ \A x, y \in S : x # y => Cardinality(S) > 1
<1>1. ASSUME NEW x, S \subseteq {x} PROVE Cardinality(S) <= 1
  <2>1. IsFiniteSet({x}) /\ Cardinality({x}) = 1
    BY FS_Singleton
  <2> QED
    BY <1>1, <2>1, FS_Subset
<1>2. ASSUME NEW x \in S, NEW y \in S, x # y, ~ (Cardinality(S) > 1) PROVE FALSE
  <2>1. IsFiniteSet(S \ {x}) /\ Cardinality(S \ {x}) = Cardinality(S) - 1
    BY FS_RemoveElement
  <2>2. Cardinality(S) \in Nat /\ Cardinality(S \ {x}) \in Nat
    BY <2>1, FS_CardinalityType
  <2>3. Cardinality(S \ {x}) = 0
    BY <1>2, <2>1, <2>2
  <2>4. S \ {x} = {}
    BY <2>1, <2>3, FS_EmptySet
  <2> QED
    BY <1>2, <2>4
<1> QED
  BY <1>1, <1>2

LEMMA EnteredFinite ==
  ASSUME own_left \in Nat, NEW i \in Nat
  PROVE  IsFiniteSet({j \in i..own_left : is_entry[own_stack[j]]})
<1>1. IsFiniteSet(i..own_left)
  BY FS_Interval
<1> QED
  BY <1>1, FS_Subset

LEMMA LoopEndIn ==
  ASSUME N!TypeOK, own_left > 0
  PROVE  /\ N!LoopEnd \in 1..own_left
         /\ version # 10 =>
              /\ N!BeforeTheNext(N!LoopEnd)
              /\ \A j \in 1..own_left : N!BeforeTheNext(j) => N!LoopEnd <= j
<1>1. own_left \in Nat /\ own_left \in 1..own_left
  BY DEF N!TypeOK
<1>2. CASE version = 10
  BY <1>1, <1>2 DEF N!LoopEnd
<1>3. CASE version # 10
  <2> DEFINE S == {j \in 1..own_left : N!BeforeTheNext(j)}
             Is(i) == N!BeforeTheNext(i)
                        /\ \A j \in 1..own_left : N!BeforeTheNext(j) => i <= j
  <2>1. own_left \in S
    <3> DEFINE A == {j \in own_left..own_left : is_entry[own_stack[j]]}
    <3>1. A \subseteq {own_left}
      BY <1>1
    <3>2. IsFiniteSet(A)
      BY <1>1, EnteredFinite
    <3> HIDE DEF A
    <3>3. Cardinality(A) <= 1
      BY <3>1, <3>2, FewElements
    <3>4. N!Entered(own_left) = Cardinality(A)
      BY SizeIs DEF N!Entered, A
    <3>5. N!BeforeTheNext(own_left)
      BY <3>3, <3>4 DEF N!BeforeTheNext
    <3> QED
      BY <1>1, <3>5
  <2>2. PICK i \in S : \A j \in S : i <= j
    <3>1. S \in SUBSET Nat /\ S # {}
      BY <2>1
    <3> HIDE DEF S
    <3> QED
      BY <3>1, Least
  <2>3. i \in 1..own_left /\ Is(i)
    BY <2>2
  <2>4. N!LoopEnd = CHOOSE j \in 1..own_left : Is(j)
    BY <1>3 DEF N!LoopEnd
  <2> HIDE DEF Is
  <2>5. N!LoopEnd \in 1..own_left /\ Is(N!LoopEnd)
    BY <2>3, <2>4
  <2> QED
    BY <2>5 DEF Is
<1> QED
  BY <1>2, <1>3

Follows(s, t) == /\ \A k \in 1..Len(s) : (s \o t)[k] = s[k]
                 /\ \A k \in 1..Len(t) : (s \o t)[Len(s) + k] = t[k]

LEMMA ConcatIndex ==
  ASSUME NEW S, NEW s \in Seq(S), NEW t \in Seq(S)
  PROVE  Follows(s, t)
  BY DEF Follows

(* The names that unwinding finds, below the two frames of the signal. *)
LEMMA NamesAre ==
  ASSUME c_stack \in Seq(CFrames)
  PROVE  /\ N!NativeNames \in Seq(N!Native)
         /\ Len(N!NativeNames) = Len(c_stack) + 2
         /\ \A k \in 1..Len(c_stack) : N!NativeNames[k + 2] = c_stack[k].name
<1> DEFINE m == [i \in DOMAIN c_stack |-> c_stack[i].name]
<1>1. \A i \in DOMAIN c_stack : c_stack[i].name \in N!Native
  <2>1. \A i \in DOMAIN c_stack : c_stack[i] \in CFrames
    OBVIOUS
  <2> QED
    BY <2>1 DEF CFrames, N!CFrame, N!Native
<1>2. m \in Seq(N!Native) /\ Len(m) = Len(c_stack) /\ \A k \in 1..Len(c_stack) : m[k] = c_stack[k].name
  BY <1>1
<1> DEFINE s == <<HANDLER, TRAMPOLINE>>
<1>3. s \in Seq(N!Native) /\ Len(s) = 2
  BY DEF N!Native
<1>4. N!NativeNames = s \o m
  BY DEF N!NativeNames
<1> HIDE DEF m, s
<1>5. s \o m \in Seq(N!Native) /\ Len(s \o m) = Len(m) + 2
  <2>1. s \o m \in Seq(N!Native) /\ Len(s \o m) = Len(s) + Len(m)
    BY <1>2, <1>3, ConcatProperties
  <2> QED
    BY <1>2, <1>3, <2>1
<1>6. ASSUME NEW k \in 1..Len(c_stack) PROVE (s \o m)[k + 2] = m[k]
  <2>1. k \in 1..Len(m)
    BY <1>2
  <2>2. (s \o m)[Len(s) + k] = m[k]
    <3>1. Follows(s, m)
      BY <1>2, <1>3, ConcatIndex
    <3> QED
      BY <2>1, <3>1 DEF Follows
  <2>3. k \in Int /\ 2 + k = k + 2
    OBVIOUS
  <2> QED
    BY <1>3, <2>2, <2>3
<1> QED
  BY <1>2, <1>4, <1>5, <1>6

(* The Python frames of the first k loops come first, whatever else there  *)
(* is, and the k-th adds its own.                                          *)
LEMMA PythonUpTo ==
  ASSUME c_stack \in Seq(CFrames), NEW k \in 1..Len(c_stack)
  PROVE  \E a, p, rest \in Seq(Locations) :
           /\ a = UpTo(PythonOf, c_stack, k - 1)
           /\ p = c_stack[k].python
           /\ UpTo(PythonOf, c_stack, k) = a \o p
           /\ N!PythonStack = (a \o p) \o rest
<1>1. k \in 0..Len(c_stack) /\ k - 1 \in 0..Len(c_stack) /\ c_stack[k] \in CFrames
  OBVIOUS
<1>2. PICK rest \in Seq(Locations) : FlatMap(PythonOf, c_stack) = UpTo(PythonOf, c_stack, k) \o rest
  <2>1. PythonOf \in [CFrames -> Seq(Locations)]
    BY OfTyping
  <2>2. Splits(PythonOf, c_stack, k, Locations)
    BY <1>1, <2>1, FlatMapParts
  <2> QED
    BY <2>2 DEF Splits
<1>3. Extends(PythonOf, c_stack, k) /\ UpTo(PythonOf, c_stack, k - 1) \in Seq(Locations)
  BY <1>1, OfTyping, UpToNext
<1>4. PythonOf[c_stack[k]] = c_stack[k].python /\ c_stack[k].python \in Seq(Locations)
  BY <1>1 DEF PythonOf, CFrames, N!CFrame
<1> QED
  BY <1>2, <1>3, <1>4, StacksAre DEF Extends

LEMMA EntriesAre ==
  ASSUME c_stack \in Seq(CFrames), NEW k \in 1..Len(c_stack)
  PROVE  \E a, e, rest \in Seq(BOOLEAN) :
           /\ Len(a) = Len(UpTo(PythonOf, c_stack, k - 1)) /\ LastSet(a)
           /\ Len(e) = Len(c_stack[k].python) /\ LastSet(e)
           /\ \A j \in 1..(Len(e) - 1) : ~ e[j]
           /\ N!Entries = (a \o e) \o rest
<1>1. k \in 0..Len(c_stack) /\ k - 1 \in 0..Len(c_stack) /\ c_stack[k] \in CFrames
  OBVIOUS
<1>2. PICK rest \in Seq(BOOLEAN) : FlatMap(EntriesOf, c_stack) = UpTo(EntriesOf, c_stack, k) \o rest
  <2>1. EntriesOf \in [CFrames -> Seq(BOOLEAN)]
    BY OfTyping
  <2>2. Splits(EntriesOf, c_stack, k, BOOLEAN)
    BY <1>1, <2>1, FlatMapParts
  <2> QED
    BY <2>2 DEF Splits
<1>3. Extends(EntriesOf, c_stack, k) /\ UpTo(EntriesOf, c_stack, k - 1) \in Seq(BOOLEAN)
  BY <1>1, OfTyping, UpToNext
<1>4. PythonOf[c_stack[k]] = c_stack[k].python
  BY <1>1 DEF PythonOf
<1>5. /\ Len(UpTo(EntriesOf, c_stack, k - 1)) = Len(UpTo(PythonOf, c_stack, k - 1))
      /\ LastSet(UpTo(EntriesOf, c_stack, k - 1))
  BY <1>1, EntriesUpTo
<1>6. PICK e \in Seq(BOOLEAN) : /\ e = EntriesOf[c_stack[k]] /\ LastSet(e)
                                /\ Len(e) = Len(c_stack[k].python)
                                /\ \A j \in 1..(Len(e) - 1) : ~ e[j]
  BY <1>1, <1>4, EntriesOfLoop
<1>7. N!Entries = (UpTo(EntriesOf, c_stack, k - 1) \o e) \o rest
  BY <1>2, <1>3, <1>6, StacksAre DEF Extends
<1> QED
  BY <1>3, <1>5, <1>6, <1>7

-----------------------------------------------------------------------------
(* In 3.11, the frames of the loop begin after the last flag but one.      *)
LEMMA LoopEndByFlags ==
  ASSUME N!TypeOK, version = 11, NEW k \in 1..Len(c_stack),
         own_stack = N!PythonStack, N!LoopsKnown,
         c_stack[k].python # <<>>, own_left = Len(UpTo(PythonOf, c_stack, k))
  PROVE  N!LoopEnd = Len(UpTo(PythonOf, c_stack, k - 1)) + 1
<1>1. c_stack \in Seq(CFrames) /\ own_stack \in Seq(Locations) /\ own_left \in Nat
  BY DEF N!TypeOK, CFrames
<1>2. PICK a \in Seq(Locations), p \in Seq(Locations), rest \in Seq(Locations) :
        /\ a = UpTo(PythonOf, c_stack, k - 1) /\ p = c_stack[k].python
        /\ UpTo(PythonOf, c_stack, k) = a \o p
        /\ own_stack = (a \o p) \o rest
  <2>1. \E a, p, rest \in Seq(Locations) :
           /\ a = UpTo(PythonOf, c_stack, k - 1)
           /\ p = c_stack[k].python
           /\ UpTo(PythonOf, c_stack, k) = a \o p
           /\ N!PythonStack = (a \o p) \o rest
    BY <1>1, PythonUpTo
  <2> QED
    BY <2>1, Zenon
<1>3. PICK b \in Seq(BOOLEAN), e \in Seq(BOOLEAN), more \in Seq(BOOLEAN) :
        /\ Len(b) = Len(a) /\ LastSet(b)
        /\ Len(e) = Len(p) /\ LastSet(e)
        /\ \A j \in 1..(Len(e) - 1) : ~ e[j]
        /\ N!Entries = (b \o e) \o more
  BY <1>1, <1>2, EntriesAre
<1>4. PICK m \in Nat, n \in Nat : /\ m = Len(a) /\ m = Len(b) /\ n = Len(p) /\ n = Len(e)
                                  /\ n > 0 /\ own_left = m + n
  <2>1. Len(a) \in Nat /\ Len(p) \in Nat /\ Len(p) > 0
    <3>1. p # <<>>
      BY <1>2
    <3> QED
      BY <3>1
  <2>2. own_left = Len(a) + Len(p)
    BY <1>2
  <2>3. Len(b) = Len(a) /\ Len(e) = Len(p)
    BY <1>3
  <2> QED
    BY <2>1, <2>2, <2>3, Zenon
<1>5. /\ m > 0 => N!Entries[m]
      /\ N!Entries[m + n]
      /\ \A i \in (m + 1)..(m + n - 1) : ~ N!Entries[i]
  <2>1. b \o e \in Seq(BOOLEAN) /\ Len(b \o e) = m + n
    <3>1. b \o e \in Seq(BOOLEAN) /\ Len(b \o e) = Len(b) + Len(e)
      BY ConcatProperties
    <3> QED
      BY <1>4, <3>1
  <2>2. Follows(b \o e, more) /\ Follows(b, e)
    BY <1>3, <2>1, ConcatIndex
  <2>3. \A i \in 1..(m + n) : N!Entries[i] = (b \o e)[i]
    BY <1>3, <2>1, <2>2 DEF Follows
  <2>4. /\ \A i \in 1..m : (b \o e)[i] = b[i]
        /\ \A i \in 1..n : (b \o e)[m + i] = e[i]
    BY <1>4, <2>2 DEF Follows
  <2>5. m > 0 => N!Entries[m]
    <3> SUFFICES ASSUME m > 0 PROVE N!Entries[m]
      OBVIOUS
    <3>1. m \in 1..m /\ m \in 1..(m + n)
      BY <1>4
    <3>2. N!Entries[m] = b[m]
      BY <2>3, <2>4, <3>1
    <3>3. b[m] = TRUE
      BY <1>3, <1>4 DEF LastSet
    <3> QED
      BY <3>2, <3>3
  <2>6. N!Entries[m + n]
    <3>1. n \in 1..n /\ m + n \in 1..(m + n)
      BY <1>4
    <3>2. N!Entries[m + n] = e[n]
      BY <2>3, <2>4, <3>1
    <3>3. e[n] = TRUE
      BY <1>3, <1>4 DEF LastSet
    <3> QED
      BY <3>2, <3>3
  <2>7. ASSUME NEW i \in (m + 1)..(m + n - 1) PROVE ~ N!Entries[i]
    <3>1. PICK j \in 1..(n - 1) : i = m + j
      <4>1. i - m \in 1..(n - 1) /\ i = m + (i - m)
        BY <1>4
      <4> QED
        BY <4>1
    <3>2. j \in 1..n /\ m + j \in 1..(m + n)
      BY <1>4
    <3>3. N!Entries[i] = e[j]
      BY <2>3, <2>4, <3>1, <3>2
    <3>4. ~ e[j]
      BY <1>3, <1>4
    <3> QED
      BY <3>3, <3>4
  <2> QED
    BY <2>5, <2>6, <2>7
<1>6. \A i \in 1..(m + n) : is_entry[own_stack[i]] = N!Entries[i]
  <2>1. \A i \in DOMAIN own_stack : is_entry[own_stack[i]] = N!Entries[i]
    BY DEF N!LoopsKnown
  <2>2. own_left \in 0..Len(own_stack) /\ DOMAIN own_stack = 1..Len(own_stack)
    BY DEF N!TypeOK
  <2>3. \A i \in 1..(m + n) : i \in DOMAIN own_stack
    BY <1>1, <1>4, <2>2
  <2> QED
    BY <2>1, <2>3
<1> DEFINE A(i) == {j \in i..own_left : is_entry[own_stack[j]]}
<1>7. ASSUME NEW i \in 1..own_left
      PROVE  N!BeforeTheNext(i) <=> Cardinality(A(i)) <= 1
  BY SizeIs DEF N!BeforeTheNext, N!Entered
<1>8. ASSUME NEW i \in 1..own_left PROVE IsFiniteSet(A(i))
  BY <1>1, EnteredFinite
<1>9. ASSUME NEW i \in 1..own_left, i >= m + 1 PROVE A(i) \subseteq {m + n}
  <2> SUFFICES ASSUME NEW j \in i..own_left, is_entry[own_stack[j]], j # m + n PROVE FALSE
    OBVIOUS
  <2>1. j \in (m + 1)..(m + n - 1) /\ j \in 1..(m + n)
    BY <1>4, <1>9
  <2> QED
    BY <1>5, <1>6, <2>1
<1>10. ASSUME NEW i \in 1..own_left, i <= m PROVE m \in A(i) /\ m + n \in A(i)
  <2>1. m > 0 /\ m \in i..own_left /\ m + n \in i..own_left
        /\ m \in 1..(m + n) /\ m + n \in 1..(m + n)
    BY <1>4, <1>10
  <2> QED
    BY <1>5, <1>6, <2>1
<1> HIDE DEF A
<1>11. m + 1 \in 1..own_left /\ m # m + n
  BY <1>4
<1>12. N!BeforeTheNext(m + 1)
  <2>1. m + 1 >= m + 1
    BY <1>4
  <2>2. A(m + 1) \subseteq {m + n} /\ IsFiniteSet(A(m + 1))
    BY <1>8, <1>9, <1>11, <2>1
  <2>3. Cardinality(A(m + 1)) <= 1
    BY <2>2, FewElements
  <2> QED
    BY <1>7, <1>11, <2>3
<1>13. ASSUME NEW i \in 1..own_left, N!BeforeTheNext(i) PROVE i > m
  <2> SUFFICES ASSUME i <= m PROVE FALSE
    BY <1>4
  <2>1. Cardinality(A(i)) > 1
    BY <1>8, <1>10, <1>11, FewElements
  <2>2. Cardinality(A(i)) <= 1 /\ Cardinality(A(i)) \in Nat
    BY <1>7, <1>8, <1>13, FS_CardinalityType
  <2> QED
    BY <2>1, <2>2
<1>14. /\ N!LoopEnd \in 1..own_left /\ N!BeforeTheNext(N!LoopEnd)
       /\ \A j \in 1..own_left : N!BeforeTheNext(j) => N!LoopEnd <= j
  <2>1. own_left > 0 /\ version # 10
    BY <1>4
  <2> QED
    BY <2>1, LoopEndIn
<1>15. N!LoopEnd <= m + 1 /\ N!LoopEnd > m
  BY <1>11, <1>12, <1>13, <1>14
<1>16. N!LoopEnd = m + 1
  BY <1>4, <1>14, <1>15
<1> QED
  BY <1>2, <1>4, <1>16

(* Where the version or the flags tell the loops apart, or there is one    *)
(* only, its frames are taken for its own.                                 *)
LEMMA LoopEndIs ==
  ASSUME InterleavingInv, StacksRead, NEW k \in 1..Len(c_stack),
         own_stack = N!PythonStack, N!LoopsKnown,
         c_stack[k].python # <<>>, own_left = Len(UpTo(PythonOf, c_stack, k))
  PROVE  N!LoopEnd = Len(UpTo(PythonOf, c_stack, k - 1)) + 1
<1>1. N!TypeOK /\ c_stack \in Seq(CFrames) /\ c_stack \in Seq(LoopsOf(version))
  BY DEF InterleavingInv, N!TypeOK, CFrames, LoopsInv
<1>2. PICK a \in Seq(Locations), p \in Seq(Locations) :
        /\ a = UpTo(PythonOf, c_stack, k - 1) /\ p = c_stack[k].python
        /\ UpTo(PythonOf, c_stack, k) = a \o p
  BY <1>1, PythonUpTo
<1>3. Len(a) \in Nat /\ Len(p) \in Nat /\ Len(p) # 0 /\ own_left = Len(a) + Len(p)
  BY <1>2
<1>4. CASE version = 10
  <2>1. c_stack[k] \in LoopsOf(version)
    BY <1>1
  <2>2. Len(p) <= 1
    BY <1>2, <1>4, <2>1 DEF LoopsOf
  <2>3. N!LoopEnd = own_left
    BY <1>4 DEF N!LoopEnd
  <2>4. N!LoopEnd = Len(a) + 1
    BY <1>3, <2>2, <2>3
  <2> QED
    BY <1>2, <2>4
<1>5. CASE version = 11
  BY <1>1, <1>5, LoopEndByFlags
<1>6. CASE version = 12
  <2>1. a = <<>>
    <3>1. Cardinality(N!Loops) <= 1
      BY <1>6, SizeIs DEF N!LoopsKnown
    <3>2. IsFiniteSet(N!Loops)
      <4>1. N!Loops \subseteq 1..Len(c_stack) /\ Len(c_stack) \in Int
        BY <1>1 DEF N!Loops
      <4>2. IsFiniteSet(1..Len(c_stack))
        BY <4>1, FS_Interval
      <4> QED
        BY <4>1, <4>2, FS_Subset
    <3>3. k \in N!Loops
      BY <1>1 DEF N!Loops
    <3>4. ASSUME NEW j \in 1..(k - 1) PROVE c_stack[j].python = <<>>
      <4> SUFFICES ASSUME c_stack[j].python # <<>> PROVE FALSE
        OBVIOUS
      <4>1. j \in DOMAIN c_stack /\ j # k
        BY <1>1
      <4>2. j \in N!Loops
        BY <4>1 DEF N!Loops
      <4>3. Cardinality(N!Loops) > 1
        BY <3>2, <3>3, <4>1, <4>2, FewElements
      <4>4. Cardinality(N!Loops) \in Nat
        BY <3>2, FS_CardinalityType
      <4> QED
        BY <3>1, <4>3, <4>4
    <3>5. PICK q \in 0..Len(c_stack) : q = k - 1
      OBVIOUS
    <3>6. UpTo(PythonOf, c_stack, q) = <<>>
      BY <1>1, <3>4, <3>5, PythonUpToNone
    <3> QED
      BY <1>2, <3>5, <3>6
  <2>2. own_left > 0 /\ 1 \in 1..own_left
    BY <1>3
  <2>3. N!BeforeTheNext(1)
    <3> DEFINE A == {j \in 1..own_left : is_entry[own_stack[j]]}
    <3>1. A = {}
      <4>0. version # 11
        BY <1>6
      <4>1. \A l \in Locations : ~ is_entry[l]
        BY <4>0 DEF InterleavingInv, LoopsInv
      <4>2. own_stack \in Seq(Locations) /\ own_left \in 0..Len(own_stack)
        BY <1>1 DEF N!TypeOK
      <4>3. \A j \in 1..own_left : own_stack[j] \in Locations
        BY <4>2
      <4> QED
        BY <4>1, <4>3
    <3>2. Cardinality(A) = 0
      BY <3>1, FS_EmptySet
    <3>3. N!Entered(1) = Cardinality(A)
      BY SizeIs DEF N!Entered
    <3> HIDE DEF A
    <3> QED
      BY <3>2, <3>3 DEF N!BeforeTheNext
  <2>4. N!LoopEnd \in 1..own_left /\ N!LoopEnd <= 1
    <3>1. /\ N!LoopEnd \in 1..own_left
          /\ \A j \in 1..own_left : N!BeforeTheNext(j) => N!LoopEnd <= j
      BY <1>1, <1>6, <2>2, LoopEndIn
    <3> QED
      BY <2>2, <2>3, <3>1
  <2>5. N!LoopEnd = 1
    BY <1>3, <2>4
  <2>6. Len(a) = 0
    BY <2>1
  <2> QED
    BY <1>2, <2>5, <2>6
<1>7. version \in 10..12
  BY <1>1 DEF N!TypeOK
<1> QED
  BY <1>4, <1>5, <1>6, <1>7

-----------------------------------------------------------------------------
(* Every step of interleaving keeps the invariant.                         *)

(* What is left of both stacks when the invariant is used. *)
LEMMA InterleavingUse ==
  ASSUME InterleavingInv
  PROVE  /\ N!TypeOK /\ LoopsInv /\ SplitInv /\ PlaceInv
         /\ c_stack \in Seq(CFrames) /\ native_stack \in Seq(N!Native)
         /\ own_stack \in Seq(Locations) /\ interleaved_stack \in Seq(Named)
         /\ native_left \in 0..Len(native_stack) /\ own_left \in 0..Len(own_stack)
  BY DEF InterleavingInv, N!TypeOK, CFrames, Named

LEMMA UnwindStep ==
  ASSUME InterleavingInv, N!Unwind
  PROVE  InterleavingInv'
<1>1. /\ c_stack \in Seq(CFrames) /\ c_stack' = c_stack /\ version' = version
      /\ native_pc' = "interleave" /\ native_left' = Len(native_stack')
      /\ interleaved_stack' = <<>>
  BY InterleavingUse DEF N!Unwind
<1>2. N!PythonStack \in Seq(Locations)
  BY <1>1, PythonStackTyping
<1>3. PICK k \in 0..Len(N!PythonStack) :
        own_stack' = SubSeq(N!PythonStack, 1, k) /\ is_entry' = N!FlagsAfter(k) /\ own_left' = k
  <2>1. \A k \in N!Lengths(N!PythonStack) : k \in 0..Len(N!PythonStack)
    BY <1>2, InterleavingAssumption DEF N!Lengths
  <2> QED
    BY <2>1 DEF N!Unwind
<1>4. own_stack' \in Seq(Locations) /\ Len(own_stack') = k /\ k \in Nat
  <2>1. Len(N!PythonStack) \in Nat /\ k \in Nat /\ k <= Len(N!PythonStack)
        /\ \A i \in 1..Len(N!PythonStack) : N!PythonStack[i] \in Locations
    BY <1>2
  <2> QED
    BY <1>3, <2>1
<1>5. native_stack' \in Seq(N!Native)
  <2>1. N!NativeNames \in Seq(N!Native)
    BY <1>1, NamesAre
  <2>2. PICK j \in N!Lengths(N!NativeNames), nameless \in SUBSET (3..Len(N!NativeNames)) :
          native_stack' = N!FirstNames(j, nameless)
    BY DEF N!Unwind, N!NativeStacks
  <2>3. j \in Nat /\ \A i \in 1..j : N!NativeNames[i] \in N!Native
    <3>1. PICK len \in Nat : len = Len(N!NativeNames)
      BY <2>1
    <3>2. j \in Nat /\ j <= len
      BY <3>1, InterleavingAssumption DEF N!Lengths
    <3>3. \A i \in 1..len : N!NativeNames[i] \in N!Native
      BY <2>1, <3>1
    <3>4. \A i \in 1..j : i \in 1..len
      BY <3>2
    <3> QED
      BY <3>2, <3>3, <3>4
  <2>4. UNKNOWN_FRAME \in N!Native
    BY DEF N!Native
  <2> QED
    BY <2>2, <2>3, <2>4 DEF N!FirstNames
<1>6. N!TypeOK'
  <2>1. is_entry' \in [Locations -> BOOLEAN]
    BY <1>1, <1>3, FlagsTyping
  <2>2. native_left' \in 0..Len(native_stack')
    BY <1>1, <1>5
  <2>3. own_left' \in 0..Len(own_stack')
    BY <1>3, <1>4
  <2>4. version' \in 10..12 /\ c_stack' \in Seq(N!CFrame)
    BY <1>1, InterleavingUse DEF N!TypeOK
  <2>5. interleaved_stack' \in Seq(N!Native \cup Locations)
    BY <1>1
  <2> QED
    BY <1>1, <1>4, <1>5, <2>1, <2>2, <2>3, <2>4, <2>5 DEF N!TypeOK
<1>7. LoopsInv'
  <2>1. c_stack' \in Seq(LoopsOf(version))
    BY <1>1, InterleavingUse DEF LoopsInv
  <2>2. version' # 11 => \A l \in Locations : ~ is_entry'[l]
    BY <1>1, <1>3, FlagsTyping
  <2> QED
    BY <1>1, <2>1, <2>2 DEF LoopsInv
<1>8. SplitInv'
  <2>1. N!PythonFrames(<<>>) = <<>>
    <3>1. <<>> \in Seq(Locations)
      OBVIOUS
    <3> QED
      BY <3>1, PythonFramesAll
  <2>2. SubSeq(own_stack', k + 1, Len(own_stack')) = <<>>
    <3>1. k \in Int /\ k + 1 \in Int /\ k < k + 1
      BY <1>4
    <3> QED
      BY <1>4, <3>1, SubSeqEmpty
  <2> QED
    BY <1>1, <1>3, <2>1, <2>2 DEF SplitInv
<1>9. PlaceInv'
  <2> SUFFICES ASSUME N!Whole'
               PROVE  /\ native_left' >= 2
                      /\ own_left' = Len(UpTo(PythonOf, c_stack', native_left' - 2))
                      /\ UpTo(TruthOf, c_stack', native_left' - 2) \o interleaved_stack'
                           = N!Truth'
    BY <1>1 DEF PlaceInv
  <2>1. native_stack' = N!NativeNames /\ own_stack' = N!PythonStack
    <3>1. native_stack' = N!NativeNames' /\ own_stack' = N!PythonStack'
      BY DEF N!Whole
    <3> QED
      BY <1>1, <3>1 DEF N!NativeNames, N!PythonStack
  <2>2. native_left' = Len(c_stack) + 2 /\ Len(c_stack) \in Nat
    BY <1>1, <2>1, NamesAre
  <2>3. native_left' >= 2 /\ native_left' - 2 = Len(c_stack)
    BY <2>2
  <2>4. /\ UpTo(PythonOf, c_stack, Len(c_stack)) = N!PythonStack
        /\ UpTo(TruthOf, c_stack, Len(c_stack)) = N!Truth
    BY <1>1, StacksAre, OfTyping, UpToNext
  <2>5. own_left' = Len(N!PythonStack)
    BY <1>3, <1>4, <2>1
  <2>6. N!Truth \o <<>> = N!Truth
    <3>1. N!Truth \in Seq(Named)
      BY <1>1, StacksAre, OfTyping, FlatMapLast
    <3> QED
      BY <3>1
  <2>7. N!Truth' = N!Truth
    BY <1>1 DEF N!Truth
  <2> QED
    BY <1>1, <2>3, <2>4, <2>5, <2>6, <2>7
<1> QED
  BY <1>6, <1>7, <1>8, <1>9 DEF InterleavingInv

(* The next C frame from outside, where both stacks are whole. *)
LEMMA NextFrame ==
  ASSUME InterleavingInv, native_pc = "interleave", native_left > 2, N!Whole, N!LoopsKnown
  PROVE  \E k \in 1..Len(c_stack) :
           /\ k = native_left - 2 /\ k - 1 = (native_left - 1) - 2
           /\ native_stack[native_left] = c_stack[k].name
           /\ c_stack[k] \in LoopsOf(version)
           /\ own_left = Len(UpTo(PythonOf, c_stack, k))
           /\ UpTo(TruthOf, c_stack, k) \o interleaved_stack = N!Truth
           /\ UpTo(TruthOf, c_stack, k) = UpTo(TruthOf, c_stack, k - 1) \o TruthOf[c_stack[k]]
           /\ UpTo(TruthOf, c_stack, k - 1) \in Seq(Named)
<1>1. c_stack \in Seq(CFrames) /\ native_left \in 0..Len(native_stack)
      /\ Len(native_stack) = Len(c_stack) + 2 /\ Len(c_stack) \in Nat
  BY InterleavingUse, NamesAre DEF N!Whole
<1>2. PICK k \in 1..Len(c_stack) : k = native_left - 2 /\ k - 1 = (native_left - 1) - 2
                                   /\ native_left = k + 2
  <2>1. native_left - 2 \in 1..Len(c_stack)
        /\ (native_left - 2) - 1 = (native_left - 1) - 2
        /\ native_left = (native_left - 2) + 2
    BY <1>1
  <2> QED
    BY <2>1
<1>3. native_stack[native_left] = c_stack[k].name
  BY <1>1, <1>2, NamesAre DEF N!Whole
<1>4. c_stack[k] \in LoopsOf(version)
  BY InterleavingUse DEF LoopsInv
<1>5. /\ own_left = Len(UpTo(PythonOf, c_stack, k))
      /\ UpTo(TruthOf, c_stack, k) \o interleaved_stack = N!Truth
  BY <1>2, InterleavingUse DEF PlaceInv
<1>6. Extends(TruthOf, c_stack, k) /\ UpTo(TruthOf, c_stack, k - 1) \in Seq(Named)
  <2>1. k - 1 \in 0..Len(c_stack)
    BY <1>1
  <2> QED
    BY <1>1, <2>1, OfTyping, UpToNext
<1> QED
  BY <1>2, <1>3, <1>4, <1>5, <1>6 DEF Extends

(* A native frame is put in its place. *)
LEMMA PushNativeStep ==
  ASSUME InterleavingInv, N!PushNative
  PROVE  InterleavingInv'
<1> DEFINE x == native_stack[native_left]
<1>1. /\ native_pc = "interleave" /\ native_left > 2 /\ native_left' = native_left - 1
      /\ interleaved_stack' = <<x>> \o interleaved_stack
      /\ UNCHANGED <<version, c_stack, native_pc, native_stack, own_stack, is_entry, own_left>>
      /\ x # PyEval_EvalFrameDefault \/ own_left = 0
  BY DEF N!PushNative, N!NextIs
<1>2. x \in N!Native /\ x \in Named /\ x \notin Locations
  <2>1. native_left \in 1..Len(native_stack)
    BY <1>1, InterleavingUse
  <2>2. x \in N!Native
    BY <2>1, InterleavingUse
  <2> QED
    BY <2>2, InterleavingAssumption DEF Named
<1>3. interleaved_stack' \in Seq(Named)
  BY <1>1, <1>2, InterleavingUse
<1>4. N!TypeOK'
  <2>1. native_left' \in 0..Len(native_stack)
    BY <1>1, InterleavingUse
  <2> QED
    BY <1>1, <1>3, <2>1, InterleavingUse DEF N!TypeOK, Named
<1>5. LoopsInv'
  BY <1>1, InterleavingUse DEF LoopsInv, StacksRead
<1>6. SplitInv'
  <2>1. <<x>> \in Seq(Named) /\ interleaved_stack \in Seq(Named)
    BY <1>2, InterleavingUse
  <2>2. N!PythonFrames(<<x>> \o interleaved_stack)
          = N!PythonFrames(<<x>>) \o N!PythonFrames(interleaved_stack)
    BY <2>1, PythonFramesConcat
  <2>3. N!PythonFrames(<<x>>) = <<>>
    BY <1>2, PythonFramesOne
  <2>4. N!PythonFrames(interleaved_stack) = SubSeq(own_stack, own_left + 1, Len(own_stack))
    BY <1>1, InterleavingUse DEF SplitInv, StacksRead
  <2>5. SubSeq(own_stack, own_left + 1, Len(own_stack)) \in Seq(Locations)
    <3>1. PICK a \in Nat, b \in Nat : a = own_left + 1 /\ b = Len(own_stack) /\ a > 0
      BY InterleavingUse
    <3>2. \A i \in a..b : own_stack[i] \in Locations
      BY <3>1, InterleavingUse
    <3> QED
      BY <3>1, <3>2, SubSeqProperties
  <2>6. N!PythonFrames(interleaved_stack')
          = SubSeq(own_stack, own_left + 1, Len(own_stack))
    <3>1. \A s \in Seq(Locations) : <<>> \o s = s
      OBVIOUS
    <3> QED
      BY <1>1, <2>2, <2>3, <2>4, <2>5, <3>1
  <2> HIDE DEF x
  <2> QED
    BY <1>1, <2>6 DEF SplitInv
<1>7. PlaceInv'
  <2> SUFFICES ASSUME N!Whole', N!LoopsKnown'
               PROVE  /\ native_left' >= 2
                      /\ own_left' = Len(UpTo(PythonOf, c_stack', native_left' - 2))
                      /\ UpTo(TruthOf, c_stack', native_left' - 2) \o interleaved_stack'
                           = N!Truth'
    BY <1>1 DEF PlaceInv
  <2>1. N!Whole /\ N!LoopsKnown
    BY <1>1 DEF N!Whole, N!LoopsKnown, N!NativeNames, N!PythonStack, N!Entries, N!Loops
  <2>2. PICK k \in 1..Len(c_stack) :
           /\ k = native_left - 2 /\ k - 1 = (native_left - 1) - 2
           /\ x = c_stack[k].name /\ c_stack[k] \in LoopsOf(version)
           /\ own_left = Len(UpTo(PythonOf, c_stack, k))
           /\ UpTo(TruthOf, c_stack, k) \o interleaved_stack = N!Truth
           /\ UpTo(TruthOf, c_stack, k) = UpTo(TruthOf, c_stack, k - 1) \o TruthOf[c_stack[k]]
           /\ UpTo(TruthOf, c_stack, k - 1) \in Seq(Named)
    BY <1>1, <2>1, NextFrame
  <2> HIDE DEF x
  <2>3. PICK a \in Seq(Locations), p \in Seq(Locations) :
          /\ a = UpTo(PythonOf, c_stack, k - 1) /\ p = c_stack[k].python
          /\ UpTo(PythonOf, c_stack, k) = a \o p
    BY InterleavingUse, PythonUpTo
  <2>4. p = <<>>
    <3> SUFFICES ASSUME p # <<>> PROVE FALSE
      OBVIOUS
    <3>1. own_left = 0
      BY <1>1, <2>2, <2>3 DEF LoopsOf
    <3>2. Len(a \o p) = Len(a) + Len(p) /\ Len(p) > 0 /\ Len(a) \in Nat
      <4>1. Len(a) \in Nat /\ Len(p) \in Nat /\ Len(p) # 0
        OBVIOUS
      <4>2. Len(a \o p) = Len(a) + Len(p)
        OBVIOUS
      <4> QED
        BY <4>1, <4>2
    <3>3. Len(a \o p) = 0
      BY <2>2, <2>3, <3>1
    <3> QED
      BY <3>2, <3>3
  <2>5. own_left = Len(a)
    <3>1. a \o <<>> = a
      OBVIOUS
    <3> QED
      BY <2>2, <2>3, <2>4, <3>1
  <2>6. TruthOf[c_stack[k]] = <<x>>
    <3>1. c_stack[k] \in CFrames
      BY <2>2 DEF LoopsOf
    <3> QED
      BY <2>2, <2>3, <2>4, <3>1 DEF TruthOf
  <2>7. UpTo(TruthOf, c_stack, k - 1) \o (<<x>> \o interleaved_stack) = N!Truth
    <3>1. <<x>> \in Seq(Named) /\ interleaved_stack \in Seq(Named)
      BY <1>2, InterleavingUse
    <3>2. PICK u \in Seq(Named) : u = UpTo(TruthOf, c_stack, k - 1)
      BY <2>2
    <3>3. PICK i \in Seq(Named) : i = interleaved_stack
      BY <3>1
    <3>4. (u \o <<x>>) \o i = u \o (<<x>> \o i)
      BY SMTT(30), <3>1, ConcatAssociative
    <3> QED
      BY <2>2, <2>6, <3>2, <3>3, <3>4
  <2>8. N!Truth' = N!Truth
    BY <1>1 DEF N!Truth
  <2>9. native_left' >= 2 /\ native_left' - 2 = k - 1
    BY <1>1, <2>2, InterleavingUse
  <2> QED
    BY <1>1, <2>3, <2>5, <2>7, <2>8, <2>9
<1> QED
  BY <1>4, <1>5, <1>6, <1>7 DEF InterleavingInv

(* What a part of the Python stack is made of. *)
LEMMA PartTyping ==
  ASSUME NEW s \in Seq(Locations), NEW a \in Nat \ {0}, NEW b \in Nat, b <= Len(s)
  PROVE  SubSeq(s, a, b) \in Seq(Locations)
<1>1. \A i \in a..b : s[i] \in Locations
  OBVIOUS
<1> QED
  BY <1>1, SubSeqProperties

(* The frames from the i-th to the p-th, before those after it.            *)
LEMMA PartsJoin ==
  ASSUME NEW s \in Seq(Locations), NEW i \in Nat \ {0}, NEW p \in Nat,
         i <= p + 1, p <= Len(s), NEW t \in Seq(Named),
         N!PythonFrames(t) = SubSeq(s, p + 1, Len(s))
  PROVE  /\ SubSeq(s, i, p) \o t \in Seq(Named)
         /\ N!PythonFrames(SubSeq(s, i, p) \o t) = SubSeq(s, i, Len(s))
<1>1. PICK u \in Seq(Locations) : u = SubSeq(s, i, p)
  BY PartTyping
<1>2. u \in Seq(Named)
  BY DEF Named
<1>3. N!PythonFrames(u \o t) = N!PythonFrames(u) \o N!PythonFrames(t)
  BY <1>2, PythonFramesConcat
<1>4. N!PythonFrames(u) = u
  BY PythonFramesAll
<1>5. u \o SubSeq(s, p + 1, Len(s)) = SubSeq(s, i, Len(s))
  <2>1. \A m \in 1..(Len(s) + 1) : \A k \in (m - 1)..Len(s) : \A n \in k..Len(s) :
          SubSeq(s, m, k) \o SubSeq(s, k + 1, n) = SubSeq(s, m, n)
    BY ConcatAdjacentSubSeq
  <2>2. i \in 1..(Len(s) + 1) /\ p \in (i - 1)..Len(s) /\ Len(s) \in p..Len(s)
    OBVIOUS
  <2> QED
    BY <1>1, <2>1, <2>2
<1>6. u \o t \in Seq(Named)
  BY <1>2
<1> QED
  BY <1>1, <1>3, <1>4, <1>5, <1>6

(* Python frames are put in the place of their loop. *)
LEMMA PushPythonStep ==
  ASSUME InterleavingInv, N!PushPython
  PROVE  InterleavingInv'
<1>1. /\ native_pc = "interleave" /\ native_left > 2 /\ native_left' = native_left - 1
      /\ own_left > 0 /\ own_left' = N!LoopEnd - 1
      /\ native_stack[native_left] = PyEval_EvalFrameDefault
      /\ interleaved_stack' = SubSeq(own_stack, N!LoopEnd, own_left) \o interleaved_stack
      /\ UNCHANGED <<version, c_stack, native_pc, native_stack, own_stack, is_entry>>
  BY DEF N!PushPython, N!NextIs
<1>2. PICK e \in Nat \ {0}, p \in Nat : e = N!LoopEnd /\ p = own_left /\ e <= p /\ p <= Len(own_stack)
  <2>1. N!LoopEnd \in 1..own_left
    BY <1>1, InterleavingUse, LoopEndIn
  <2>2. own_left \in 0..Len(own_stack) /\ Len(own_stack) \in Nat
    BY InterleavingUse
  <2> QED
    BY <2>1, <2>2
<1>3. /\ interleaved_stack' \in Seq(Named)
      /\ N!PythonFrames(interleaved_stack') = SubSeq(own_stack, e, Len(own_stack))
  <2>1. N!PythonFrames(interleaved_stack) = SubSeq(own_stack, p + 1, Len(own_stack))
    BY <1>1, <1>2, InterleavingUse DEF SplitInv, StacksRead
  <2>2. e <= p + 1
    BY <1>2
  <2>3. PICK t \in Seq(Named), s \in Seq(Locations) :
          t = interleaved_stack /\ s = own_stack
    BY InterleavingUse
  <2>4. /\ SubSeq(s, e, p) \o t \in Seq(Named)
        /\ N!PythonFrames(SubSeq(s, e, p) \o t) = SubSeq(s, e, Len(s))
    BY <1>2, <2>1, <2>2, <2>3, PartsJoin
  <2> QED
    BY <1>1, <1>2, <2>3, <2>4
<1>4. N!TypeOK'
  <2>1. native_left' \in 0..Len(native_stack)
    BY <1>1, InterleavingUse
  <2>2. own_left' \in 0..Len(own_stack)
    BY <1>1, <1>2, InterleavingUse
  <2> QED
    BY <1>1, <1>3, <2>1, <2>2, InterleavingUse DEF N!TypeOK, Named
<1>5. LoopsInv'
  BY <1>1, InterleavingUse DEF LoopsInv, StacksRead
<1>6. SplitInv'
  <2>1. own_left' + 1 = e
    BY <1>1, <1>2
  <2> QED
    BY <1>1, <1>3, <2>1 DEF SplitInv
<1>7. PlaceInv'
  <2> SUFFICES ASSUME N!Whole', N!LoopsKnown'
               PROVE  /\ native_left' >= 2
                      /\ own_left' = Len(UpTo(PythonOf, c_stack', native_left' - 2))
                      /\ UpTo(TruthOf, c_stack', native_left' - 2) \o interleaved_stack'
                           = N!Truth'
    BY <1>1 DEF PlaceInv
  <2>1. N!Whole /\ N!LoopsKnown
    BY <1>1 DEF N!Whole, N!LoopsKnown, N!NativeNames, N!PythonStack, N!Entries, N!Loops
  <2>2. PICK k \in 1..Len(c_stack) :
           /\ k = native_left - 2 /\ k - 1 = (native_left - 1) - 2
           /\ native_stack[native_left] = c_stack[k].name
           /\ c_stack[k] \in LoopsOf(version)
           /\ own_left = Len(UpTo(PythonOf, c_stack, k))
           /\ UpTo(TruthOf, c_stack, k) \o interleaved_stack = N!Truth
           /\ UpTo(TruthOf, c_stack, k) = UpTo(TruthOf, c_stack, k - 1) \o TruthOf[c_stack[k]]
           /\ UpTo(TruthOf, c_stack, k - 1) \in Seq(Named)
    BY <1>1, <2>1, NextFrame
  <2>3. PICK a \in Seq(Locations), q \in Seq(Locations), rest \in Seq(Locations) :
          /\ a = UpTo(PythonOf, c_stack, k - 1) /\ q = c_stack[k].python
          /\ UpTo(PythonOf, c_stack, k) = a \o q
          /\ own_stack = (a \o q) \o rest
    <3>1. own_stack = N!PythonStack
      BY <2>1 DEF N!Whole
    <3>2. \E a, b, rest \in Seq(Locations) :
             /\ a = UpTo(PythonOf, c_stack, k - 1)
             /\ b = c_stack[k].python
             /\ UpTo(PythonOf, c_stack, k) = a \o b
             /\ N!PythonStack = (a \o b) \o rest
      BY InterleavingUse, PythonUpTo
    <3> QED
      BY <3>1, <3>2, Zenon
  <2>4. q # <<>>
    BY <1>1, <2>2, <2>3 DEF LoopsOf
  <2>5. e = Len(a) + 1
    <3>1. StacksRead /\ own_stack = N!PythonStack
      BY <1>1, <2>1 DEF StacksRead, N!Whole
    <3>2. N!LoopEnd = Len(UpTo(PythonOf, c_stack, k - 1)) + 1
      BY <2>1, <2>2, <2>3, <2>4, <3>1, LoopEndIs
    <3> QED
      BY <1>2, <2>3, <3>2
  <2>6. p = Len(a) + Len(q) /\ Len(a) \in Nat /\ Len(q) \in Nat
    <3>1. Len(a \o q) = Len(a) + Len(q) /\ Len(a) \in Nat /\ Len(q) \in Nat
      OBVIOUS
    <3>2. p = Len(a \o q)
      BY <1>2, <2>2, <2>3
    <3> QED
      BY <3>1, <3>2
  <2>7. SubSeq(own_stack, e, p) = q
    <3>1. a \o q \in Seq(Locations) /\ Len(a \o q) = p
      BY <2>6
    <3>2. \A i \in 1..Len(q) : own_stack[e + i - 1] = q[i]
      <4>1. Follows(a \o q, rest) /\ Follows(a, q)
        BY <3>1, ConcatIndex
      <4> SUFFICES ASSUME NEW i \in 1..Len(q) PROVE own_stack[e + i - 1] = q[i]
        OBVIOUS
      <4>2. e + i - 1 = Len(a) + i /\ Len(a) + i \in 1..p
        BY <2>5, <2>6
      <4>3. (a \o q)[Len(a) + i] = q[i]
        BY <4>1 DEF Follows
      <4>4. ((a \o q) \o rest)[Len(a) + i] = (a \o q)[Len(a) + i]
        BY <3>1, <4>1, <4>2 DEF Follows
      <4> QED
        BY <2>3, <4>2, <4>3, <4>4
    <3>3. PICK s \in Seq(Locations) : s = SubSeq(own_stack, e, p)
      BY <1>2, InterleavingUse, PartTyping
    <3>4. /\ Len(s) = Len(q)
          /\ \A i \in 1..Len(q) : s[i] = own_stack[e + i - 1]
      <4>1. \A i \in e..p : own_stack[i] \in Locations
        BY <1>2, InterleavingUse
      <4>2. /\ Len(s) = IF e <= p THEN p - e + 1 ELSE 0
            /\ \A i \in 1..(p - e + 1) : s[i] = own_stack[e + i - 1]
        BY <3>3, <4>1, SubSeqProperties
      <4>3. p - e + 1 = Len(q)
        BY <2>5, <2>6
      <4> QED
        BY <1>2, <4>2, <4>3
    <3> QED
      BY <3>2, <3>3, <3>4
  <2>8. TruthOf[c_stack[k]] = q
    <3>1. c_stack[k] \in CFrames
      BY <2>2 DEF LoopsOf
    <3> QED
      BY <2>3, <2>4, <3>1 DEF TruthOf
  <2>9. UpTo(TruthOf, c_stack, k - 1) \o (q \o interleaved_stack) = N!Truth
    <3>1. PICK u \in Seq(Named), i \in Seq(Named), r \in Seq(Named) :
            u = UpTo(TruthOf, c_stack, k - 1) /\ i = interleaved_stack /\ r = q
      <4>1. q \in Seq(Named)
        BY DEF Named
      <4> QED
        BY <2>2, <4>1, InterleavingUse
    <3>2. (u \o r) \o i = u \o (r \o i)
      BY SMTT(30), ConcatAssociative
    <3> QED
      BY <2>2, <2>8, <3>1, <3>2
  <2>10. N!Truth' = N!Truth
    BY <1>1 DEF N!Truth
  <2>11. native_left' >= 2 /\ native_left' - 2 = k - 1
    BY <1>1, <2>2, InterleavingUse
  <2>12. own_left' = Len(a)
    BY <1>1, <1>2, <2>5, <2>6
  <2> QED
    BY <1>1, <1>2, <2>3, <2>7, <2>9, <2>10, <2>11, <2>12
<1> QED
  BY <1>4, <1>5, <1>6, <1>7 DEF InterleavingInv

(* The frames that are left come first. *)
LEMMA PushRestStep ==
  ASSUME InterleavingInv, N!PushRest
  PROVE  InterleavingInv'
<1>1. /\ native_pc = "interleave" /\ native_left = 2 /\ native_pc' = "done" /\ own_left' = 0
      /\ interleaved_stack' = SubSeq(own_stack, 1, own_left) \o interleaved_stack
      /\ UNCHANGED <<version, c_stack, native_stack, own_stack, is_entry, native_left>>
  BY DEF N!PushRest
<1>2. PICK p \in Nat : p = own_left /\ p <= Len(own_stack)
  BY InterleavingUse
<1>3. /\ interleaved_stack' \in Seq(Named)
      /\ N!PythonFrames(interleaved_stack') = SubSeq(own_stack, 1, Len(own_stack))
  <2>1. N!PythonFrames(interleaved_stack) = SubSeq(own_stack, p + 1, Len(own_stack))
    BY <1>1, <1>2, InterleavingUse DEF SplitInv, StacksRead
  <2>2. PICK t \in Seq(Named), s \in Seq(Locations), e \in Nat \ {0} :
          t = interleaved_stack /\ s = own_stack /\ e = 1 /\ e <= p + 1
    BY InterleavingUse
  <2>3. /\ SubSeq(s, e, p) \o t \in Seq(Named)
        /\ N!PythonFrames(SubSeq(s, e, p) \o t) = SubSeq(s, e, Len(s))
    BY <1>2, <2>1, <2>2, PartsJoin
  <2> QED
    BY <1>1, <1>2, <2>2, <2>3
<1>4. N!TypeOK'
  <2>1. own_left' \in 0..Len(own_stack)
    BY <1>1, <1>2, InterleavingUse
  <2> QED
    BY <1>1, <1>3, <2>1, InterleavingUse DEF N!TypeOK, Named
<1>5. LoopsInv'
  BY <1>1, InterleavingUse DEF LoopsInv, StacksRead
<1>6. SplitInv'
  <2>1. own_left' + 1 = 1
    BY <1>1
  <2> QED
    BY <1>1, <1>3, <2>1 DEF SplitInv
<1>7. PlaceInv'
  <2> SUFFICES ASSUME N!Whole', N!LoopsKnown' PROVE interleaved_stack' = N!Truth'
    BY <1>1 DEF PlaceInv
  <2>1. N!Whole /\ N!LoopsKnown
    BY <1>1 DEF N!Whole, N!LoopsKnown, N!NativeNames, N!PythonStack, N!Entries, N!Loops
  <2>2. /\ own_left = Len(UpTo(PythonOf, c_stack, 0))
        /\ UpTo(TruthOf, c_stack, 0) \o interleaved_stack = N!Truth
    <3>1. native_left - 2 = 0
      BY <1>1
    <3> QED
      BY <1>1, <2>1, <3>1, InterleavingUse DEF PlaceInv
  <2>3. UpTo(PythonOf, c_stack, 0) = <<>> /\ UpTo(TruthOf, c_stack, 0) = <<>>
    BY InterleavingUse, OfTyping, UpToNext
  <2>4. own_left = 0
    BY <2>2, <2>3
  <2>5. SubSeq(own_stack, 1, own_left) = <<>>
    <3>1. SubSeq(own_stack, 1, 0) = <<>>
      BY InterleavingUse, SubSeqEmpty
    <3> QED
      BY <2>4, <3>1
  <2>6. N!Truth' = N!Truth
    BY <1>1 DEF N!Truth
  <2> QED
    BY <1>1, <2>2, <2>3, <2>5, <2>6
<1> QED
  BY <1>4, <1>5, <1>6, <1>7 DEF InterleavingInv

LEMMA LeavingSteps ==
  ASSUME InterleavingInv, N!Overrun \/ N!Rendered
  PROVE  InterleavingInv'
<1>1. CASE N!Overrun
  <2>1. /\ native_pc' = "undefined"
        /\ UNCHANGED <<version, c_stack, native_stack, own_stack, is_entry, interleaved_stack,
                       native_left, own_left>>
    BY <1>1 DEF N!Overrun
  <2>2. N!TypeOK'
    BY <2>1, InterleavingUse DEF N!TypeOK
  <2> QED
    BY <2>1, <2>2, InterleavingUse
    DEF InterleavingInv, LoopsInv, SplitInv, PlaceInv, StacksRead
<1>2. CASE N!Rendered
  <2>1. /\ native_pc' = "run" /\ native_left' = 0 /\ own_left' = 0
        /\ native_stack' = <<>> /\ own_stack' = <<>> /\ interleaved_stack' = <<>>
        /\ is_entry' = [l \in Locations |-> FALSE]
        /\ UNCHANGED <<version, c_stack>>
    BY <1>2 DEF N!Rendered
  <2>2. N!TypeOK'
    BY <2>1, InterleavingUse DEF N!TypeOK
  <2> QED
    BY <2>1, <2>2, InterleavingUse
    DEF InterleavingInv, LoopsInv, SplitInv, PlaceInv, StacksRead
<1> QED
  BY <1>1, <1>2

LEMMA InterleavingStep ==
  ASSUME InterleavingInv, [N!Next]_native_vars
  PROVE  InterleavingInv'
<1>1. CASE N!Next
  BY <1>1, ThreadSteps, UnwindStep, PushNativeStep, PushPythonStep, PushRestStep, LeavingSteps
  DEF N!Next
<1>2. CASE UNCHANGED native_vars
  BY <1>2 DEF native_vars, InterleavingInv, N!TypeOK, LoopsInv, SplitInv, PlaceInv, StacksRead,
              N!Whole, N!LoopsKnown, N!NativeNames, N!PythonStack, N!Entries, N!Loops, N!Truth
<1> QED
  BY <1>1, <1>2

LEMMA InterleavingSafe ==
  ASSUME InterleavingInv
  PROVE  Interleaved
<1> SUFFICES ASSUME native_pc = "done"
             PROVE  /\ N!PythonFrames(interleaved_stack) = own_stack
                    /\ N!Whole /\ N!LoopsKnown => interleaved_stack = N!Truth
  BY DEF Interleaved, N!Interleaved
<1>1. N!PythonFrames(interleaved_stack) = SubSeq(own_stack, 1, Len(own_stack))
  <2>1. own_left = 0 /\ own_left + 1 = 1
    BY InterleavingUse DEF SplitInv
  <2> QED
    BY <2>1, InterleavingUse DEF SplitInv, StacksRead
<1>2. SubSeq(own_stack, 1, Len(own_stack)) = own_stack
  BY InterleavingUse, SubSeqFull
<1> QED
  BY <1>1, <1>2, InterleavingUse DEF PlaceInv

(* The inductive invariant of Interleaving: what is left of the two stacks *)
(* belongs together, and the frames so far are those of what has been      *)
(* taken from them.                                                        *)
THEOREM InterleavingInvariant == MCSpec => []InterleavingInv
<1>1. MCInit => InterleavingInv
  BY StackStart DEF MCInit
<1>2. InterleavingInv /\ [MCNext]_<<part, vars, chunk_vars, native_vars, line_vars, number_vars>>
        => InterleavingInv'
  <2> SUFFICES ASSUME InterleavingInv,
                      [MCNext]_<<part, vars, chunk_vars, native_vars, line_vars, number_vars>>
               PROVE  InterleavingInv'
    OBVIOUS
  <2>1. [N!Next]_native_vars
    BY DEF MCNext, Others
  <2> QED
    BY <2>1, InterleavingStep
<1> QED
  BY <1>1, <1>2, PTL DEF MCSpec

(* interleave_stacks (stacks.h:260-320) puts every Python frame in the     *)
(* place of the interpreter loop that executes it, once and in order.      *)
THEOREM MCSpecInterleaved == MCSpec => []Interleaved
<1>1. InterleavingInv => Interleaved
  BY InterleavingSafe
<1> QED
  BY <1>1, InterleavingInvariant, PTL

-----------------------------------------------------------------------------
(* What a sample is made of is well typed: copied chunks, native frames    *)
(* and Python ones (stacks.h), line tables (frame.cc), numbers (render.h   *)
(* and long.h).                                                            *)
THEOREM MCSpecTypes == MCSpec => []TypesOK
<1>1. ChunksInv /\ InterleavingInv
      /\ L!TypeOK /\ L!LinesRight /\ D!TypeOK /\ D!NumbersKept => TypesOK
  BY DEF ChunksInv, InterleavingInv, TypesOK
<1> QED
  BY <1>1, ChunksInvariant, InterleavingInvariant, MCSpecLines, MCSpecNumbers, PTL
=============================================================================

------------------------ MODULE DiagnosticLogProofs ------------------------
(***************************************************************************)
(* Proofs about DiagnosticLog for every size of the ring and of the batch  *)
(* and every number of appends and resets.                                 *)
(*                                                                         *)
(* The work is in the lemmas about Contents, the ring read from its oldest *)
(* entry: what an append, a removal and a load() make of it, wherever the  *)
(* ring starts.  With them the invariants follow without a %.              *)
(***************************************************************************)
EXTENDS DiagnosticLog, TLAPS

-----------------------------------------------------------------------------
(* The ring *)

\* % of an index that has wrapped around at most once.
LEMMA WrapOnce ==
    ASSUME NEW N \in Nat \ {0}, NEW x \in 0 .. 2 * N - 1
    PROVE  x % N = IF x < N THEN x ELSE x - N
<1>1. CASE x < N
  BY <1>1, SMT
<1>2. CASE x >= N
  <2> DEFINE q == x \div N
             r == x % N
  <2>1. r \in 0 .. N - 1
    BY SMT
  <2>2. q \in Int /\ x = (N * q) + r
    BY Z3
  <2> HIDE DEF q, r
  <2>3. CASE q <= 0
    <3>1. N * q <= 0
      BY <2>2, <2>3, Z3
    <3>2. N * q \in Int
      BY <2>2
    <3>3. QED
      BY <1>2, <2>1, <2>2, <3>1, <3>2
  <2>4. CASE q >= 2
    <3>1. N * q >= 2 * N
      BY <2>2, <2>4, Z3
    <3>2. N * q \in Int
      BY <2>2
    <3>3. QED
      BY <2>1, <2>2, <3>1, <3>2
  <2>5. CASE q = 1
    BY <1>2, <2>1, <2>2, <2>5 DEF r
  <2>6. QED
    BY <2>2, <2>3, <2>4, <2>5
<1>3. QED
  BY <1>1, <1>2

\* Position without a %: the ring wraps around at most once.
LEMMA PositionIs ==
    ASSUME NEW h \in 0 .. MaxEntries, NEW c \in 0 .. MaxEntries, NEW i \in 1 .. c
    PROVE  /\ Position(h, c, i) = IF h - c + i - 1 < 0 THEN h - c + i - 1 + MaxEntries
                                  ELSE IF h - c + i - 1 < MaxEntries THEN h - c + i - 1
                                  ELSE h - c + i - 1 - MaxEntries
           /\ Position(h, c, i) \in Slot
<1> DEFINE x == h + MaxEntries - c + (i - 1)
<1>1. MaxEntries \in Nat \ {0}
  BY LogAssumption
<1>2. x \in 0 .. 2 * MaxEntries - 1
  BY <1>1
<1>3. x % MaxEntries = IF x < MaxEntries THEN x ELSE x - MaxEntries
  <2> HIDE DEF x
  <2>1. QED
    BY <1>1, <1>2, WrapOnce
<1>4. QED
  BY <1>1, <1>2, <1>3 DEF Position, Slot

\* The next head_.
LEMMA NextHead ==
    ASSUME NEW h \in Slot
    PROVE  (h + 1) % MaxEntries = IF h + 1 = MaxEntries THEN 0 ELSE h + 1
<1> DEFINE x == h + 1
<1>1. x \in 0 .. 2 * MaxEntries - 1 /\ MaxEntries \in Nat \ {0} /\ x <= MaxEntries
  BY LogAssumption DEF Slot
<1> HIDE DEF x
<1>2. x % MaxEntries = IF x < MaxEntries THEN x ELSE x - MaxEntries
  BY <1>1, WrapOnce
<1>3. x % MaxEntries = IF x = MaxEntries THEN 0 ELSE x
  BY <1>1, <1>2
<1>4. QED
  BY <1>3 DEF x

\* Position has two cases, between 0 and 2 * MaxEntries - 1.
Wrapped(x) == IF x < MaxEntries THEN x ELSE x - MaxEntries

LEMMA PositionWraps ==
    ASSUME NEW h \in 0 .. MaxEntries, NEW c \in 0 .. MaxEntries, NEW i \in 1 .. c
    PROVE  Position(h, c, i) = Wrapped(h + MaxEntries - c + (i - 1))
  BY PositionIs, LogAssumption DEF Wrapped

\* Below a ring that has grown by one entry, the others are where they were.
LEMMA PositionGrown ==
    ASSUME NEW h \in Slot, NEW c \in 0 .. MaxEntries - 1, NEW i \in 1 .. c
    PROVE  /\ Position((h + 1) % MaxEntries, c + 1, i) = Position(h, c, i)
           /\ Position(h, c, i) \in Slot \ {h}
<1> DEFINE g == (h + 1) % MaxEntries
<1>1. MaxEntries \in Nat \ {0} /\ h \in 0 .. MaxEntries - 1
  BY LogAssumption DEF Slot
<1>2. g = IF h + 1 = MaxEntries THEN 0 ELSE h + 1
  BY NextHead
<1> HIDE DEF g
<1>3. g \in 0 .. MaxEntries /\ h \in 0 .. MaxEntries /\ c \in 0 .. MaxEntries
      /\ c + 1 \in 0 .. MaxEntries /\ i \in 1 .. c + 1
  BY <1>1, <1>2
<1>4. Position(g, c + 1, i) = Wrapped(g + MaxEntries - (c + 1) + (i - 1))
  BY <1>3, PositionWraps
<1>5. Position(h, c, i) = Wrapped(h + MaxEntries - c + (i - 1))
  BY <1>3, PositionWraps
<1>6. QED
  BY <1>1, <1>2, <1>4, <1>5 DEF Wrapped, Slot, g

\* The newest entry is before head_.
LEMMA PositionNewest ==
    ASSUME NEW h \in Slot, NEW c \in 1 .. MaxEntries
    PROVE  Position((h + 1) % MaxEntries, c, c) = h
<1> DEFINE g == (h + 1) % MaxEntries
<1>1. MaxEntries \in Nat \ {0} /\ h \in 0 .. MaxEntries - 1
  BY LogAssumption DEF Slot
<1>2. g = IF h + 1 = MaxEntries THEN 0 ELSE h + 1
  BY NextHead
<1> HIDE DEF g
<1>3. g \in 0 .. MaxEntries /\ c \in 0 .. MaxEntries /\ c \in 1 .. c
  BY <1>1, <1>2
<1>4. Position(g, c, c) = Wrapped(g + MaxEntries - c + (c - 1))
  BY <1>3, PositionWraps
<1>5. QED
  BY <1>1, <1>2, <1>4 DEF Wrapped, g

\* In a full ring the oldest entry is at head_, and after an append each entry is
\* where the next one was.
LEMMA PositionFull ==
    ASSUME NEW h \in Slot, NEW i \in 1 .. MaxEntries - 1
    PROVE  /\ Position((h + 1) % MaxEntries, MaxEntries, i)
                  = Position(h, MaxEntries, i + 1)
           /\ Position(h, MaxEntries, i + 1) \in Slot \ {h}
<1> DEFINE g == (h + 1) % MaxEntries
<1>1. MaxEntries \in Nat \ {0} /\ h \in 0 .. MaxEntries - 1
  BY LogAssumption DEF Slot
<1>2. g = IF h + 1 = MaxEntries THEN 0 ELSE h + 1
  BY NextHead
<1> HIDE DEF g
<1>3. g \in 0 .. MaxEntries /\ h \in 0 .. MaxEntries /\ MaxEntries \in 0 .. MaxEntries
      /\ i \in 1 .. MaxEntries /\ i + 1 \in 1 .. MaxEntries
  BY <1>1, <1>2
<1>4. Position(g, MaxEntries, i) = Wrapped(g + MaxEntries - MaxEntries + (i - 1))
  BY <1>3, PositionWraps
<1>5. Position(h, MaxEntries, i + 1) = Wrapped(h + MaxEntries - MaxEntries + ((i + 1) - 1))
  BY <1>3, PositionWraps
<1>6. QED
  BY <1>1, <1>2, <1>4, <1>5 DEF Wrapped, Slot, g

LEMMA PositionOldest ==
    ASSUME NEW h \in Slot
    PROVE  Position(h, MaxEntries, 1) = h
<1>1. MaxEntries \in Nat \ {0} /\ h \in 0 .. MaxEntries - 1
  BY LogAssumption DEF Slot
<1>2. Position(h, MaxEntries, 1) = Wrapped(h + MaxEntries - MaxEntries + (1 - 1))
  BY <1>1, PositionWraps
<1>3. QED
  BY <1>1, <1>2 DEF Wrapped

\* Without the n oldest entries, each one is where the n-th after it was.
LEMMA PositionShrunk ==
    ASSUME NEW h \in 0 .. MaxEntries, NEW c \in 0 .. MaxEntries,
           NEW n \in 1 .. c, NEW i \in 1 .. c - n
    PROVE  Position(h, c - n, i) = Position(h, c, i + n)
<1>1. MaxEntries \in Nat \ {0} /\ c - n \in 0 .. MaxEntries /\ i + n \in 1 .. c
  BY LogAssumption
<1>2. Position(h, c - n, i) = Wrapped(h + MaxEntries - (c - n) + (i - 1))
  BY <1>1, PositionWraps
<1>3. Position(h, c, i + n) = Wrapped(h + MaxEntries - c + ((i + n) - 1))
  BY <1>1, PositionWraps
<1>4. h + MaxEntries - (c - n) + (i - 1) = h + MaxEntries - c + ((i + n) - 1)
  BY <1>1
<1>5. QED
  BY <1>2, <1>3, <1>4

Ring == entries \in [Slot -> Entry] /\ head \in 0 .. MaxEntries /\ count \in 0 .. MaxEntries

\* getEntry() reads count_ entries.
LEMMA WindowType ==
    ASSUME NEW e \in [Slot -> Entry], NEW h \in 0 .. MaxEntries,
           NEW c \in 0 .. MaxEntries
    PROVE  /\ Window(e, h, c) \in [1 .. c -> Entry]
           /\ Window(e, h, c) \in Seq(Entry) /\ Len(Window(e, h, c)) = c
<1>1. \A i \in 1 .. c : e[Position(h, c, i)] \in Entry
  BY PositionIs
<1>2. c \in Nat
  OBVIOUS
<1> DEFINE w == [i \in 1 .. c |-> e[Position(h, c, i)]]
<1>3. w \in [1 .. c -> Entry]
  BY <1>1
<1> HIDE DEF w
<1>4. w \in Seq(Entry) /\ Len(w) = c
  BY <1>2, <1>3
<1>5. QED
  BY <1>3, <1>4 DEF w, Window

\* An append at a free place adds the entry behind the others.
LEMMA WriteBehindOthers ==
    ASSUME Ring, Write, count' = Grown, count < MaxEntries
    PROVE  /\ count' = count + 1
           /\ \A i \in 1 .. count : Contents'[i] = Contents[i]
           /\ Contents'[count + 1] = logged + 1
<1> USE DEF Ring
<1>1. /\ MaxEntries \in Nat /\ head \in Slot /\ count' = count + 1
      /\ count \in 0 .. MaxEntries - 1 /\ count + 1 \in 1 .. MaxEntries
      /\ head' = (head + 1) % MaxEntries
  BY LogAssumption DEF Write, Grown, Slot
<1>2. \A i \in 1 .. count' : Contents'[i] = entries'[Position(head', count', i)]
  BY DEF Contents, Window
<1>3. \A i \in 1 .. count : Contents[i] = entries[Position(head, count, i)]
  BY DEF Contents, Window
<1>4. \A s \in Slot : entries'[s] = IF s = head THEN logged + 1 ELSE entries[s]
  BY DEF Write
<1>5. Position(head', count', count + 1) = head
  BY <1>1, PositionNewest
<1>6. \A i \in 1 .. count : /\ Position(head', count', i) = Position(head, count, i)
                            /\ Position(head, count, i) \in Slot \ {head}
  BY <1>1, PositionGrown
<1>7. \A i \in 1 .. count : i \in 1 .. count'
  BY <1>1
<1>8. count + 1 \in 1 .. count'
  BY <1>1
<1>9. QED
  BY <1>1, <1>2, <1>3, <1>4, <1>5, <1>6, <1>7, <1>8

\* An append to a full ring overwrites the oldest entry.
LEMMA WriteOverOldest ==
    ASSUME Ring, Write, count' = Grown, count = MaxEntries
    PROVE  /\ count' = count
           /\ entries[head] = Contents[1]
           /\ \A i \in 1 .. count - 1 : Contents'[i] = Contents[i + 1]
           /\ Contents'[count] = logged + 1
<1> USE DEF Ring
<1>1. /\ MaxEntries \in Nat \ {0} /\ head \in Slot /\ count' = count
      /\ count \in 1 .. MaxEntries /\ head' = (head + 1) % MaxEntries
  BY LogAssumption DEF Write, Grown, Slot
<1>2. \A i \in 1 .. count : Contents'[i] = entries'[Position(head', count, i)]
  BY <1>1 DEF Contents, Window
<1>3. \A i \in 1 .. count : Contents[i] = entries[Position(head, count, i)]
  BY DEF Contents, Window
<1>4. \A s \in Slot : entries'[s] = IF s = head THEN logged + 1 ELSE entries[s]
  BY DEF Write
<1>5. Position(head', count, count) = head
  BY <1>1, PositionNewest
<1>6. Position(head, count, 1) = head
  BY <1>1, PositionOldest
<1>7. \A i \in 1 .. count - 1 :
          /\ Position(head', count, i) = Position(head, count, i + 1)
          /\ Position(head, count, i + 1) \in Slot \ {head}
  BY <1>1, PositionFull
<1>8. \A i \in 1 .. count - 1 : i \in 1 .. count /\ i + 1 \in 1 .. count
  BY <1>1
<1>9. 1 \in 1 .. count /\ count \in 1 .. count
  BY <1>1
<1>10. ASSUME NEW i \in 1 .. count - 1 PROVE Contents'[i] = Contents[i + 1]
  <2>1. Contents'[i] = entries'[Position(head', count, i)]
    BY <1>2, <1>8
  <2>2. Contents[i + 1] = entries[Position(head, count, i + 1)]
    BY <1>3, <1>8
  <2>3. QED
    BY <2>1, <2>2, <1>4, <1>7
<1>11. Contents'[count] = logged + 1
  BY <1>1, <1>2, <1>4, <1>5, <1>9
<1>12. entries[head] = Contents[1]
  BY <1>3, <1>6, <1>9
<1>13. QED
  BY <1>1, <1>10, <1>11, <1>12

\* removeFirst(n) takes the n oldest entries.
LEMMA RemoveOldest ==
    ASSUME Ring, NEW n \in 1 .. MaxEntries, n =< count, RemoveFirst(n)
    PROVE  /\ count' = count - n
           /\ \A i \in 1 .. count - n : Contents'[i] = Contents[i + n]
<1> USE DEF Ring
<1>1. MaxEntries \in Nat \ {0}
  BY LogAssumption
<1>2. CASE n >= count
  BY <1>1, <1>2 DEF RemoveFirst
<1>3. CASE n < count
  <2>1. count' = count - n /\ head' = head /\ entries' = entries
    BY <1>1, <1>3 DEF RemoveFirst
  <2> n \in 1 .. count
    BY <1>3
  <2>2. \A i \in 1 .. count - n : Position(head, count - n, i) = Position(head, count, i + n)
    BY <1>1, <1>3, PositionShrunk
  <2>3. \A i \in 1 .. count - n : i + n \in 1 .. count
    BY <1>1, <1>3
  <2>4. \A i \in 1 .. count - n : Contents'[i] = entries[Position(head, count - n, i)]
    BY <2>1 DEF Contents, Window
  <2>5. \A i \in 1 .. count : Contents[i] = entries[Position(head, count, i)]
    BY DEF Contents, Window
  <2>6. QED
    BY <2>1, <2>2, <2>3, <2>4, <2>5
<1>4. QED
  BY <1>1, <1>2, <1>3

\* load() puts the entries of the flash into the ring in their order.
LEMMA LoadContents ==
    ASSUME nvsCount \in 0 .. MaxEntries, Load
    PROVE  \/ count' = nvsCount /\ head' = count'
              /\ Contents' = Loaded(nvsCount, nvsData)
           \/ count' = 0 /\ head' = 0
<1>1. MaxEntries \in Nat \ {0}
  BY LogAssumption
<1>2. CASE count' = 0 /\ head' = 0
  BY <1>2
<1>3. CASE /\ count' = Smaller(nvsCount, MaxEntries)
           /\ entries' = [s \in Slot |-> IF s < count'
                                         THEN Loaded(count', nvsData)[s + 1] ELSE Junk]
           /\ head' = count'
  <2>1. count' = nvsCount
    BY <1>1, <1>3 DEF Smaller
  <2>2. \A i \in 1 .. nvsCount : Position(nvsCount, nvsCount, i) = i - 1
    BY <1>1, PositionIs
  <2>3. \A i \in 1 .. nvsCount : entries'[i - 1] = Loaded(nvsCount, nvsData)[i]
    <3>1. \A i \in 1 .. nvsCount : i - 1 \in Slot /\ i - 1 < nvsCount /\ (i - 1) + 1 = i
      BY <1>1 DEF Slot
    <3>2. QED
      BY <1>3, <2>1, <3>1
  <2>4. Contents' = [i \in 1 .. nvsCount |-> Loaded(nvsCount, nvsData)[i]]
    BY <1>3, <2>1, <2>2, <2>3 DEF Contents, Window
  <2>5. QED
    BY <1>3, <2>1, <2>4 DEF Loaded
<1>4. QED
  BY <1>2, <1>3 DEF Load

\* Both kinds of append in one: k entries go, the new one is the last.
LEMMA WriteContents ==
    ASSUME Ring, Write, count' = Grown
    PROVE  \E k \in {0, 1} :
               /\ count' = count + 1 - k
               /\ \A i \in 1 .. count - k : Contents'[i] = Contents[i + k]
               /\ Contents'[count'] = logged + 1
               /\ k = 1 => count = MaxEntries /\ count >= 1 /\ entries[head] = Contents[1]
<1>1. MaxEntries \in Nat \ {0} /\ count \in 0 .. MaxEntries
  BY LogAssumption DEF Ring
<1>2. CASE count < MaxEntries
  <2>1. /\ count' = count + 1
        /\ \A i \in 1 .. count : Contents'[i] = Contents[i]
        /\ Contents'[count + 1] = logged + 1
    BY <1>2, WriteBehindOthers
  <2>2. /\ count' = count + 1 - 0
        /\ \A i \in 1 .. count - 0 : Contents'[i] = Contents[i + 0]
        /\ Contents'[count'] = logged + 1
    BY <1>1, <2>1
  <2>3. QED
    BY <2>2
<1>3. CASE count = MaxEntries
  <2>1. /\ count' = count + 1 - 1
        /\ \A i \in 1 .. count - 1 : Contents'[i] = Contents[i + 1]
        /\ Contents'[count'] = logged + 1
        /\ entries[head] = Contents[1]
    BY <1>1, <1>3, WriteOverOldest
  <2>2. QED
    BY <1>1, <1>3, <2>1
<1>4. QED
  BY <1>1, <1>2, <1>3

-----------------------------------------------------------------------------
(* Type correctness *)

LEMMA MembersType ==
    ASSUME NEW n \in Nat, NEW s \in [1 .. n -> Entry]
    PROVE  Members(s) \subseteq 1 .. MaxLogged
  BY LogAssumption DEF Members, Entry, Junk

LEMMA ContentsType ==
    ASSUME TypeOK
    PROVE  /\ Contents \in [1 .. count -> Entry]
           /\ Contents \in Seq(Entry) /\ Len(Contents) = count
           /\ Members(Contents) \subseteq 1 .. MaxLogged
<1>1. /\ Contents \in [1 .. count -> Entry]
      /\ Contents \in Seq(Entry) /\ Len(Contents) = count
  BY WindowType DEF TypeOK, Contents
<1>2. count \in Nat
  BY DEF TypeOK
<1>3. QED
  BY <1>1, <1>2, MembersType

LEMMA LoadedType ==
    ASSUME NEW n \in Nat, NEW data \in Seq(Entry)
    PROVE  Loaded(n, data) \in [1 .. n -> Entry]
<1>1. Junk \in Entry
  BY LogAssumption DEF Junk, Entry
<1>2. \A i \in 1 .. n : Len(data) =< n /\ i =< Len(data) => data[i] \in Entry
  OBVIOUS
<1>3. QED
  BY <1>1, <1>2 DEF Loaded

LEMMA SaveCountType ==
    ASSUME TypeOK, NEW c \in 0 .. MaxEntries, SaveCount(c)
    PROVE  /\ nvsCount' \in 0 .. MaxEntries /\ nvsData' \in Seq(Entry)
           /\ saving' \in BOOLEAN
<1>1. nvsCount \in 0 .. MaxEntries /\ nvsData \in Seq(Entry)
  BY DEF TypeOK
<1>2. CASE nvsCount' = c /\ saving' = (c > 0) /\ UNCHANGED nvsData
  <2>1. (c > 0) \in BOOLEAN
    OBVIOUS
  <2>2. QED
    BY <1>1, <1>2, <2>1
<1>3. CASE saving' = FALSE /\ UNCHANGED flashVars
  BY <1>1, <1>3 DEF flashVars
<1>4. QED
  BY <1>2, <1>3 DEF SaveCount

LEMMA AppendType ==
    ASSUME TypeOK, AppendEntry, uploading' \in BOOLEAN
    PROVE  TypeOK'
<1>1. MaxEntries \in Nat \ {0} /\ MaxLogged \in Nat /\ MaxBoots \in Nat
  BY LogAssumption
<1>2. Grown \in 0 .. MaxEntries /\ count' = Grown
  BY <1>1 DEF TypeOK, AppendEntry, Grown
<1>3. logged + 1 \in 1 .. MaxLogged /\ logged' = logged + 1
  BY <1>1 DEF TypeOK, AppendEntry
<1>4. /\ nvsCount' \in 0 .. MaxEntries /\ nvsData' \in Seq(Entry)
      /\ saving' \in BOOLEAN
  BY <1>2, SaveCountType DEF AppendEntry
<1>5. /\ entries' \in [Slot -> Entry] /\ head' \in 0 .. MaxEntries
      /\ overrun' \in BOOLEAN
  <2>1. CASE Write
    <3>1. head \in Slot /\ logged + 1 \in Entry
      BY <1>1, <1>3, <2>1 DEF TypeOK, Write, Slot, Entry, Junk
    <3>2. entries' \in [Slot -> Entry]
      BY <2>1, <3>1 DEF Write, TypeOK
    <3>3. head' \in 0 .. MaxEntries
      BY <1>1, <2>1, <3>1, NextHead DEF Write, Slot
    <3>4. QED
      BY <2>1, <3>2, <3>3 DEF Write, TypeOK
  <2>2. CASE WriteBehind
    <3>1. head' \in 0 .. MaxEntries
      BY <1>1, <2>2 DEF WriteBehind, Slot
    <3>2. QED
      BY <2>2, <3>1 DEF WriteBehind, TypeOK
  <2>3. QED
    BY <2>1, <2>2 DEF AppendEntry
<1>6. logged' \in 0 .. MaxLogged
  BY <1>1, <1>3
<1>7. UNCHANGED <<published, unsure, sent, stored, boots>>
  BY DEF AppendEntry, intakeVars
<1>8. QED
  BY <1>2, <1>4, <1>5, <1>6, <1>7 DEF TypeOK

\* What the next batch holds.
LEMMA BatchContents ==
    ASSUME TypeOK, count > 0
    PROVE  /\ BatchLength \in 1 .. MaxEntries /\ BatchLength =< count
           /\ NextBatch \in Seq(Entry) /\ Len(NextBatch) = BatchLength
           /\ DOMAIN NextBatch = 1 .. BatchLength
           /\ \A i \in 1 .. BatchLength : NextBatch[i] = Contents[i]
           /\ Members(NextBatch) \subseteq Members(Contents)
<1> DEFINE n == BatchLength
           w == Contents
           b == NextBatch
<1>1. MaxEntries \in Nat \ {0} /\ BatchSize \in Nat \ {0}
  BY LogAssumption
<1>2. n \in 1 .. MaxEntries /\ n =< count
  BY <1>1 DEF TypeOK, BatchLength, Smaller
<1>3. w \in Seq(Entry) /\ Len(w) = count
  BY ContentsType
<1>4. n \in Nat /\ 1 =< n /\ n =< Len(w) /\ b = SubSeq(w, 1, n)
  BY <1>2, <1>3 DEF NextBatch
<1> HIDE DEF n, w, b
<1>5. /\ b \in Seq(Entry) /\ Len(b) = n /\ DOMAIN b = 1 .. n
      /\ \A i \in 1 .. n : b[i] = w[i]
  BY <1>3, <1>4
<1>6. \A i \in DOMAIN b : i \in DOMAIN w /\ b[i] = w[i]
  BY <1>3, <1>4, <1>5
<1>7. Members(b) \subseteq Members(w)
  BY <1>6 DEF Members
<1>8. QED
  BY <1>2, <1>5, <1>7 DEF n, w, b

\* What is left of the log after a batch.
LEMMA PublishContents ==
    ASSUME TypeOK, PublishBatch
    PROVE  /\ count' = count - BatchLength
           /\ \A i \in 1 .. count - BatchLength : Contents'[i] = Contents[i + BatchLength]
<1>1. BatchLength \in 1 .. MaxEntries /\ BatchLength =< count
  BY BatchContents DEF PublishBatch
<1>2. Ring /\ RemoveFirst(BatchLength)
  BY DEF TypeOK, Ring, PublishBatch
<1>3. QED
  BY <1>1, <1>2, RemoveOldest

\* The message that is sent.
LEMMA MessageType ==
    ASSUME TypeOK, count > 0
    PROVE  /\ Members(NextBatch) \subseteq 1 .. MaxLogged
           /\ Message \in [session : 0 .. MaxBoots, entries : SUBSET (1 .. MaxLogged)]
           /\ {<<boots, e>> : e \in Members(NextBatch)}
                  \subseteq (0 .. MaxBoots) \X (1 .. MaxLogged)
<1>1. Members(NextBatch) \subseteq 1 .. MaxLogged
  BY BatchContents, ContentsType
<1>2. QED
  BY <1>1 DEF Message, TypeOK

LEMMA PublishType ==
    ASSUME TypeOK, PublishBatch
    PROVE  TypeOK'
<1>1. MaxEntries \in Nat \ {0} /\ MaxLogged \in Nat /\ MaxBoots \in Nat
  BY LogAssumption
<1>2. /\ BatchLength \in 1 .. MaxEntries /\ BatchLength =< count
      /\ count' = count - BatchLength
  BY BatchContents, PublishContents DEF PublishBatch
<1>3. count' \in 0 .. MaxEntries
  BY <1>1, <1>2 DEF TypeOK
<1>4. entries' \in [Slot -> Entry] /\ head' \in 0 .. MaxEntries
  <2>1. Junk \in Entry
    BY <1>1 DEF Junk, Entry
  <2>2. Blank \in [Slot -> Entry]
    BY <2>1 DEF Blank
  <2>3. QED
    BY <1>1, <2>2 DEF PublishBatch, RemoveFirst, TypeOK
<1>5. /\ nvsCount' \in 0 .. MaxEntries /\ nvsData' \in Seq(Entry)
      /\ saving' \in BOOLEAN
  <2>1. (IF BatchLength >= count THEN 0 ELSE count - BatchLength) \in 0 .. MaxEntries
    BY <1>1, <1>2 DEF TypeOK
  <2>2. QED
    BY <2>1, SaveCountType DEF PublishBatch, RemoveFirst
<1>6. /\ Members(NextBatch) \subseteq 1 .. MaxLogged
      /\ Message \in [session : 0 .. MaxBoots, entries : SUBSET (1 .. MaxLogged)]
  BY MessageType DEF PublishBatch
<1>7. /\ sent' \subseteq [session : 0 .. MaxBoots, entries : SUBSET (1 .. MaxLogged)]
      /\ published' \subseteq 1 .. MaxLogged
  BY <1>6 DEF PublishBatch, TypeOK
<1>8. UNCHANGED <<uploading, stored, logged, unsure, overrun, boots>>
  BY DEF PublishBatch
<1>9. QED
  BY <1>3, <1>4, <1>5, <1>7, <1>8 DEF TypeOK

LEMMA PublishFailsType ==
    ASSUME TypeOK, PublishFails
    PROVE  TypeOK'
<1>1. /\ sent' \subseteq [session : 0 .. MaxBoots, entries : SUBSET (1 .. MaxLogged)]
      /\ unsure' \subseteq (0 .. MaxBoots) \X (1 .. MaxLogged)
  BY MessageType DEF PublishFails, TypeOK
<1>2. /\ UNCHANGED <<ramVars, flashVars, saving, stored, logged, published, overrun,
                     boots>>
      /\ uploading' = FALSE
  BY DEF PublishFails
<1>3. QED
  BY <1>1, <1>2 DEF TypeOK, ramVars, flashVars

LEMMA BootType ==
    ASSUME TypeOK, Boot
    PROVE  TypeOK'
<1>1. MaxEntries \in Nat \ {0} /\ MaxLogged \in Nat /\ MaxBoots \in Nat
  BY LogAssumption
<1>2. Junk \in Entry
  BY <1>1 DEF Junk, Entry
<1>3. /\ entries' \in [Slot -> Entry] /\ head' \in 0 .. MaxEntries
      /\ count' \in 0 .. MaxEntries
  <2>1. CASE /\ count' = Smaller(nvsCount, MaxEntries)
             /\ entries' = [s \in Slot |-> IF s < count'
                                           THEN Loaded(count', nvsData)[s + 1] ELSE Junk]
             /\ head' = count'
    <3>1. count' \in 0 .. MaxEntries
      BY <1>1, <2>1 DEF TypeOK, Smaller
    <3>2. Loaded(count', nvsData) \in [1 .. count' -> Entry]
      BY <1>1, <3>1, LoadedType DEF TypeOK
    <3>3. \A s \in Slot : s < count' => s + 1 \in 1 .. count'
      BY <1>1, <3>1 DEF Slot
    <3>4. \A s \in Slot : (IF s < count' THEN Loaded(count', nvsData)[s + 1] ELSE Junk)
                               \in Entry
      BY <1>2, <3>2, <3>3
    <3>5. entries' \in [Slot -> Entry]
      BY <2>1, <3>4
    <3>6. QED
      BY <2>1, <3>1, <3>5
  <2>2. CASE count' = 0 /\ head' = 0 /\ entries' = Blank
    <3>1. Blank \in [Slot -> Entry]
      BY <1>2 DEF Blank
    <3>2. 0 \in 0 .. MaxEntries
      BY <1>1
    <3>3. QED
      BY <2>2, <3>1, <3>2
  <2>3. QED
    BY <2>1, <2>2 DEF Boot, Load
<1>4. boots' \in 0 .. MaxBoots
  BY <1>1 DEF Boot, TypeOK
<1>5. /\ saving' = FALSE /\ uploading' = FALSE
      /\ UNCHANGED <<nvsCount, nvsData, sent, stored, logged, published, unsure, overrun>>
  BY DEF Boot, flashVars, intakeVars
<1>6. QED
  BY <1>3, <1>4, <1>5 DEF TypeOK

LEMMA TypeStep ==
    ASSUME TypeOK, [Next]_vars
    PROVE  TypeOK'
<1>1. CASE SaveData
  <2>1. Contents \in Seq(Entry)
    BY ContentsType
  <2>2. QED
    BY <1>1, <2>1 DEF SaveData, TypeOK, ramVars, intakeVars, historyVars
<1>2. CASE LogEvent
  BY <1>2, AppendType DEF LogEvent, TypeOK
<1>3. CASE Reconnect
  BY <1>3, AppendType DEF Reconnect
<1>4. CASE PublishBatch
  BY <1>4, PublishType
<1>5. CASE EndUpload
  BY <1>5 DEF EndUpload, TypeOK, ramVars, flashVars, intakeVars, historyVars
<1>6. CASE Boot
  BY <1>6, BootType
<1>7. ASSUME NEW b \in sent, StoreBatch(b) PROVE TypeOK'
  <2>1. b.session \in 0 .. MaxBoots /\ b.entries \subseteq 1 .. MaxLogged
    BY DEF TypeOK
  <2>2. {<<b.session, e>> : e \in b.entries} \subseteq (0 .. MaxBoots) \X (1 .. MaxLogged)
    BY <2>1
  <2>3. /\ stored' \subseteq (0 .. MaxBoots) \X (1 .. MaxLogged)
        /\ sent' \subseteq [session : 0 .. MaxBoots, entries : SUBSET (1 .. MaxLogged)]
    BY <1>7, <2>2 DEF StoreBatch, TypeOK
  <2>4. UNCHANGED <<ramVars, flashVars, saving, uploading, historyVars>>
    BY <1>7 DEF StoreBatch
  <2>5. QED
    BY <2>3, <2>4 DEF TypeOK, ramVars, flashVars, historyVars
<1>8. ASSUME NEW b \in sent, LoseBatch(b) PROVE TypeOK'
  BY <1>8 DEF LoseBatch, TypeOK, ramVars, flashVars, historyVars
<1>9. CASE PublishFails
  BY <1>9, PublishFailsType
<1>10. CASE UNCHANGED vars
  BY <1>10 DEF vars, TypeOK, ramVars, flashVars, intakeVars, historyVars
<1>11. QED
  BY <1>1, <1>2, <1>3, <1>4, <1>5, <1>6, <1>7, <1>8, <1>9, <1>10
  DEF Next

LEMMA TypeInit ==
    ASSUME Init
    PROVE  TypeOK
<1>1. Junk \in Entry /\ MaxEntries \in Nat /\ MaxLogged \in Nat /\ MaxBoots \in Nat
  BY LogAssumption DEF Junk, Entry
<1>2. Blank \in [Slot -> Entry]
  BY <1>1 DEF Blank
<1>3. /\ 0 \in 0 .. MaxEntries /\ 0 \in 0 .. MaxLogged /\ 0 \in 0 .. MaxBoots
      /\ <<>> \in Seq(Entry)
  BY <1>1
<1>4. QED
  BY <1>2, <1>3 DEF Init, TypeOK

\* The ring, the flash and the histories keep their types, whatever is written
\* behind the array: append(), removeFirst(), save() and load() of DiagnosticLog.cpp.
THEOREM TypeCorrect == Spec => []TypeOK
<1>1. Init => TypeOK
  BY TypeInit
<1>2. TypeOK /\ [Next]_vars => TypeOK'
  BY TypeStep
<1>3. QED
  BY <1>1, <1>2, PTL DEF Spec

-----------------------------------------------------------------------------
(* The log as a queue *)

\* Logs that hold the same entries in the same order are the same.
LEMMA SameLog ==
    ASSUME NEW n \in Nat, NEW v \in Seq(Int), NEW w \in Seq(Int), Len(v) = n, Len(w) = n,
           \A i \in 1 .. n : v[i] = w[i]
    PROVE  v = w
  OBVIOUS

\* Contents before and after a step.
LEMMA ContentsAreSeqs ==
    ASSUME TypeOK, TypeOK'
    PROVE  /\ Contents \in Seq(Int) /\ Len(Contents) = count /\ count \in Nat
           /\ Contents' \in Seq(Int) /\ Len(Contents') = count' /\ count' \in Nat
           /\ logged \in Nat /\ MaxEntries \in Nat \ {0}
<1>1. \A x \in Entry : x \in Int
  BY LogAssumption DEF Entry, Junk
<1>2. Contents \in [1 .. count -> Entry] /\ Len(Contents) = count
  BY ContentsType
<1>3. Contents' \in [1 .. count' -> Entry] /\ Len(Contents') = count'
  BY WindowType DEF TypeOK, Contents
<1>4. count \in Nat /\ count' \in Nat /\ logged \in Nat /\ MaxEntries \in Nat \ {0}
  BY LogAssumption DEF TypeOK
<1>5. Contents \in [1 .. count -> Int] /\ Contents' \in [1 .. count' -> Int]
  BY <1>1, <1>2, <1>3
<1>6. QED
  BY <1>2, <1>3, <1>4, <1>5

LEMMA AppendToQueue ==
    ASSUME TypeOK, TypeOK', AppendEntry, Write
    PROVE  logged' = logged + 1 /\ Contents' = AppendedTo(Contents, logged')
<1> DEFINE w == Contents
           v == Contents'
           n == count
           x == logged'
<1>1. Ring /\ count' = Grown /\ x = logged + 1
  BY DEF TypeOK, Ring, AppendEntry
<1>2. /\ w \in Seq(Int) /\ Len(w) = n /\ n \in Nat
      /\ v \in Seq(Int) /\ Len(v) = count' /\ x \in Int /\ MaxEntries \in Nat \ {0}
  BY <1>1, ContentsAreSeqs
<1>3. CASE n < MaxEntries
  <2>1. count' = n + 1 /\ (\A i \in 1 .. n : v[i] = w[i]) /\ v[n + 1] = x
    BY <1>1, <1>3, WriteBehindOthers
  <2>2. AppendedTo(w, x) = Append(w, x)
    BY <1>2, <1>3 DEF AppendedTo
  <2> HIDE DEF w, v, n, x
  <2>3. v = Append(w, x)
    BY <1>2, <2>1
  <2>4. QED
    BY <1>1, <2>2, <2>3 DEF w, v, x
<1>4. CASE n = MaxEntries
  <2>1. count' = n /\ (\A i \in 1 .. n - 1 : v[i] = w[i + 1]) /\ v[n] = x
    BY <1>1, <1>4, WriteOverOldest
  <2>2. AppendedTo(w, x) = Append(Tail(w), x)
    BY <1>4 DEF AppendedTo
  <2>3. n >= 1
    BY <1>2, <1>4
  <2> HIDE DEF w, v, n, x
  <2>4. /\ Append(Tail(w), x) \in Seq(Int) /\ Len(Append(Tail(w), x)) = n
        /\ \A i \in 1 .. n : Append(Tail(w), x)[i] = IF i < n THEN w[i + 1] ELSE x
    BY <1>2, <2>3
  <2>5. \A i \in 1 .. n : v[i] = IF i < n THEN w[i + 1] ELSE x
    BY <1>2, <2>1, <2>3
  <2>6. v = Append(Tail(w), x)
    BY <1>2, <2>1, <2>4, <2>5, SameLog
  <2>7. QED
    BY <1>1, <2>2, <2>6 DEF w, v, x
<1>5. QED
  BY <1>1, <1>2, <1>3, <1>4 DEF Ring

LEMMA RemoveFromQueue ==
    ASSUME TypeOK, TypeOK', PublishBatch
    PROVE  \E n \in 1 .. count : RemovedFrom(Contents, n)
<1> DEFINE w == Contents
           v == Contents'
           n == BatchLength
           c == count
<1>1. /\ w \in Seq(Int) /\ Len(w) = c /\ c \in Nat
      /\ v \in Seq(Int) /\ Len(v) = count'
  BY ContentsAreSeqs
<1>2. n \in Nat /\ n \in 1 .. c
  BY <1>1, BatchContents, LogAssumption DEF PublishBatch
<1>3. count' = c - n /\ \A i \in 1 .. c - n : v[i] = w[i + n]
  BY PublishContents
<1>4. v = SubSeq(w, n + 1, c)
  <2> HIDE DEF w, v, n, c
  <2>1. /\ SubSeq(w, n + 1, c) \in Seq(Int) /\ Len(SubSeq(w, n + 1, c)) = c - n
        /\ \A i \in 1 .. c - n : SubSeq(w, n + 1, c)[i] = w[i + n]
    BY <1>1, <1>2
  <2>2. QED
    BY <1>1, <1>2, <1>3, <2>1, SameLog
<1>5. Members(SubSeq(w, 1, n)) \subseteq published'
  BY DEF PublishBatch, NextBatch
<1>6. QED
  BY <1>2, <1>4, <1>5 DEF RemovedFrom

LEMMA QueueStep ==
    ASSUME TypeOK, TypeOK', [Next]_vars, ~overrun', boots' = boots
    PROVE  \/ logged' = logged /\ Contents' = Contents
           \/ logged' = logged + 1 /\ Contents' = AppendedTo(Contents, logged')
           \/ logged' = logged /\ \E n \in 1 .. count : RemovedFrom(Contents, n)
<1>1. CASE AppendEntry
  BY <1>1, AppendToQueue DEF AppendEntry, WriteBehind
<1>2. CASE PublishBatch
  BY <1>2, RemoveFromQueue DEF PublishBatch
<1>3. CASE Boot
  BY <1>3, LogAssumption DEF Boot, TypeOK
<1>4. CASE UNCHANGED <<ramVars, logged>>
  BY <1>4 DEF ramVars, Contents
<1>5. QED
  BY <1>1, <1>2, <1>3, <1>4
  DEF Next, SaveData, LogEvent, Reconnect, PublishFails, EndUpload, StoreBatch,
      LoseBatch, historyVars, vars

\* append() and removeFirst() are those of a bounded queue, for every size of the
\* ring and of the batch and wherever the ring starts: within a boot nothing leaves
\* the log but the oldest entry of a full one, for a newer one, and what publish()
\* accepted, until an append has written behind the array.
THEOREM QueueCorrect == Spec => LogIsAQueue
<1>1. TypeOK /\ TypeOK' /\ [Next]_vars =>
          [~overrun' =>
              \/ boots' # boots
              \/ logged' = logged /\ Contents' = Contents
              \/ logged' = logged + 1 /\ Contents' = AppendedTo(Contents, logged')
              \/ logged' = logged /\ \E n \in 1 .. count : RemovedFrom(Contents, n)]_vars
  BY QueueStep
<1>2. QED
  BY <1>1, TypeCorrect, PTL DEF Spec, LogIsAQueue

-----------------------------------------------------------------------------
(* The order of the entries *)

Sorted(w, n) ==
    \A i, j \in 1 .. n : i < j /\ w[i] # Junk /\ w[j] # Junk => w[i] < w[j]

UpTo(w, n, last) == \A i \in 1 .. n : w[i] =< last

\* The log and its copy in the flash; both, because load() brings the copy back.
InOrder ==
    /\ Sorted(Contents, count) /\ UpTo(Contents, count, logged)
    /\ Sorted(nvsData, Len(nvsData)) /\ UpTo(nvsData, Len(nvsData), logged)

OrderInv == ~overrun => InOrder

\* The newest number behind the others.
LEMMA SortedAppend ==
    ASSUME NEW n \in Nat, NEW w \in [1 .. n -> Int], NEW k \in Nat, k =< n, NEW v,
           NEW last \in Nat,
           \A i \in 1 .. n - k : v[i] = w[i + k], v[n + 1 - k] = last + 1,
           Sorted(w, n), UpTo(w, n, last)
    PROVE  Sorted(v, n + 1 - k) /\ UpTo(v, n + 1 - k, last + 1)
<1> DEFINE m == n + 1 - k
<1>1. \A i \in 1 .. m : i = m \/ i \in 1 .. n - k
  OBVIOUS
<1>2. \A i \in 1 .. n - k : i + k \in 1 .. n /\ v[i] = w[i + k] /\ w[i + k] \in Int
  OBVIOUS
<1>3. \A i \in 1 .. n - k : v[i] =< last
  BY <1>2 DEF UpTo
<1>4. ASSUME NEW i \in 1 .. m PROVE v[i] =< last + 1
  <2>1. CASE i = m
    BY <2>1
  <2>2. CASE i \in 1 .. n - k
    <3>1. v[i] \in Int /\ v[i] =< last
      BY <1>2, <1>3, <2>2
    <3>2. QED
      BY <3>1
  <2>3. QED
    BY <1>1, <2>1, <2>2
<1>5. ASSUME NEW i \in 1 .. m, NEW j \in 1 .. m, i < j, v[i] # Junk, v[j] # Junk
      PROVE  v[i] < v[j]
  <2>1. i \in 1 .. n - k
    BY <1>1, <1>5
  <2>2. CASE j = m
    <3>1. v[i] \in Int /\ v[i] =< last /\ v[j] = last + 1
      BY <1>2, <1>3, <2>1, <2>2
    <3>2. QED
      BY <3>1
  <2>3. CASE j \in 1 .. n - k
    <3>1. i + k < j + k
      BY <1>5, <2>1, <2>3
    <3>2. QED
      BY <1>2, <1>5, <2>1, <2>3, <3>1 DEF Sorted
  <2>4. QED
    BY <1>1, <2>2, <2>3
<1>6. QED
  BY <1>4, <1>5 DEF Sorted, UpTo

LEMMA SortedRest ==
    ASSUME NEW n \in Nat, NEW w \in [1 .. n -> Int], NEW k \in Nat, k =< n, NEW v,
           NEW last \in Nat, \A i \in 1 .. n - k : v[i] = w[i + k],
           Sorted(w, n), UpTo(w, n, last)
    PROVE  Sorted(v, n - k) /\ UpTo(v, n - k, last)
<1>1. \A i \in 1 .. n - k : i + k \in 1 .. n /\ v[i] = w[i + k]
  OBVIOUS
<1>2. ASSUME NEW i \in 1 .. n - k, NEW j \in 1 .. n - k, i < j,
             v[i] # Junk, v[j] # Junk
      PROVE  v[i] < v[j]
  <2>1. i + k < j + k
    BY <1>2
  <2>2. w[i + k] < w[j + k]
    BY <1>1, <1>2, <2>1 DEF Sorted
  <2>3. QED
    BY <1>1, <2>2
<1>3. QED
  BY <1>1, <1>2 DEF Sorted, UpTo

LEMMA SortedLoaded ==
    ASSUME NEW n \in Nat, NEW data \in Seq(Entry), NEW last \in Nat,
           Sorted(data, Len(data)), UpTo(data, Len(data), last)
    PROVE  Sorted(Loaded(n, data), n) /\ UpTo(Loaded(n, data), n, last)
<1> DEFINE v == Loaded(n, data)
<1>1. \A i \in 1 .. n : v[i] = IF Len(data) =< n /\ i =< Len(data) THEN data[i] ELSE Junk
  BY DEF Loaded
<1>2. Len(data) \in Nat
  OBVIOUS
<1>3. \A i \in 1 .. n : v[i] # Junk => i \in 1 .. Len(data) /\ v[i] = data[i]
  BY <1>1, <1>2
<1>4. \A i \in 1 .. n : v[i] = Junk \/ (i \in 1 .. Len(data) /\ v[i] = data[i])
  BY <1>3
<1> HIDE DEF v
<1>5. Sorted(v, n)
  BY <1>3 DEF Sorted
<1>6. UpTo(v, n, last)
  BY <1>4 DEF UpTo, Junk
<1>7. QED
  BY <1>5, <1>6 DEF v

\* What holds of all entries of a longer past holds of more appends.
LEMMA UpToMore ==
    ASSUME NEW n \in Nat, NEW w \in [1 .. n -> Int], NEW last \in Nat, UpTo(w, n, last)
    PROVE  UpTo(w, n, last + 1)
  BY DEF UpTo

LEMMA EntriesAreNumbers ==
    ASSUME TypeOK
    PROVE  /\ Contents \in [1 .. count -> Int]
           /\ nvsData \in Seq(Entry) /\ nvsData \in [1 .. Len(nvsData) -> Int]
           /\ Len(nvsData) \in Nat /\ count \in Nat /\ logged \in Nat
<1>1. \A x \in Entry : x \in Int
  BY LogAssumption DEF Entry, Junk
<1>2. Contents \in [1 .. count -> Entry]
  BY ContentsType
<1>3. Contents \in [1 .. count -> Int]
  BY <1>1, <1>2
<1>4. nvsData \in Seq(Entry)
  BY DEF TypeOK
<1>5. Len(nvsData) \in Nat /\ nvsData \in [1 .. Len(nvsData) -> Entry]
  BY <1>4
<1>6. nvsData \in [1 .. Len(nvsData) -> Int]
  BY <1>1, <1>5
<1>7. QED
  BY <1>3, <1>4, <1>5, <1>6, LogAssumption DEF TypeOK

LEMMA OrderStep ==
    ASSUME TypeOK, OrderInv, [Next]_vars
    PROVE  OrderInv'
<1> USE DEF OrderInv, InOrder
<1>1. /\ Contents \in [1 .. count -> Int] /\ nvsData \in [1 .. Len(nvsData) -> Int]
      /\ Len(nvsData) \in Nat /\ count \in Nat /\ logged \in Nat
  BY EntriesAreNumbers
<1>2. ASSUME AppendEntry PROVE OrderInv'
  <2>1. CASE WriteBehind
    BY <2>1 DEF WriteBehind
  <2>2. CASE Write /\ ~overrun
    <3>1. logged' = logged + 1 /\ count' = Grown /\ overrun' = overrun
          /\ nvsData' = nvsData
      BY <1>2, <2>2 DEF AppendEntry, Write, SaveCount, flashVars
    <3>2. Ring
      BY DEF Ring, TypeOK
    <3>3. PICK k \in {0, 1} :
              /\ count' = count + 1 - k
              /\ \A i \in 1 .. count - k : Contents'[i] = Contents[i + k]
              /\ Contents'[count'] = logged + 1
              /\ k = 1 => count = MaxEntries /\ count >= 1 /\ entries[head] = Contents[1]
      BY <2>2, <3>1, <3>2, WriteContents
    <3>4. count' \in Nat /\ k =< count
      BY <1>1, <3>3
    <3>5. Sorted(Contents', count') /\ UpTo(Contents', count', logged + 1)
      <4> DEFINE n == count
                 w == Contents
                 v == Contents'
                 last == logged
      <4>1. /\ n \in Nat /\ w \in [1 .. n -> Int] /\ last \in Nat
            /\ k \in Nat /\ k =< n /\ v[n + 1 - k] = last + 1
            /\ \A i \in 1 .. n - k : v[i] = w[i + k]
            /\ Sorted(w, n) /\ UpTo(w, n, last)
        BY <1>1, <2>2, <3>3, <3>4
      <4> HIDE DEF n, w, v, last
      <4>2. Sorted(v, n + 1 - k) /\ UpTo(v, n + 1 - k, last + 1)
        BY <4>1, SortedAppend
      <4>3. QED
        BY <3>3, <4>2 DEF n, v, last
    <3>6. UpTo(nvsData, Len(nvsData), logged + 1)
      BY <1>1, <2>2, UpToMore
    <3>7. QED
      BY <2>2, <3>1, <3>5, <3>6
  <2>3. CASE Write /\ overrun
    BY <2>3 DEF Write
  <2>4. QED
    BY <1>2, <2>1, <2>2, <2>3 DEF AppendEntry
<1>3. CASE SaveData
  <2>1. /\ Contents' = Contents /\ count' = count /\ logged' = logged
        /\ overrun' = overrun /\ (nvsData' = Contents \/ nvsData' = nvsData)
    BY <1>3 DEF SaveData, ramVars, historyVars, Contents
  <2>2. Len(Contents) = count
    BY ContentsType
  <2>3. QED
    BY <2>1, <2>2
<1>4. CASE LogEvent
  BY <1>2, <1>4 DEF LogEvent
<1>5. CASE Reconnect
  BY <1>2, <1>5 DEF Reconnect
<1>6. CASE PublishBatch
  <2>1. /\ overrun' = overrun /\ logged' = logged /\ nvsData' = nvsData
    BY <1>6 DEF PublishBatch, RemoveFirst, SaveCount, flashVars
  <2>2. /\ BatchLength \in Nat /\ BatchLength =< count
        /\ count' = count - BatchLength
        /\ \A i \in 1 .. count - BatchLength : Contents'[i] = Contents[i + BatchLength]
    BY <1>6, BatchContents, PublishContents, LogAssumption DEF PublishBatch
  <2>3. CASE ~overrun
    <3>1. Sorted(Contents', count - BatchLength)
          /\ UpTo(Contents', count - BatchLength, logged)
      BY <1>1, <2>2, <2>3, SortedRest
    <3>2. QED
      BY <2>1, <2>2, <2>3, <3>1
  <2>4. QED
    BY <2>1, <2>3
<1>7. CASE EndUpload \/ PublishFails
  BY <1>7 DEF EndUpload, PublishFails, ramVars, flashVars, historyVars, Contents
<1>8. CASE Boot
  <2>1. /\ Load /\ overrun' = overrun /\ logged' = logged /\ nvsData' = nvsData
    BY <1>8 DEF Boot, flashVars
  <2>2. CASE ~overrun
    <3>1. nvsCount \in Nat /\ nvsCount \in 0 .. MaxEntries /\ nvsData \in Seq(Entry)
      BY LogAssumption DEF TypeOK
    <3>2. \/ count' = nvsCount /\ Contents' = Loaded(nvsCount, nvsData)
          \/ count' = 0
      BY <2>1, <3>1, LoadContents
    <3>3. Sorted(Loaded(nvsCount, nvsData), nvsCount)
          /\ UpTo(Loaded(nvsCount, nvsData), nvsCount, logged)
      BY <1>1, <2>2, <3>1, SortedLoaded
    <3>4. Sorted(Contents', count') /\ UpTo(Contents', count', logged)
      <4>1. CASE count' = 0
        BY <4>1 DEF Sorted, UpTo
      <4>2. CASE count' = nvsCount /\ Contents' = Loaded(nvsCount, nvsData)
        BY <3>3, <4>2
      <4>3. QED
        BY <3>2, <4>1, <4>2
    <3>5. QED
      BY <2>1, <2>2, <3>4
  <2>3. QED
    BY <2>1, <2>2
<1>9. ASSUME NEW b \in sent, StoreBatch(b) \/ LoseBatch(b) PROVE OrderInv'
  BY <1>9 DEF StoreBatch, LoseBatch, ramVars, flashVars, historyVars, Contents
<1>10. CASE UNCHANGED vars
  BY <1>10 DEF vars, ramVars, flashVars, historyVars, Contents
<1>11. QED
  BY <1>3, <1>4, <1>5, <1>6, <1>7, <1>8, <1>9, <1>10 DEF Next

LEMMA OrderInit ==
    ASSUME Init
    PROVE  OrderInv
<1>1. Len(nvsData) = 0 /\ count = 0
  BY DEF Init
<1>2. QED
  BY <1>1 DEF OrderInv, InOrder, Sorted, UpTo

LEMMA TypedAndOrdered == Spec => [](TypeOK /\ OrderInv)
<1>1. TypeOK /\ OrderInv /\ [Next]_vars => OrderInv'
  BY OrderStep
<1>2. Init => OrderInv
  BY OrderInit
<1>3. QED
  BY <1>1, <1>2, TypeCorrect, PTL DEF Spec

\* getEntry() shows the entries in the order of their appends, for every size of the
\* ring, whatever has been overwritten, uploaded, saved and loaded in between, until
\* an append has written behind the array.
THEOREM OldestFirstCorrect == Spec => []OldestFirst
<1>1. TypeOK /\ OrderInv => OldestFirst
  BY DEF OrderInv, InOrder, OldestFirst, Sorted
<1>2. QED
  BY <1>1, TypedAndOrdered, PTL

-----------------------------------------------------------------------------
(* The sessions *)

\* The entries published under the session of this boot and not lost since; without
\* those that publish() said were not.
Uploaded ==
    {e \in 1 .. MaxLogged :
        /\ <<boots, e>> \notin unsure
        /\ \/ <<boots, e>> \in stored
           \/ \E b \in sent : b.session = boots /\ e \in b.entries}

NoFutureSession ==
    /\ \A b \in sent : b.session =< boots
    /\ \A n \in 0 .. MaxBoots, e \in 1 .. MaxLogged : <<n, e>> \in stored => n =< boots

\* What was uploaded under this session is older than what is in the log.
UploadedIsOlder ==
    \A e \in Uploaded :
        /\ e =< logged
        /\ \A i \in 1 .. count : Contents[i] # Junk => e < Contents[i]

SessionInv ==
    /\ NoFutureSession
    /\ ~overrun => UploadedIsOlder
    /\ StoredOncePerSession

LEMMA SessionUnchanged ==
    ASSUME SessionInv, UNCHANGED <<sent, stored, unsure, boots, logged, overrun>>,
           count' = count, Contents' = Contents
    PROVE  SessionInv'
  BY DEF SessionInv, NoFutureSession, Uploaded, UploadedIsOlder, StoredOncePerSession

LEMMA AppendSession ==
    ASSUME TypeOK, SessionInv, AppendEntry
    PROVE  SessionInv'
<1>1. /\ UNCHANGED <<sent, stored, unsure, boots>>
      /\ logged' = logged + 1 /\ count' = Grown
  BY DEF AppendEntry, intakeVars
<1>2. NoFutureSession'
  BY <1>1 DEF SessionInv, NoFutureSession
<1>3. CASE WriteBehind
  BY <1>2, <1>3 DEF WriteBehind, SessionInv, StoredOncePerSession
<1>4. CASE Write /\ overrun
  BY <1>2, <1>4 DEF Write, SessionInv, StoredOncePerSession
<1>5. CASE Write /\ ~overrun
  <2>1. overrun' = overrun /\ StoredOncePerSession'
    BY <1>1, <1>5 DEF Write, SessionInv, StoredOncePerSession
  <2>2. Ring
    BY DEF Ring, TypeOK
  <2>3. PICK k \in {0, 1} :
            /\ count' = count + 1 - k
            /\ \A i \in 1 .. count - k : Contents'[i] = Contents[i + k]
            /\ Contents'[count'] = logged + 1
            /\ k = 1 => count = MaxEntries /\ count >= 1 /\ entries[head] = Contents[1]
    BY <1>1, <1>5, <2>2, WriteContents
  <2>4. Uploaded' = Uploaded
    BY <1>1 DEF Uploaded
  <2>5. count \in Nat /\ logged \in Nat
    BY EntriesAreNumbers
  <2>6. ASSUME NEW e \in Uploaded
        PROVE  /\ e =< logged'
               /\ \A i \in 1 .. count' : Contents'[i] # Junk => e < Contents'[i]
    <3>1. e \in Int /\ e =< logged
          /\ \A i \in 1 .. count : Contents[i] # Junk => e < Contents[i]
      BY <1>5 DEF SessionInv, UploadedIsOlder, Uploaded
    <3>2. ASSUME NEW i \in 1 .. count', Contents'[i] # Junk PROVE e < Contents'[i]
      <4>1. CASE i = count'
        <5>1. Contents'[i] = logged + 1
          BY <2>3, <4>1
        <5>2. QED
          BY <2>5, <3>1, <5>1
      <4>2. CASE i # count'
        <5>1. i \in 1 .. count - k /\ i + k \in 1 .. count
          BY <2>3, <2>5, <4>2
        <5>2. Contents'[i] = Contents[i + k]
          BY <2>3, <5>1
        <5>3. QED
          BY <3>1, <3>2, <5>1, <5>2
      <4>3. QED
        BY <4>1, <4>2
    <3>3. e =< logged'
      BY <1>1, <2>5, <3>1
    <3>4. QED
      BY <3>2, <3>3
  <2>7. UploadedIsOlder'
    BY <2>4, <2>6 DEF UploadedIsOlder
  <2>8. QED
    BY <1>2, <2>1, <2>7 DEF SessionInv
<1>6. QED
  BY <1>3, <1>4, <1>5 DEF AppendEntry

LEMMA PublishSession ==
    ASSUME TypeOK, OrderInv, SessionInv, PublishBatch
    PROVE  SessionInv'
<1> DEFINE n == BatchLength
           w == Contents
           batch == NextBatch
           new == Message
<1>1. /\ n \in 1 .. MaxEntries /\ n =< count
      /\ DOMAIN batch = 1 .. n /\ \A i \in 1 .. n : batch[i] = w[i]
      /\ count' = count - n
      /\ \A i \in 1 .. count - n : Contents'[i] = w[i + n]
  BY BatchContents, PublishContents DEF PublishBatch
<1>2. /\ sent' = sent \cup {new}
      /\ UNCHANGED <<stored, unsure, logged, overrun, boots>>
  BY DEF PublishBatch
<1>3. new.session = boots /\ new.entries = Members(batch)
  BY DEF Message
<1>4. /\ w \in [1 .. count -> Int] /\ count \in Nat /\ logged \in Nat /\ n \in Nat
      /\ boots \in Int
  BY <1>1, EntriesAreNumbers DEF TypeOK
<1>5. Members(batch) \subseteq 1 .. MaxLogged
  BY MessageType DEF PublishBatch
<1> HIDE DEF n, w, batch, new
<1>6. \A e \in Members(batch) : \E i \in 1 .. n : e = w[i] /\ w[i] # Junk
  BY <1>1 DEF Members
<1>7. NoFutureSession'
  BY <1>2, <1>3, <1>4 DEF SessionInv, NoFutureSession
<1>8. CASE overrun
  BY <1>2, <1>7, <1>8 DEF SessionInv, StoredOncePerSession
<1>9. CASE ~overrun
  <2>1. /\ UploadedIsOlder
        /\ \A b \in sent : \A e \in b.entries :
              <<b.session, e>> \notin unsure =>
                 /\ <<b.session, e>> \notin stored
                 /\ \A c \in sent : c.session = b.session /\ e \in c.entries => c = b
        /\ Sorted(w, count) /\ UpTo(w, count, logged)
    BY <1>9 DEF SessionInv, StoredOncePerSession, OrderInv, InOrder, w
  <2>2. Uploaded' \subseteq Uploaded \cup Members(batch)
    BY <1>2, <1>3 DEF Uploaded
  <2>3. ASSUME NEW e \in Members(batch) PROVE e \notin Uploaded
    <3>1. PICK i \in 1 .. n : e = w[i] /\ w[i] # Junk
      BY <1>6
    <3>2. i \in 1 .. count /\ w[i] \in Int
      BY <1>1, <1>4
    <3>3. e \in Uploaded => e < w[i]
      BY <2>1, <3>1, <3>2 DEF UploadedIsOlder, w
    <3>4. QED
      BY <3>1, <3>2, <3>3
  <2>4. ASSUME NEW e \in Uploaded'
        PROVE  /\ e =< logged
               /\ \A i \in 1 .. count - n : w[i + n] # Junk => e < w[i + n]
    <3>1. \A i \in 1 .. count - n : i + n \in 1 .. count
      BY <1>1, <1>4
    <3>2. CASE e \in Uploaded
      BY <2>1, <3>1, <3>2 DEF UploadedIsOlder, w
    <3>3. CASE e \in Members(batch)
      <4>1. PICK i \in 1 .. n : e = w[i] /\ w[i] # Junk
        BY <1>6, <3>3
      <4>2. i \in 1 .. count
        BY <1>1, <1>4
      <4>3. e =< logged
        BY <2>1, <4>1, <4>2 DEF UpTo
      <4>4. \A j \in 1 .. count - n : i < j + n
        BY <1>1, <1>4
      <4>5. \A j \in 1 .. count - n : w[j + n] # Junk => w[i] < w[j + n]
        BY <2>1, <3>1, <4>1, <4>2, <4>4 DEF Sorted
      <4>6. QED
        BY <4>1, <4>3, <4>5
    <3>4. QED
      BY <2>2, <3>2, <3>3
  <2>5. UploadedIsOlder'
    BY <1>1, <1>2, <2>4 DEF UploadedIsOlder
  <2>6. ASSUME NEW e \in Members(batch), <<boots, e>> \notin unsure
        PROVE  /\ <<boots, e>> \notin stored
               /\ \A c \in sent : c.session = boots => e \notin c.entries
    BY <1>5, <2>3, <2>6 DEF Uploaded
  <2>7. ASSUME NEW b \in sent', NEW e \in b.entries, <<b.session, e>> \notin unsure
        PROVE  /\ <<b.session, e>> \notin stored
               /\ \A c \in sent' : c.session = b.session /\ e \in c.entries => c = b
    <3>1. CASE b = new
      <4>1. b.session = boots /\ e \in Members(batch)
        BY <1>3, <3>1
      <4>2. QED
        BY <1>2, <2>6, <2>7, <3>1, <4>1
    <3>2. CASE b \in sent
      <4>1. ASSUME NEW c \in sent', c.session = b.session, e \in c.entries
            PROVE  c = b
        <5>1. CASE c \in sent
          BY <2>1, <2>7, <3>2, <4>1, <5>1
        <5>2. CASE c = new
          <6>1. e \in Members(batch) /\ b.session = boots
            BY <1>3, <4>1, <5>2
          <6>2. QED
            BY <2>6, <2>7, <3>2, <4>1, <6>1
        <5>3. QED
          BY <1>2, <5>1, <5>2
      <4>2. QED
        BY <1>2, <2>1, <2>7, <3>2, <4>1
    <3>3. QED
      BY <1>2, <3>1, <3>2
  <2>8. StoredOncePerSession'
    BY <1>2, <2>7 DEF StoredOncePerSession
  <2>9. QED
    BY <1>7, <2>5, <2>8 DEF SessionInv
<1>10. QED
  BY <1>8, <1>9

\* A message that got out although publish() said FALSE is unsure from then on.
LEMMA PublishFailsSession ==
    ASSUME TypeOK, SessionInv, PublishFails
    PROVE  SessionInv'
<1> DEFINE new == Message
           members == Members(NextBatch)
<1>1. /\ UNCHANGED <<stored, logged, overrun, boots>> /\ count' = count
      /\ Contents' = Contents /\ count > 0
  BY DEF PublishFails, ramVars, Contents
<1>2. new.session = boots /\ new.entries = members /\ boots \in Int
  BY DEF Message, TypeOK
<1>3. members \subseteq 1 .. MaxLogged
  BY <1>1, MessageType
<1>4. CASE UNCHANGED <<sent, unsure>>
  BY <1>1, <1>4, SessionUnchanged
<1>5. CASE /\ sent' = sent \cup {new}
           /\ unsure' = unsure \cup {<<boots, e>> : e \in members}
  <2> HIDE DEF new, members
  <2>1. NoFutureSession'
    BY <1>1, <1>2, <1>5 DEF SessionInv, NoFutureSession
  <2>2. Uploaded' \subseteq Uploaded
    BY <1>1, <1>2, <1>5 DEF Uploaded
  <2>3. ~overrun' => UploadedIsOlder'
    BY <1>1, <2>2 DEF SessionInv, UploadedIsOlder
  <2>4. StoredOncePerSession'
    <3>1. SUFFICES ASSUME ~overrun, NEW b \in sent', NEW e \in b.entries,
                          <<b.session, e>> \notin unsure'
                   PROVE  /\ <<b.session, e>> \notin stored
                          /\ \A c \in sent' : c.session = b.session /\ e \in c.entries
                                 => c = b
      BY <1>1 DEF StoredOncePerSession
    <3>2. \A c \in sent' : c.session = b.session /\ e \in c.entries => c \in sent
      BY <1>2, <1>5, <3>1
    <3>3. b \in sent /\ <<b.session, e>> \notin unsure
      BY <1>5, <3>1, <3>2
    <3>4. QED
      BY <3>1, <3>2, <3>3 DEF SessionInv, StoredOncePerSession
  <2>5. QED
    BY <2>1, <2>3, <2>4 DEF SessionInv
<1>6. QED
  BY <1>4, <1>5 DEF PublishFails

\* A new session has nothing uploaded.
LEMMA BootSession ==
    ASSUME TypeOK, SessionInv, Boot
    PROVE  SessionInv'
<1>1. /\ UNCHANGED <<sent, stored, unsure, logged, overrun>>
      /\ boots' = boots + 1 /\ boots \in Int
      /\ boots' \in 0 .. MaxBoots
  BY LogAssumption DEF Boot, intakeVars, TypeOK
<1>2. \A b \in sent : b.session \in Int
  BY DEF TypeOK
<1>3. NoFutureSession'
  <2>1. \A b \in sent : b.session =< boots + 1
    BY <1>1, <1>2 DEF SessionInv, NoFutureSession
  <2>2. \A m \in 0 .. MaxBoots, e \in 1 .. MaxLogged : <<m, e>> \in stored => m =< boots + 1
    BY <1>1 DEF SessionInv, NoFutureSession
  <2>3. QED
    BY <1>1, <2>1, <2>2 DEF NoFutureSession
<1>4. ~(boots' =< boots)
  BY <1>1
<1>5. Uploaded' = {}
  <2>1. \A e \in 1 .. MaxLogged : <<boots', e>> \notin stored
    BY <1>1, <1>4 DEF SessionInv, NoFutureSession
  <2>2. \A b \in sent : b.session # boots'
    BY <1>4 DEF SessionInv, NoFutureSession
  <2>3. QED
    BY <1>1, <2>1, <2>2 DEF Uploaded
<1>6. UploadedIsOlder'
  BY <1>5 DEF UploadedIsOlder
<1>7. StoredOncePerSession'
  BY <1>1 DEF SessionInv, StoredOncePerSession
<1>8. QED
  BY <1>3, <1>6, <1>7 DEF SessionInv

LEMMA StoreSession ==
    ASSUME TypeOK, SessionInv, NEW b \in sent, StoreBatch(b)
    PROVE  SessionInv'
<1>1. /\ sent' = sent \ {b}
      /\ stored' = stored \cup {<<b.session, e>> : e \in b.entries}
      /\ UNCHANGED <<unsure, logged, overrun, boots>>
      /\ count' = count /\ Contents' = Contents
  BY DEF StoreBatch, ramVars, historyVars, Contents
<1>2. NoFutureSession'
  BY <1>1 DEF SessionInv, NoFutureSession
<1>3. Uploaded' \subseteq Uploaded
  BY <1>1 DEF Uploaded
<1>4. ~overrun => UploadedIsOlder'
  BY <1>1, <1>3 DEF SessionInv, UploadedIsOlder
<1>5. StoredOncePerSession'
  <2>1. SUFFICES ASSUME ~overrun, NEW c \in sent', NEW e \in c.entries,
                        <<c.session, e>> \notin unsure
                 PROVE  /\ <<c.session, e>> \notin stored'
                        /\ \A a \in sent' : a.session = c.session /\ e \in a.entries
                               => a = c
    BY <1>1 DEF StoredOncePerSession
  <2>2. c \in sent /\ c # b
    BY <1>1
  <2>3. /\ <<c.session, e>> \notin stored
        /\ \A a \in sent : a.session = c.session /\ e \in a.entries => a = c
    BY <2>1, <2>2 DEF SessionInv, StoredOncePerSession
  <2>4. <<c.session, e>> \notin {<<b.session, x>> : x \in b.entries}
    BY <2>2, <2>3
  <2>5. QED
    BY <1>1, <2>3, <2>4
<1>6. QED
  BY <1>1, <1>2, <1>4, <1>5 DEF SessionInv

LEMMA LoseSession ==
    ASSUME SessionInv, NEW b \in sent, LoseBatch(b)
    PROVE  SessionInv'
<1>1. /\ sent' = sent \ {b} /\ stored' = stored
      /\ UNCHANGED <<unsure, logged, overrun, boots>>
      /\ count' = count /\ Contents' = Contents
  BY DEF LoseBatch, ramVars, historyVars, Contents
<1>2. NoFutureSession'
  BY <1>1 DEF SessionInv, NoFutureSession
<1>3. Uploaded' \subseteq Uploaded
  BY <1>1 DEF Uploaded
<1>4. ~overrun => UploadedIsOlder'
  BY <1>1, <1>3 DEF SessionInv, UploadedIsOlder
<1>5. StoredOncePerSession'
  BY <1>1 DEF SessionInv, StoredOncePerSession
<1>6. QED
  BY <1>1, <1>2, <1>4, <1>5 DEF SessionInv

LEMMA SessionStep ==
    ASSUME TypeOK, OrderInv, SessionInv, [Next]_vars
    PROVE  SessionInv'
<1>1. CASE SaveData
  BY <1>1, SessionUnchanged DEF SaveData, ramVars, intakeVars, historyVars, Contents
<1>2. CASE LogEvent
  BY <1>2, AppendSession DEF LogEvent
<1>3. CASE Reconnect
  BY <1>3, AppendSession DEF Reconnect
<1>4. CASE PublishBatch
  BY <1>4, PublishSession
<1>5. CASE EndUpload
  BY <1>5, SessionUnchanged DEF EndUpload, ramVars, intakeVars, historyVars, Contents
<1>6. CASE Boot
  BY <1>6, BootSession
<1>7. ASSUME NEW b \in sent, StoreBatch(b) PROVE SessionInv'
  BY <1>7, StoreSession
<1>8. ASSUME NEW b \in sent, LoseBatch(b) PROVE SessionInv'
  BY <1>8, LoseSession
<1>9. CASE PublishFails
  BY <1>9, PublishFailsSession
<1>10. CASE UNCHANGED vars
  BY <1>10, SessionUnchanged DEF vars, ramVars, intakeVars, historyVars, Contents
<1>11. QED
  BY <1>1, <1>2, <1>3, <1>4, <1>5, <1>6, <1>7, <1>8, <1>9, <1>10
  DEF Next

\* Uploads, resets between publish() and the removal, lost batches and overlapping
\* handlers of the backend, in any order: within one session no entry is stored
\* twice, so that the session tells a repeated upload from a repeated event, unless
\* it got out although publish() returned FALSE.
THEOREM StoredOncePerSessionCorrect == Spec => []StoredOncePerSession
<1>1. Init => SessionInv
  BY DEF Init, SessionInv, NoFutureSession, Uploaded, UploadedIsOlder,
         StoredOncePerSession
<1>2. TypeOK /\ OrderInv /\ SessionInv /\ [Next]_vars => SessionInv'
  BY SessionStep
<1>3. SessionInv => StoredOncePerSession
  BY DEF SessionInv
<1>4. QED
  BY <1>1, <1>2, <1>3, TypedAndOrdered, PTL DEF Spec
=============================================================================

--------------------------- MODULE DictionaryProofs ---------------------------
(***************************************************************************)
(* lib/dictionary.c for every set of keys and values, every hash function, *)
(* every size of the array and every failure of calloc and strdup.         *)
(*                                                                         *)
(* The invariant IInv says where each key is.  WriteEntry and WriteCounts  *)
(* carry it over the one write an operation makes; the operations differ   *)
(* only in the slot and in the entry.  The refinement reads the map off    *)
(* the array (Printed) and uses the same lemmas.                           *)
(***************************************************************************)
EXTENDS Dictionary, FiniteSetTheorems, WellFoundedInduction, TLAPS

\* A set of slots that is not empty has a least one.
LEMMA MinOf ==
  ASSUME NEW S \in SUBSET Nat, S # {}
  PROVE  Min(S) \in S /\ \A y \in S : Min(S) <= y
<1>1. PICK x \in S : \A y \in S : ~(<<y, x>> \in OpToRel(<, Nat))
  BY NatLessThanWellFounded, WFMin
<1>2. ASSUME NEW y \in S PROVE x <= y
  <2>1. <<y, x>> \in OpToRel(<, Nat) <=> <<y, x>> \in Nat \X Nat /\ y < x
    BY Zenon DEF OpToRel
  <2>2. ~(y < x)
    BY <1>1, <2>1, Zenon
  <2> QED
    BY <2>2
<1> QED
  BY <1>2 DEF Min

\* The number of slots of a kind in an array of n.
LEMMA SlotCount ==
  ASSUME NEW n \in Nat, NEW S \in SUBSET (0..(n - 1)), NEW i
  PROVE  /\ Cardinality(S) \in 0..n
         /\ Cardinality(S) = n => S = 0..(n - 1)
         /\ Cardinality(S \cup {i}) = IF i \in S THEN Cardinality(S) ELSE Cardinality(S) + 1
         /\ Cardinality(S \ {i}) = IF i \in S THEN Cardinality(S) - 1 ELSE Cardinality(S)
<1>1. IsFiniteSet(0..(n - 1)) /\ Cardinality(0..(n - 1)) = n
  BY FS_Interval
<1>2. IsFiniteSet(S) /\ Cardinality(S) <= n /\ (Cardinality(S) = n => S = 0..(n - 1))
  BY <1>1, FS_Subset, ZenonT(60)
<1>3. Cardinality(S) \in Nat
  BY <1>2, FS_CardinalityType
<1> QED
  BY <1>2, <1>3, FS_AddElement, FS_RemoveElement, SMTT(60)
-----------------------------------------------------------------------------
Entry == [hash : Nat, key : Keys \cup {NULL}, val : Vals \cup {NULL}]

Flags == live \in BOOLEAN /\ keyless \in BOOLEAN /\ fault \in BOOLEAN
TypeOK ==
  /\ size \in Nat /\ count \in Nat /\ strings \in Int /\ creates \in Nat
  /\ entries \in [Slots -> Entry] /\ Flags

\* dictionary_find_idx_by_key compares the hashes first: an entry is found
\* only because it carries the hash of its key.
HashInv == \A i \in Slots : entries[i].key # NULL => entries[i].hash = Hash[entries[i].key]

DeadInv == ~live => size = 0 /\ count = 0

Held == {i \in Slots : entries[i].val # NULL}

\* A slot that is free holds no string, unless the copy of a key has failed.
NoOrphan == keyless \/ Held \subseteq Used

IInv ==
  /\ TypeOK /\ HashInv /\ DeadInv /\ NoOrphan
  /\ KeysUnique /\ CountCoversEntries /\ EntriesAccounted
-----------------------------------------------------------------------------
\* Both searches: the slot of a key, and the first free slot.
LEMMA Search ==
  ASSUME TypeOK, HashInv, KeysUnique, NEW k \in Keys
  PROVE  /\ Matches(k) = {i \in Slots : entries[i].key = k}
         /\ Matches(k) # {} =>
              /\ dictionary_find_idx_by_key(k) \in Slots
              /\ entries[dictionary_find_idx_by_key(k)].key = k
              /\ Matches(k) = {dictionary_find_idx_by_key(k)}
<1>1. Matches(k) = {i \in Slots : entries[i].key = k}
  BY DictionaryAssumption DEF DictionaryAssumption, TypeOK, HashInv, Matches, Entry
<1>2. ASSUME Matches(k) # {} PROVE dictionary_find_idx_by_key(k) \in Matches(k)
  <2>1. Matches(k) \in SUBSET Nat
    BY DEF TypeOK, Matches, Slots
  <2> QED
    BY <1>2, <2>1, MinOf DEF dictionary_find_idx_by_key
<1>3. \A i, l \in Matches(k) : i = l
  BY <1>1, DictionaryAssumption DEF DictionaryAssumption, KeysUnique, Used
<1> QED
  BY <1>1, <1>2, <1>3

\* dictionary_resize leaves the entries where they are and the slots it adds
\* free, and there is a free slot then.
LEMMA Resize ==
  ASSUME TypeOK, CountCoversEntries
  PROVE  LET e == Copied(Grown)
             i == Min(Free(e, Grown))
         IN  /\ Grown \in Nat /\ size <= Grown /\ count < Grown
             /\ e \in [0..(Grown - 1) -> Entry]
             /\ \A l \in 0..(Grown - 1) : e[l] = IF l \in Slots THEN entries[l] ELSE Empty
             /\ Free(e, Grown) # {} /\ i \in 0..(Grown - 1) /\ e[i].key = NULL
<1> DEFINE e == Copied(Grown)
           i == Min(Free(e, Grown))
<1>1. Grown \in Nat /\ size <= Grown /\ count < Grown
  BY DictionaryAssumption DEF DictionaryAssumption, TypeOK, CountCoversEntries, Grown
<1>2. \A l \in 0..(Grown - 1) : e[l] = IF l \in Slots THEN entries[l] ELSE Empty
  BY <1>1 DEF Copied
<1>3. e \in [0..(Grown - 1) -> Entry]
  <2>1. Empty \in Entry
    BY DEF Empty, Entry
  <2> QED
    BY <2>1 DEF Copied, TypeOK
<1>4. Free(e, Grown) # {}
  <2>1. SUFFICES ASSUME Free(e, Grown) = {} PROVE FALSE
    OBVIOUS
  <2>2. Used = 0..(Grown - 1)
    BY <1>1, <1>2, <2>1, DictionaryAssumption
       DEF DictionaryAssumption, Used, Free, Slots, Empty, TypeOK
  <2>3. Cardinality(Used) = Grown
    BY <1>1, <2>2, FS_Interval
  <2> QED
    BY <1>1, <2>3 DEF CountCoversEntries, TypeOK
<1>5. i \in Free(e, Grown)
  <2>1. Free(e, Grown) \in SUBSET Nat
    BY <1>1 DEF Free
  <2> QED
    BY <1>4, <2>1, MinOf
<1> QED
  BY <1>1, <1>2, <1>3, <1>4, <1>5 DEF Free

\* What every change of the array comes to: one entry is written, into the
\* array as it is or into the copy dictionary_resize has made of it, and its
\* key is nowhere else.
Writes(n, e, i, new) ==
  /\ n \in Nat /\ size <= n /\ e \in [0..(n - 1) -> Entry]
  /\ \A l \in 0..(n - 1) : e[l] = IF l \in Slots THEN entries[l] ELSE Empty
  /\ i \in 0..(n - 1) /\ new \in Entry
  /\ new.key # NULL => new.hash = Hash[new.key]
  /\ new.key = NULL \/ (\A l \in Slots : entries[l].key = new.key => l = i)
  /\ size' = n /\ entries' = [e EXCEPT ![i] = new]

\* What the array holds after a write to one of its slots.
LEMMA WriteEntry ==
  ASSUME TypeOK, HashInv, KeysUnique, NEW n, NEW e, NEW i, NEW new, Writes(n, e, i, new)
  PROVE  /\ entries' \in [Slots' -> Entry] /\ HashInv' /\ KeysUnique'
         /\ Used' = IF new.key = NULL THEN Used \ {i} ELSE Used \cup {i}
         /\ Held' = IF new.val = NULL THEN Held \ {i} ELSE Held \cup {i}
<1> USE DEF TypeOK, Slots, Writes
<1>1. entries' \in [Slots' -> Entry]
  OBVIOUS
<1>2. \A l \in 0..(n - 1) : entries'[l] = IF l = i THEN new ELSE IF l \in Slots THEN entries[l] ELSE Empty
  OBVIOUS
<1>3. Used' = IF new.key = NULL THEN Used \ {i} ELSE Used \cup {i}
  BY <1>2 DEF Used, Empty
<1>4. Held' = IF new.val = NULL THEN Held \ {i} ELSE Held \cup {i}
  BY <1>2 DEF Held, Empty
<1>5. HashInv'
  BY <1>2 DEF HashInv, Empty
<1>6. KeysUnique'
  <2>1. SUFFICES ASSUME NEW l \in Used', NEW m \in Used', entries'[l].key = entries'[m].key
                 PROVE  l = m
    BY DEF KeysUnique
  <2> QED
    BY <1>2, <2>1 DEF KeysUnique, Used, Empty
<1> QED
  BY <1>1, <1>3, <1>4, <1>5, <1>6

\* The slots that hold a key and the slots that hold a value are counted.
LEMMA Counted ==
  ASSUME TypeOK
  PROVE  /\ Used \in SUBSET (0..(size - 1)) /\ Cardinality(Used) \in 0..size
         /\ Held \in SUBSET (0..(size - 1)) /\ Cardinality(Held) \in 0..size
<1>1. Used \in SUBSET (0..(size - 1)) /\ Held \in SUBSET (0..(size - 1)) /\ size \in Nat
  BY DEF TypeOK, Used, Held, Slots
<1> QED
  BY <1>1, SlotCount
\* The two counts change by what the entry held before and what it holds now.
LEMMA WriteCounts ==
  ASSUME TypeOK, HashInv, KeysUnique, NEW n, NEW e, NEW i, NEW new, Writes(n, e, i, new)
  PROVE  /\ Cardinality(Used') = Cardinality(Used) - Owned(e[i].key) + Owned(new.key)
         /\ Cardinality(Held') = Cardinality(Held) - Owned(e[i].val) + Owned(new.val)
<1>1. /\ Used \in SUBSET (0..(size - 1)) /\ Cardinality(Used) \in Nat
      /\ Held \in SUBSET (0..(size - 1)) /\ Cardinality(Held) \in Nat /\ size \in Nat
  BY Counted DEF TypeOK
<1>2. /\ i \in Used <=> e[i].key # NULL
      /\ i \in Held <=> e[i].val # NULL
  BY DEF Writes, Used, Held, Empty
<1>3. /\ Cardinality(Used \cup {i}) = IF i \in Used THEN Cardinality(Used) ELSE Cardinality(Used) + 1
      /\ Cardinality(Used \ {i}) = IF i \in Used THEN Cardinality(Used) - 1 ELSE Cardinality(Used)
      /\ Cardinality(Held \cup {i}) = IF i \in Held THEN Cardinality(Held) ELSE Cardinality(Held) + 1
      /\ Cardinality(Held \ {i}) = IF i \in Held THEN Cardinality(Held) - 1 ELSE Cardinality(Held)
  BY <1>1, SlotCount
<1>4. /\ Used' = IF new.key = NULL THEN Used \ {i} ELSE Used \cup {i}
      /\ Held' = IF new.val = NULL THEN Held \ {i} ELSE Held \cup {i}
  BY WriteEntry
<1> QED
  BY <1>1, <1>2, <1>3, <1>4 DEF Owned
-----------------------------------------------------------------------------

\* No dictionary holds nothing.
LEMMA InitInv == Init => IInv
<1> SUFFICES ASSUME Init PROVE IInv
  OBVIOUS
<1> USE DictionaryAssumption DEF DictionaryAssumption, Init, Slots, Used, Held
<1>1. Slots = {}
  OBVIOUS
<1>2. TypeOK
  <2>1. Flags
    BY Zenon DEF Flags
  <2>2. entries \in [Slots -> Entry]
    BY <1>1
  <2> QED
    BY <2>1, <2>2 DEF TypeOK
<1>3. HashInv /\ DeadInv /\ NoOrphan /\ KeysUnique
  BY <1>1 DEF HashInv, DeadInv, NoOrphan, KeysUnique
<1>4. Used = {} /\ Held = {}
  BY <1>1
<1>5. CountCoversEntries /\ EntriesAccounted
  BY <1>4, FS_EmptySet DEF CountCoversEntries, EntriesAccounted
<1> QED
  BY <1>2, <1>3, <1>5 DEF IInv

\* A call that changes no entry.
LEMMA ReadStep ==
  ASSUME IInv, UNCHANGED <<live, size, count, entries, strings, keyless>>,
         creates' \in Nat, fault' \in BOOLEAN
  PROVE  IInv'
<1>1. Used' = Used /\ Held' = Held /\ Slots' = Slots
  BY DEF Used, Held, Slots
<1>2. Flags'
  BY Zenon DEF IInv, TypeOK, Flags
<1> QED
  BY <1>1, <1>2 DEF IInv, TypeOK, HashInv, DeadInv, NoOrphan, KeysUnique, CountCoversEntries,
              EntriesAccounted, Held

\* dictionary_create: a new array is free in every slot, and a failed one is none.
LEMMA CreateStep ==
  ASSUME IInv, NEW n \in CreateSizes, dictionary_create(n)
  PROVE  IInv'
<1>1. CASE live'
  <2> USE DEF dictionary_create, Returns, IInv
  <2>1. Aligned(n) \in Nat
    BY DictionaryAssumption DEF DictionaryAssumption, Aligned
  <2>2. entries' = [i \in 0..(Aligned(n) - 1) |-> Empty] /\ size' = Aligned(n) /\ count' = 0
    BY <1>1
  <2>3. Empty \in Entry
    BY DEF Empty, Entry
  <2>4. TypeOK'
    <3>1. Flags'
      BY Zenon DEF TypeOK, Flags
    <3> QED
      BY <1>1, <2>1, <2>2, <2>3, <3>1 DEF TypeOK, Slots
  <2>5. Used' = {} /\ Held' = {}
    BY <2>2 DEF Used, Held, Slots, Empty
  <2>6. HashInv' /\ DeadInv' /\ KeysUnique' /\ NoOrphan'
    BY <1>1, <2>2, <2>5 DEF HashInv, DeadInv, KeysUnique, NoOrphan, Slots, Empty
  <2>7. Used = {} /\ Held = {}
    BY DEF DeadInv, Used, Held, Slots
  <2>8. EntriesAccounted'
    <3>1. keyless' = keyless /\ strings' = strings
      OBVIOUS
    <3>2. Cardinality(Used') = 0 /\ Cardinality(Held') = 0
      BY <2>5, FS_EmptySet
    <3>3. keyless \/ strings = 0
      BY <2>7, FS_EmptySet DEF EntriesAccounted, Held
    <3> QED
      BY <2>2, <3>1, <3>2, <3>3 DEF EntriesAccounted, Held
  <2> QED
    BY <2>1, <2>2, <2>4, <2>5, <2>6, <2>8, FS_EmptySet DEF CountCoversEntries
<1>2. CASE ~live'
  <2>1. UNCHANGED <<live, size, count, entries, strings, keyless, fault>> /\ creates' = creates + 1
    BY <1>2 DEF dictionary_create, Returns
  <2> QED
    BY <2>1, ReadStep DEF IInv, TypeOK, Flags
<1> QED
  BY <1>1, <1>2

\* dictionary_destroy frees the strings of every entry.
LEMMA DestroyStep ==
  ASSUME IInv, dictionary_destroy
  PROVE  IInv'
<1> USE DEF dictionary_destroy, Returns, IInv
<1>1. Used' = {} /\ Held' = {} /\ size' = 0 /\ count' = 0 /\ ~live'
  BY DEF Used, Held, Slots
<1>2. strings' = strings - Cardinality(Used) - Cardinality(Held)
  BY DEF Used, Held
<1>3. Slots' = {}
  BY <1>1 DEF Slots
<1>4. TypeOK'
  <2>1. Flags'
    BY Zenon DEF TypeOK, Flags
  <2> QED
    BY <1>1, <1>2, <1>3, <2>1, Counted DEF TypeOK
<1>5. HashInv' /\ DeadInv' /\ KeysUnique' /\ NoOrphan'
  BY <1>1, <1>3 DEF HashInv, DeadInv, KeysUnique, NoOrphan
<1>6. CountCoversEntries'
  BY <1>1, FS_EmptySet DEF CountCoversEntries
<1>7. EntriesAccounted'
  <2>1. keyless' \/ strings' = 0
    BY <1>2, Counted DEF EntriesAccounted, Held, TypeOK
  <2>2. Cardinality(Used') = 0 /\ Cardinality(Held') = 0
    BY <1>1, FS_EmptySet
  <2> QED
    BY <1>1, <2>1, <2>2 DEF EntriesAccounted, Held
<1> QED
  BY <1>4, <1>5, <1>6, <1>7

\* dictionary_add of a key that is there: its value is replaced, or lost.
LEMMA RefreshEffect ==
  ASSUME IInv, NEW k \in Keys, NEW v \in Vals \cup {NULL}, Refresh(k, v)
  PROVE  \E i \in Used, new \in Entry :
           /\ Writes(size, entries, i, new) /\ entries[i].key = k /\ new.key = k
           /\ strings' = strings - Owned(entries[i].val) + Owned(new.val)
           /\ UNCHANGED <<live, size, count, creates, fault>>
           /\ \/ new.val = v /\ Adds({TRUE}, {})
              \/ new.val = NULL /\ Adds({FALSE}, {"val"})
<1> DEFINE i == dictionary_find_idx_by_key(k)
<1> USE DEF IInv
<1>1. i \in Slots /\ entries[i].key = k /\ Matches(k) = {i}
  BY Search DEF Refresh
<1>2. PICK w \in Vals \cup {NULL} :
        /\ entries' = [entries EXCEPT ![i].val = w]
        /\ strings' = strings - Owned(entries[i].val) + Owned(w)
        /\ (w = v /\ Adds({TRUE}, {})) \/ (w = NULL /\ Adds({FALSE}, {"val"}))
  <2>1. CASE /\ entries' = [entries EXCEPT ![i].val = v]
             /\ strings' = strings - Owned(entries[i].val) + 1
             /\ Adds({TRUE}, {})
    BY <2>1 DEF Refresh, Owned
  <2>2. CASE /\ entries' = [entries EXCEPT ![i].val = NULL]
             /\ strings' = strings - Owned(entries[i].val)
             /\ Adds({FALSE}, {"val"})
    <3>1. strings' = strings - Owned(entries[i].val) + Owned(NULL)
      BY <2>2 DEF Owned, TypeOK
    <3> QED
      BY <2>2, <3>1, Zenon
  <2> QED
    BY <2>1, <2>2 DEF Refresh
<1> DEFINE new == [entries[i] EXCEPT !.val = w]
<1>3. /\ new \in Entry /\ new.key = k /\ new.val = w /\ new.hash = Hash[k]
      /\ entries' = [entries EXCEPT ![i] = new]
  BY <1>1, <1>2, DictionaryAssumption DEF DictionaryAssumption, TypeOK, Entry, HashInv
<1>4. UNCHANGED <<live, size, count, creates, fault>>
  BY DEF Refresh
<1> HIDE DEF i, new
<1>5. Writes(size, entries, i, new) /\ i \in Used
  <2>1. k # NULL /\ i \in Used /\ i \in 0..(size - 1) /\ size \in Nat /\ size <= size
    BY <1>1, DictionaryAssumption DEF DictionaryAssumption, Used, Slots, TypeOK
  <2>2. entries \in [0..(size - 1) -> Entry] /\ size' = size
    BY <1>4 DEF TypeOK, Slots
  <2>3. \A l \in 0..(size - 1) : entries[l] = IF l \in Slots THEN entries[l] ELSE Empty
    BY DEF Slots
  <2>4. \A l \in Slots : entries[l].key = k => l = i
    BY <1>1, <2>1 DEF KeysUnique, Used
  <2> QED
    BY <1>3, <2>1, <2>2, <2>3, <2>4 DEF Writes
<1> QED
  BY <1>1, <1>2, <1>3, <1>4, <1>5

\* Replacing a value keeps every key where it is and count as it was.
LEMMA RefreshStep ==
  ASSUME IInv, NEW k \in Keys, NEW v \in Vals \cup {NULL}, Refresh(k, v)
  PROVE  IInv'
<1> USE DEF IInv
<1>1. PICK i \in Used, new \in Entry :
        /\ Writes(size, entries, i, new) /\ entries[i].key = k /\ new.key = k
        /\ strings' = strings - Owned(entries[i].val) + Owned(new.val)
        /\ UNCHANGED <<live, size, count, creates, fault>>
        /\ \/ new.val = v /\ Adds({TRUE}, {})
           \/ new.val = NULL /\ Adds({FALSE}, {"val"})
  BY RefreshEffect
<1>2. keyless' = keyless
  <2>1. "key" \notin {} /\ "key" \notin {"val"}
    OBVIOUS
  <2> QED
    BY <1>1, <2>1, Zenon DEF Adds, TypeOK, Flags
<1>3. /\ entries' \in [Slots' -> Entry] /\ HashInv' /\ KeysUnique' /\ Used' = Used
      /\ Held' = IF new.val = NULL THEN Held \ {i} ELSE Held \cup {i}
  <2>1. /\ entries' \in [Slots' -> Entry] /\ HashInv' /\ KeysUnique'
        /\ Used' = IF new.key = NULL THEN Used \ {i} ELSE Used \cup {i}
        /\ Held' = IF new.val = NULL THEN Held \ {i} ELSE Held \cup {i}
    BY <1>1, WriteEntry
  <2>2. new.key # NULL /\ i \in Used
    BY <1>1, DictionaryAssumption DEF DictionaryAssumption
  <2> QED
    BY <2>1, <2>2
<1>4. Cardinality(Held') = Cardinality(Held) - Owned(entries[i].val) + Owned(new.val)
  BY <1>1, WriteCounts
<1>5. TypeOK'
  <2>1. Flags'
    BY <1>1, <1>2, Zenon DEF TypeOK, Flags
  <2>2. Owned(entries[i].val) \in Int /\ Owned(new.val) \in Int
    BY DEF Owned
  <2> QED
    BY <1>1, <1>3, <2>1, <2>2 DEF TypeOK
<1>6. DeadInv' /\ CountCoversEntries' /\ NoOrphan'
  BY <1>1, <1>2, <1>3 DEF DeadInv, CountCoversEntries, NoOrphan
<1>7. EntriesAccounted'
  <2>1. Owned(entries[i].val) \in Int /\ Owned(new.val) \in Int /\ Cardinality(Held) \in Int
    BY Counted DEF Owned
  <2> QED
    BY <1>1, <1>2, <1>3, <1>4, <2>1 DEF EntriesAccounted, Held, TypeOK
<1> QED
  BY <1>3, <1>5, <1>6, <1>7

\* dictionary_del of a key that is there empties its slot.
LEMMA DeleteEffect ==
  ASSUME IInv, NEW k \in Keys, dictionary_del(k), Matches(k) # {}
  PROVE  \E i \in Used :
           /\ Writes(size, entries, i, Empty) /\ entries[i].key = k
           /\ strings' = strings - 1 - Owned(entries[i].val) /\ count' = count - 1
           /\ UNCHANGED <<live, size, creates, fault, keyless>>
<1> DEFINE i == dictionary_find_idx_by_key(k)
<1> USE DEF IInv
<1>1. i \in Slots /\ entries[i].key = k
  BY Search
<1>2. /\ entries' = [entries EXCEPT ![i] = Empty] /\ strings' = strings - 1 - Owned(entries[i].val)
      /\ count' = count - 1 /\ UNCHANGED <<live, size, creates, fault, keyless>>
  BY DEF dictionary_del, Returns
<1>3. Empty \in Entry /\ Empty.key = NULL
  BY DEF Empty, Entry
<1> HIDE DEF i
<1>4. i \in Used
  BY <1>1, DictionaryAssumption DEF DictionaryAssumption, Used
<1>5. Writes(size, entries, i, Empty)
  BY <1>1, <1>2, <1>3 DEF Writes, TypeOK, Slots
<1> QED
  BY <1>1, <1>2, <1>4, <1>5

\* Deleting a key takes it, and its value if it has one, off both counts.
LEMMA DeleteStep ==
  ASSUME IInv, NEW k \in Keys, dictionary_del(k), Matches(k) # {}
  PROVE  IInv'
<1> USE DEF IInv
<1>1. PICK i \in Used :
        /\ Writes(size, entries, i, Empty) /\ entries[i].key = k
        /\ strings' = strings - 1 - Owned(entries[i].val) /\ count' = count - 1
        /\ UNCHANGED <<live, size, creates, fault, keyless>>
  BY DeleteEffect
<1>2. Empty.key = NULL /\ Empty.val = NULL
  BY DEF Empty
<1>3. Owned(entries[i].key) = 1
  BY <1>1, DictionaryAssumption DEF DictionaryAssumption, Owned
<1>4. /\ entries' \in [Slots' -> Entry] /\ HashInv' /\ KeysUnique'
      /\ Used' = Used \ {i} /\ Held' = Held \ {i}
  BY <1>1, <1>2, WriteEntry
<1>5. Owned(NULL) = 0 /\ Owned(entries[i].val) \in Int
  BY DEF Owned
<1>6. /\ Cardinality(Used') = Cardinality(Used) - 1
      /\ Cardinality(Held') = Cardinality(Held) - Owned(entries[i].val)
      /\ Cardinality(Used) \in Nat \ {0} /\ Cardinality(Held) \in Nat
  <2>1. /\ Cardinality(Used') = Cardinality(Used) - 1 + 0
        /\ Cardinality(Held') = Cardinality(Held) - Owned(entries[i].val) + 0
    BY <1>1, <1>2, <1>3, <1>5, WriteCounts
  <2>2. Cardinality(Used) \in Nat /\ Cardinality(Held) \in Nat
    BY Counted
  <2>3. Cardinality(Used) # 0
    <3>1. IsFiniteSet(0..(size - 1))
      BY FS_Interval DEF TypeOK
    <3>2. IsFiniteSet(Used)
      BY <3>1, Counted, FS_Subset
    <3> QED
      BY <3>2, FS_EmptySet
  <2> QED
    BY <1>5, <2>1, <2>2, <2>3
<1>7. TypeOK'
  <2>1. Flags'
    BY <1>1, Zenon DEF TypeOK, Flags
  <2> QED
    BY <1>1, <1>4, <1>5, <1>6, <2>1 DEF TypeOK, CountCoversEntries
<1>8. CountCoversEntries' /\ DeadInv' /\ NoOrphan'
  <2>1. CountCoversEntries'
    BY <1>1, <1>6 DEF CountCoversEntries, TypeOK
  <2>2. live
    BY DEF dictionary_del
  <2> QED
    BY <1>1, <1>4, <2>1, <2>2 DEF DeadInv, NoOrphan
<1>9. EntriesAccounted'
  BY <1>1, <1>5, <1>6 DEF EntriesAccounted, Held, TypeOK
<1> QED
  BY <1>4, <1>7, <1>8, <1>9

\* dictionary_add of a new key: the pair, or what strdup could copy of it, goes
\* into the first free slot.
LEMMA InsertEffect ==
  ASSUME IInv, NEW k \in Keys, NEW v \in Vals \cup {NULL}, Insert(k, v)
  PROVE  \E e \in [0..(Grown - 1) -> Entry], i \in 0..(Grown - 1), new \in Entry :
         \E f \in SUBSET (IF v = NULL THEN {"key"} ELSE {"key", "val"}) :
           /\ Writes(Grown, e, i, new) /\ e[i].key = NULL
           /\ new.key = (IF "key" \in f THEN NULL ELSE k) /\ new.val = (IF "val" \in f THEN NULL ELSE v)
           /\ strings' = strings + Owned(new.key) + Owned(new.val) /\ Adds({TRUE}, f)
           /\ count < Grown /\ size' = Grown /\ count' = count + 1
           /\ UNCHANGED <<live, creates, fault>>
<1> DEFINE e == Copied(Grown)
           i == Min(Free(e, Grown))
<1> USE DEF IInv
<1>1. /\ Grown \in Nat /\ size <= Grown /\ count < Grown /\ e \in [0..(Grown - 1) -> Entry]
      /\ \A l \in 0..(Grown - 1) : e[l] = IF l \in Slots THEN entries[l] ELSE Empty
      /\ Free(e, Grown) # {} /\ i \in 0..(Grown - 1) /\ e[i].key = NULL
  BY Resize
<1>2. PICK f \in SUBSET (IF v = NULL THEN {"key"} ELSE {"key", "val"}) :
        LET new == [hash |-> Hash[k], key |-> IF "key" \in f THEN NULL ELSE k,
                    val |-> IF "val" \in f THEN NULL ELSE v]
        IN  /\ entries' = [e EXCEPT ![i] = new]
            /\ strings' = strings + Owned(new.key) + Owned(new.val)
            /\ Adds({TRUE}, f)
  BY <1>1 DEF Insert
<1> DEFINE new == [hash |-> Hash[k], key |-> IF "key" \in f THEN NULL ELSE k,
                   val |-> IF "val" \in f THEN NULL ELSE v]
<1>3. /\ size' = Grown /\ count' = count + 1 /\ UNCHANGED <<live, creates, fault>>
      /\ Matches(k) = {}
  BY <1>1 DEF Insert
<1>4. /\ new \in Entry /\ new.hash = Hash[k] /\ new.key \in {k, NULL}
      /\ new.key = (IF "key" \in f THEN NULL ELSE k) /\ new.val = (IF "val" \in f THEN NULL ELSE v)
  BY DictionaryAssumption DEF DictionaryAssumption, Entry
<1>5. /\ entries' = [e EXCEPT ![i] = new] /\ Adds({TRUE}, f)
      /\ strings' = strings + Owned(new.key) + Owned(new.val)
  BY <1>2
<1> HIDE DEF e, i, new
<1>6. Writes(Grown, e, i, new)
  <2>1. \A l \in Slots : entries[l].key # k
    BY <1>3, Search
  <2> QED
    BY <1>1, <1>3, <1>4, <1>5, <2>1 DEF Writes
<1> QED
  BY <1>1, <1>3, <1>4, <1>5, <1>6

\* Inserting where there is room adds one to count; a key that strdup could not
\* copy is counted all the same, and keyless remembers it.
LEMMA InsertStep ==
  ASSUME IInv, NEW k \in Keys, NEW v \in Vals \cup {NULL}, Insert(k, v)
  PROVE  IInv'
<1> USE DEF IInv
<1>1. PICK e \in [0..(Grown - 1) -> Entry], i \in 0..(Grown - 1), new \in Entry :
      \E f \in SUBSET (IF v = NULL THEN {"key"} ELSE {"key", "val"}) :
        /\ Writes(Grown, e, i, new) /\ e[i].key = NULL
        /\ new.key = (IF "key" \in f THEN NULL ELSE k) /\ new.val = (IF "val" \in f THEN NULL ELSE v)
        /\ strings' = strings + Owned(new.key) + Owned(new.val) /\ Adds({TRUE}, f)
        /\ count < Grown /\ size' = Grown /\ count' = count + 1
        /\ UNCHANGED <<live, creates, fault>>
  BY InsertEffect
<1>2. /\ Writes(Grown, e, i, new) /\ e[i].key = NULL
      /\ strings' = strings + Owned(new.key) + Owned(new.val)
      /\ count < Grown /\ size' = Grown /\ count' = count + 1
      /\ UNCHANGED <<live, creates, fault>> /\ live
  BY <1>1 DEF Insert
<1>3. keyless' = (keyless \/ new.key = NULL)
  <2>1. PICK f : new.key = (IF "key" \in f THEN NULL ELSE k) /\ Adds({TRUE}, f)
    BY <1>1
  <2>2. new.key = NULL <=> "key" \in f
    BY <2>1, DictionaryAssumption DEF DictionaryAssumption
  <2> QED
    BY <2>1, <2>2, Zenon DEF Adds
<1>4. /\ entries' \in [Slots' -> Entry] /\ HashInv' /\ KeysUnique'
      /\ Used' = IF new.key = NULL THEN Used \ {i} ELSE Used \cup {i}
      /\ Held' = IF new.val = NULL THEN Held \ {i} ELSE Held \cup {i}
  BY <1>2, WriteEntry
<1>5. /\ Owned(new.key) \in {0, 1} /\ Owned(new.val) \in {0, 1} /\ Owned(e[i].val) \in {0, 1}
      /\ Owned(e[i].key) = 0 /\ (new.key # NULL => Owned(new.key) = 1)
      /\ Cardinality(Used) \in Nat /\ Cardinality(Held) \in Nat
  BY <1>2, Counted DEF Owned
<1>6. /\ Cardinality(Used') = Cardinality(Used) + Owned(new.key)
      /\ Cardinality(Held') = Cardinality(Held) - Owned(e[i].val) + Owned(new.val)
  <2>1. /\ Cardinality(Used') = Cardinality(Used) - Owned(e[i].key) + Owned(new.key)
        /\ Cardinality(Held') = Cardinality(Held) - Owned(e[i].val) + Owned(new.val)
    BY <1>2, WriteCounts
  <2> QED
    BY <1>5, <2>1
<1>7. TypeOK'
  <2>1. Flags'
    BY <1>2, <1>3, Zenon DEF TypeOK, Flags
  <2> QED
    BY <1>2, <1>4, <1>5, <2>1, SMTT(60) DEF TypeOK, Writes
<1>8. CountCoversEntries' /\ DeadInv'
  BY <1>2, <1>5, <1>6 DEF CountCoversEntries, DeadInv, TypeOK, Writes
<1>9. ASSUME ~keyless' PROVE ~keyless /\ new.key # NULL /\ e[i].val = NULL
  <2>1. ~keyless /\ new.key # NULL
    BY <1>3, <1>9
  <2>2. i \notin Used /\ e[i] = IF i \in Slots THEN entries[i] ELSE Empty
    BY <1>2 DEF Used, Writes
  <2> QED
    BY <2>1, <2>2 DEF NoOrphan, Held, Empty
<1>10. NoOrphan'
  BY <1>4, <1>9 DEF NoOrphan
<1>11. EntriesAccounted'
  <2>1. SUFFICES ASSUME ~keyless'
                 PROVE  /\ count' = Cardinality(Used')
                        /\ strings' = Cardinality(Used') + Cardinality(Held')
    BY DEF EntriesAccounted, Held
  <2>2. count = Cardinality(Used) /\ strings = Cardinality(Used) + Cardinality(Held)
    BY <1>9, <2>1 DEF EntriesAccounted, Held
  <2>3. Owned(new.key) = 1 /\ Owned(e[i].val) = 0
    BY <1>5, <1>9, <2>1 DEF Owned
  <2> QED
    BY <1>2, <1>5, <1>6, <2>2, <2>3
<1> QED
  BY <1>4, <1>7, <1>8, <1>10, <1>11

\* Every call of the program preserves the invariant.
LEMMA InvStep == IInv /\ [Next]_vars => IInv'
<1> SUFFICES ASSUME IInv, [Next]_vars PROVE IInv'
  OBVIOUS
<1>0. creates \in Nat /\ fault \in BOOLEAN
  BY DEF IInv, TypeOK, Flags
<1>1. ASSUME NEW n \in CreateSizes, dictionary_create(n) PROVE IInv'
  BY <1>1, CreateStep
<1>2. ASSUME NEW k \in Keys, dictionary_get(k) PROVE IInv'
  BY <1>0, <1>2, ReadStep DEF dictionary_get, Returns
<1>3. ASSUME NEW k \in Keys, dictionary_del(k) PROVE IInv'
  <2>1. CASE Matches(k) # {}
    BY <1>3, <2>1, DeleteStep
  <2>2. CASE Matches(k) = {}
    BY <1>0, <1>3, <2>2, ReadStep DEF dictionary_del, Returns
  <2> QED
    BY <2>1, <2>2
<1>4. ASSUME NEW k \in Keys, RefreshNull(k) PROVE IInv'
  BY <1>0, <1>4, ReadStep DEF RefreshNull
<1>5. ASSUME NEW k \in Keys, InsertFails(k) PROVE IInv'
  BY <1>0, <1>5, ReadStep DEF InsertFails, Returns
<1>6. ASSUME NEW k \in Keys, NEW v \in Vals \cup {NULL}, Refresh(k, v) PROVE IInv'
  BY <1>6, RefreshStep
<1>7. ASSUME NEW k \in Keys, NEW v \in Vals \cup {NULL}, Insert(k, v) PROVE IInv'
  BY <1>7, InsertStep
<1>8. ASSUME dictionary_dump PROVE IInv'
  BY <1>0, <1>8, ReadStep DEF dictionary_dump, Returns
<1>9. ASSUME dictionary_destroy PROVE IInv'
  BY <1>9, DestroyStep
<1>10. ASSUME UNCHANGED vars PROVE IInv'
  BY <1>0, <1>10, ReadStep DEF vars
<1> QED
  BY <1>1, <1>2, <1>3, <1>4, <1>5, <1>6, <1>7, <1>8, <1>9, <1>10 DEF Next

\* The array of lib/dictionary.c never holds a key twice, whatever was added,
\* refreshed and deleted before and whichever slots are holes.
THEOREM KeysAreUnique == Spec => []KeysUnique
<1>1. IInv => KeysUnique
  BY DEF IInv
<1> QED
  BY InitInv, InvStep, <1>1, PTL DEF Spec

\* The test of dictionary_resize on count always leaves room for one more.
THEOREM InsertionsFindASlot == Spec => []CountCoversEntries
<1>1. IInv => CountCoversEntries
  BY DEF IInv
<1> QED
  BY InitInv, InvStep, <1>1, PTL DEF Spec

\* Until a key is lost to a failed strdup, count and the strings on the heap
\* are exactly what the entries hold, so dictionary_destroy leaks nothing.
THEOREM StringsAreAccounted == Spec => []EntriesAccounted
<1>1. IInv => EntriesAccounted
  BY DEF IInv
<1> QED
  BY InitInv, InvStep, <1>1, PTL DEF Spec
-----------------------------------------------------------------------------
(* The refinement of DictionaryMap.                                        *)

\* The pairs of the map that have another key.
Others(k) == {p \in Printed : p[1] # k}

\* A write takes the pair of the entry out of the map and puts the new one in.
LEMMA WritePrinted ==
  ASSUME TypeOK, HashInv, KeysUnique, NEW n, NEW e, NEW i, NEW new, Writes(n, e, i, new)
  PROVE  Printed' = Others(e[i].key) \cup (IF new.key = NULL THEN {} ELSE {<<new.key, new.val>>})
<1>1. \A l \in 0..(n - 1) : entries'[l] = IF l = i THEN new
                                          ELSE IF l \in Slots THEN entries[l] ELSE Empty
  BY DEF Writes
<1>2. Slots \subseteq 0..(n - 1) /\ Slots' = 0..(n - 1) /\ i \in Slots'
  BY DEF Writes, Slots, TypeOK
<1>3. \A l \in Slots : entries[l].key # NULL /\ entries[l].key = e[i].key => l = i
  BY <1>2 DEF Writes, KeysUnique, Used, Empty
<1>4. ASSUME NEW p \in Printed'
      PROVE  p \in Others(e[i].key) \cup (IF new.key = NULL THEN {} ELSE {<<new.key, new.val>>})
  <2>1. PICK l \in Slots' : entries'[l].key # NULL /\ p = <<entries'[l].key, entries'[l].val>>
    BY DEF Printed
  <2>2. CASE l = i
    BY <1>1, <1>2, <2>1, <2>2
  <2>3. CASE l # i
    <3>1. l \in Slots /\ entries'[l] = entries[l]
      BY <1>1, <1>2, <2>1, <2>3 DEF Empty
    <3> QED
      BY <1>3, <2>1, <2>3, <3>1 DEF Printed, Others
  <2> QED
    BY <2>2, <2>3
<1>5. ASSUME NEW p \in Printed, p[1] # e[i].key PROVE p \in Printed'
  <2>1. PICK l \in Slots : entries[l].key # NULL /\ p = <<entries[l].key, entries[l].val>>
    BY DEF Printed
  <2>2. l # i
    BY <1>5, <2>1 DEF Writes
  <2> QED
    BY <1>1, <1>2, <2>1, <2>2 DEF Printed
<1>6. new.key # NULL => <<new.key, new.val>> \in Printed'
  BY <1>1, <1>2 DEF Printed
<1> QED
  BY <1>4, <1>5, <1>6 DEF Others

\* A key is in the map when it is in the array.
LEMMA PresentKeys ==
  ASSUME IInv, NEW k \in Keys
  PROVE  /\ k \in Map!Present <=> \E i \in Slots : entries[i].key = k
         /\ {p \in Printed : p[1] = k} = {<<k, entries[i].val>> : i \in Matches(k)}
         /\ \A p \in Printed : p[1] # NULL
<1>1. Matches(k) = {i \in Slots : entries[i].key = k} /\ k # NULL
  BY Search, DictionaryAssumption DEF DictionaryAssumption, IInv
<1>2. \A p \in Printed : p[1] # NULL
  BY DEF Printed
<1>3. {p \in Printed : p[1] = k} = {<<k, entries[i].val>> : i \in Matches(k)}
  BY <1>1 DEF Printed
<1>4. k \in Map!Present <=> \E i \in Slots : entries[i].key = k
  <2>1. k \in Map!Present <=> \E p \in Printed : p[1] = k
    BY Zenon DEF Map!Present
  <2>2. ASSUME NEW i \in Slots, entries[i].key = k PROVE <<k, entries[i].val>> \in Printed
    BY <1>1, <2>2 DEF Printed
  <2>3. ASSUME NEW p \in Printed, p[1] = k PROVE \E i \in Slots : entries[i].key = k
    BY <2>3 DEF Printed
  <2>4. ASSUME NEW i \in Slots, entries[i].key = k PROVE \E p \in Printed : p[1] = k
    BY <2>2, <2>4
  <2> QED
    BY <2>1, <2>3, <2>4
<1> QED
  BY <1>2, <1>3, <1>4

\* The map is read off the array alone.
LEMMA PrintedUnchanged ==
  ASSUME UNCHANGED <<size, entries>>
  PROVE  Printed' = Printed
BY DEF Printed, Slots

\* A refresh puts the new value into the map, or fails and may lose the old one.
LEMMA RefreshMaps ==
  ASSUME IInv, NEW k \in Keys, NEW v \in Vals \cup {NULL}, Refresh(k, v)
  PROVE  Map!Add(k, v) \/ Map!AddFails(k)
<1>1. PICK i \in Used, new \in Entry :
        /\ Writes(size, entries, i, new) /\ entries[i].key = k /\ new.key = k
        /\ UNCHANGED <<live, size, count, creates, fault>>
        /\ \/ new.val = v /\ Adds({TRUE}, {})
           \/ new.val = NULL /\ Adds({FALSE}, {"val"})
  BY RefreshEffect
<1>2. k # NULL /\ live
  BY DictionaryAssumption DEF DictionaryAssumption, Refresh
<1>3. Printed' = Others(k) \cup {<<k, new.val>>}
  BY <1>1, <1>2, WritePrinted DEF IInv
<1>4. k \in Map!Present
  BY <1>1, PresentKeys DEF Used
<1> QED
  BY <1>1, <1>2, <1>3, <1>4
     DEF Map!Add, Map!AddFails, Map!Put, Map!Returns, Adds, Others

\* An insertion puts the pair into the map, or loses what strdup could not copy.
LEMMA InsertMaps ==
  ASSUME IInv, NEW k \in Keys, NEW v \in Vals \cup {NULL}, Insert(k, v)
  PROVE  Map!Add(k, v) \/ Map!AddFails(k)
<1>1. PICK e \in [0..(Grown - 1) -> Entry], i \in 0..(Grown - 1), new \in Entry :
      \E f \in SUBSET (IF v = NULL THEN {"key"} ELSE {"key", "val"}) :
        /\ Writes(Grown, e, i, new) /\ e[i].key = NULL
        /\ new.key = (IF "key" \in f THEN NULL ELSE k) /\ new.val = (IF "val" \in f THEN NULL ELSE v)
        /\ Adds({TRUE}, f) /\ UNCHANGED <<live, creates, fault>>
  BY InsertEffect
<1>2. PICK f \in SUBSET (IF v = NULL THEN {"key"} ELSE {"key", "val"}) :
        /\ Writes(Grown, e, i, new) /\ e[i].key = NULL
        /\ new.key = (IF "key" \in f THEN NULL ELSE k) /\ new.val = (IF "val" \in f THEN NULL ELSE v)
        /\ Adds({TRUE}, f) /\ UNCHANGED <<live, creates, fault>>
  BY <1>1
<1>3. k # NULL /\ live /\ \A l \in Slots : entries[l].key # k
  BY Search, DictionaryAssumption DEF DictionaryAssumption, Insert, IInv
<1>4. Printed' = Printed \cup (IF new.key = NULL THEN {} ELSE {<<new.key, new.val>>})
  <2>1. Printed' = Others(e[i].key) \cup (IF new.key = NULL THEN {} ELSE {<<new.key, new.val>>})
    BY <1>2, WritePrinted DEF IInv
  <2>2. Others(e[i].key) = Printed
    BY <1>2, PresentKeys DEF Others
  <2> QED
    BY <2>1, <2>2
<1>5. k \notin Map!Present /\ {p \in Printed : p[1] # k} = Printed
  BY <1>3, PresentKeys DEF Printed
<1>6. CASE "key" \in f
  BY <1>2, <1>3, <1>4, <1>5, <1>6 DEF Map!AddFails, Adds
<1>7. CASE f = {"val"}
  <2>1. Printed' = {p \in Printed : p[1] # k} \cup {<<k, NULL>>}
    BY <1>2, <1>3, <1>4, <1>5, <1>7
  <2> QED
    BY <1>2, <1>3, <1>5, <1>7, <2>1 DEF Map!AddFails, Map!Put, Adds
<1>8. CASE f = {}
  <2>1. Printed' = {p \in Printed : p[1] # k} \cup {<<k, v>>}
    BY <1>2, <1>3, <1>4, <1>5, <1>8
  <2> QED
    BY <1>2, <1>3, <1>8, <2>1 DEF Map!Add, Map!Put, Map!Returns, Adds
<1>9. "key" \in f \/ f = {"val"} \/ f = {}
  BY <1>2
<1> QED
  BY <1>6, <1>7, <1>8, <1>9

\* A deletion takes the key out of the map, or finds that it is not there.
LEMMA DeleteMaps ==
  ASSUME IInv, NEW k \in Keys, dictionary_del(k)
  PROVE  Map!Del(k)
<1>1. live /\ live' = live /\ Returns("del", {})
  BY DEF dictionary_del
<1>2. Printed' = Others(k)
  <2>1. CASE Matches(k) = {}
    <3>1. Printed' = Printed
      BY <2>1, PrintedUnchanged DEF dictionary_del
    <3>2. {p \in Printed : p[1] = k} = {}
      BY <2>1, PresentKeys
    <3> QED
      BY <3>1, <3>2 DEF Others
  <2>2. CASE Matches(k) # {}
    <3>1. PICK i \in Used : Writes(size, entries, i, Empty) /\ entries[i].key = k
      BY <2>2, DeleteEffect
    <3>2. Printed' = Others(k) \cup (IF Empty.key = NULL THEN {} ELSE {<<Empty.key, Empty.val>>})
      BY <3>1, WritePrinted DEF IInv
    <3> QED
      BY <3>2 DEF Empty
  <2> QED
    BY <2>1, <2>2
<1> QED
  BY <1>1, <1>2 DEF Map!Del, Map!Returns, Returns, Others

\* A get answers with the value of the map.
LEMMA GetMaps ==
  ASSUME IInv, NEW k \in Keys, dictionary_get(k)
  PROVE  Map!Get(k)
<1> DEFINE i == dictionary_find_idx_by_key(k)
<1>1. /\ live /\ live' = live /\ Returns("get", IF Matches(k) = {} THEN {} ELSE {entries[i].val})
      /\ Printed' = Printed
  BY PrintedUnchanged DEF dictionary_get
<1>2. Matches(k) # {} => Matches(k) = {i}
  BY Search DEF IInv
<1> HIDE DEF i
<1>3. {p \in Printed : p[1] = k} = {<<k, entries[l].val>> : l \in Matches(k)}
  BY PresentKeys
<1>4. {p[2] : p \in {p \in Printed : p[1] = k}} = IF Matches(k) = {} THEN {} ELSE {entries[i].val}
  <2>1. CASE Matches(k) = {}
    BY <1>3, <2>1
  <2>2. CASE Matches(k) = {i}
    <3>1. {p \in Printed : p[1] = k} = {<<k, entries[i].val>>}
      BY <1>3, <2>2
    <3>2. <<k, entries[i].val>>[2] = entries[i].val
      OBVIOUS
    <3> QED
      BY <2>2, <3>1, <3>2, Zenon
  <2> QED
    BY <1>2, <2>1, <2>2
<1> QED
  BY <1>1, <1>4 DEF Map!Get, Map!Returns, Returns

\* A dump prints exactly the pairs of the map.
LEMMA DumpMaps ==
  ASSUME IInv, dictionary_dump
  PROVE  Map!Dump
<1>1. /\ live /\ live' = live /\ Returns("dump", IF count = 0 THEN {} ELSE Printed)
      /\ Printed' = Printed
  BY PrintedUnchanged DEF dictionary_dump
<1>2. ASSUME count = 0 PROVE Printed = {}
  <2>1. Cardinality(Used) = 0
    BY <1>2, Counted DEF IInv, CountCoversEntries
  <2>2. IsFiniteSet(0..(size - 1))
    BY FS_Interval DEF IInv, TypeOK
  <2>3. IsFiniteSet(Used)
    BY <2>2, Counted, FS_Subset DEF IInv
  <2>4. Used = {}
    BY <2>1, <2>3, FS_EmptySet
  <2> QED
    BY <2>4 DEF Printed, Used
<1> QED
  BY <1>1, <1>2 DEF Map!Dump, Map!Returns, Returns

\* A new dictionary is the empty map.
LEMMA CreateMaps ==
  ASSUME IInv, NEW n \in CreateSizes, dictionary_create(n)
  PROVE  Map!Create
<1>1. Printed' = {}
  <2>1. CASE entries' = [i \in 0..(Aligned(n) - 1) |-> Empty] /\ size' = Aligned(n)
    BY <2>1 DEF Printed, Slots, Empty
  <2>2. CASE UNCHANGED <<size, entries>>
    <3>1. Slots = {} /\ Printed' = Printed
      BY <2>2, PrintedUnchanged DEF dictionary_create, IInv, DeadInv, Slots
    <3> QED
      BY <3>1 DEF Printed
  <2> QED
    BY <2>1, <2>2 DEF dictionary_create
<1>2. live = FALSE
  BY DEF dictionary_create, IInv, TypeOK, Flags
<1> QED
  BY <1>1, <1>2, Zenon DEF dictionary_create, Map!Create, Map!Returns, Returns

\* A destroyed dictionary is no map any more.
LEMMA DestroyMaps ==
  ASSUME IInv, dictionary_destroy
  PROVE  Map!Destroy
<1>1. Printed' = {}
  BY DEF dictionary_destroy, Printed, Slots
<1> QED
  BY <1>1 DEF dictionary_destroy, Map!Destroy, Map!Returns, Returns

\* Every call is a call on the map.
LEMMA StepMaps == IInv /\ [Next]_vars => [Map!Next]_(Map!vars)
<1> SUFFICES ASSUME IInv, [Next]_vars PROVE Map!Next \/ UNCHANGED Map!vars
  OBVIOUS
<1>1. ASSUME NEW n \in CreateSizes, dictionary_create(n) PROVE Map!Next
  BY <1>1, CreateMaps DEF Map!Next
<1>2. ASSUME NEW k \in Keys, dictionary_get(k) PROVE Map!Next
  BY <1>2, GetMaps DEF Map!Next
<1>3. ASSUME NEW k \in Keys, dictionary_del(k) PROVE Map!Next
  BY <1>3, DeleteMaps DEF Map!Next
<1>4. ASSUME NEW k \in Keys, RefreshNull(k) PROVE UNCHANGED Map!vars
  BY <1>4, PrintedUnchanged DEF RefreshNull, Map!vars
<1>5. ASSUME NEW k \in Keys, InsertFails(k) PROVE Map!Next
  <2>1. Map!Add(k, NULL)
    BY <1>5, PrintedUnchanged DEF InsertFails, Map!Add, Map!Returns, Returns
  <2> QED
    BY <2>1 DEF Map!Next
<1>6. ASSUME NEW k \in Keys, NEW v \in Vals \cup {NULL}, Refresh(k, v) PROVE Map!Next
  BY <1>6, RefreshMaps DEF Map!Next
<1>7. ASSUME NEW k \in Keys, NEW v \in Vals \cup {NULL}, Insert(k, v) PROVE Map!Next
  BY <1>7, InsertMaps DEF Map!Next
<1>8. ASSUME dictionary_dump PROVE Map!Next
  BY <1>8, DumpMaps DEF Map!Next
<1>9. ASSUME dictionary_destroy PROVE Map!Next
  BY <1>9, DestroyMaps DEF Map!Next
<1>10. ASSUME UNCHANGED vars PROVE UNCHANGED Map!vars
  BY <1>10, PrintedUnchanged DEF vars, Map!vars
<1> QED
  BY <1>1, <1>2, <1>3, <1>4, <1>5, <1>6, <1>7, <1>8, <1>9, <1>10 DEF Next

\* lib/dictionary.c implements a map, for every set of keys and values, every
\* hash function and wherever calloc and strdup fail: a get, a dump or a
\* failed add answers from the pairs that were added and not deleted.
THEOREM DictionaryIsAMap == Spec => ImplementsMap
<1>1. Init => Map!Init
  BY DEF Init, Map!Init, Printed, Slots
<1> QED
  BY <1>1, InitInv, InvStep, StepMaps, PTL DEF Spec, ImplementsMap, Map!Spec
=============================================================================

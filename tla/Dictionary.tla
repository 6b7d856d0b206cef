----------------------------- MODULE Dictionary -----------------------------
(***************************************************************************)
(* lib/dictionary.c: an array of entries searched from the start, in which *)
(* a NULL key marks a free slot and which grows by a fixed increment.      *)
(* calloc and strdup may fail wherever they are called.  Strings are model *)
(* values, and a string is owned by the entry that points to it.           *)
(***************************************************************************)
EXTENDS Integers, FiniteSets, FiniteSetsExt

CONSTANTS
  Keys, Vals, NULL,
  Hash,               \* dictionary_hash, which may map two keys to one value
  MinSize,            \* DICTIONARY_MIN_SIZE
  CreateSizes,        \* arguments of dictionary_create
  MaxSize,            \* calloc fails beyond this number of entries
  MaxCreates          \* dictionaries created one after the other

ASSUME DictionaryAssumption ==
  /\ NULL \notin Keys /\ NULL \notin Vals
  /\ Hash \in [Keys -> Nat]
  /\ MinSize \in Nat \ {0} /\ CreateSizes \subseteq Nat
  /\ MaxSize \in Nat /\ MaxCreates \in Nat

VARIABLES
  live, size, count, entries,
  strings,            \* strings allocated by strdup and not freed
  creates,
  call, result,       \* the last call and what it returned
  failed,             \* history: the strings strdup failed to copy in that call
  keyless,            \* history: some insertion has failed to copy its key
  fault               \* the process was killed

vars ==
  <<live, size, count, entries, strings, creates, call, result, failed, keyless, fault>>

Empty == [hash |-> 0, key |-> NULL, val |-> NULL]
Slots == 0..(size - 1)
Owned(p) == IF p = NULL THEN 0 ELSE 1

\* A call that copies no string, and one in which copying those in f failed.
Returns(c, r) == call' = c /\ result' = r /\ failed' = {} /\ UNCHANGED keyless
Adds(r, f) ==
  call' = "add" /\ result' = r /\ failed' = f /\ keyless' = (keyless \/ "key" \in f)
-----------------------------------------------------------------------------
(* The searches.                                                           *)

\* The slots at which dictionary_find_idx_by_key would stop.
Matches_StopsAtHole(k) ==
  {i \in Slots : /\ entries[i].key = k /\ entries[i].hash = Hash[k]
                 /\ \A j \in 0..i : entries[j].key # NULL}
Matches(k) ==
  {i \in Slots : entries[i].key # NULL /\ entries[i].hash = Hash[k] /\ entries[i].key = k}

dictionary_find_idx_by_key(k) == Min(Matches(k))

\* dictionary_find_idx_by_empty on an array e of n entries.
Free(e, n) == {i \in 0..(n - 1) : e[i].key = NULL}

\* ALIGN(x, 0x7fu) after the minimum has been applied, for sizes that fit 32
\* bits: the unsigned mask would cut a longer one.
Aligned(n) ==
  LET m == IF n < MinSize THEN MinSize ELSE n
  IN  ((m + (MinSize - 1)) \div MinSize) * MinSize

\* dictionary_resize: the size it asks for, and the array copied into it.
Grown_OneLate == IF count <= size THEN size ELSE size + MinSize
Grown == IF count < size THEN size ELSE size + MinSize
Copied(n) == [i \in 0..(n - 1) |-> IF i \in Slots THEN entries[i] ELSE Empty]
-----------------------------------------------------------------------------
Init ==
  /\ live = FALSE /\ size = 0 /\ count = 0
  /\ entries = [i \in {} |-> Empty]
  /\ strings = 0 /\ creates = 0
  /\ call = "none" /\ result = {} /\ failed = {} /\ keyless = FALSE /\ fault = FALSE

dictionary_create(n) ==
  /\ ~live /\ ~fault /\ creates < MaxCreates
  /\ creates' = creates + 1
  /\ \/ /\ live' = TRUE /\ size' = Aligned(n) /\ count' = 0
        /\ Aligned(n) <= MaxSize
        /\ entries' = [i \in 0..(Aligned(n) - 1) |-> Empty]
        /\ Returns("create", {TRUE})
     \/ /\ Returns("create", {FALSE})
        /\ UNCHANGED <<live, size, count, entries>>
  /\ UNCHANGED <<strings, fault>>

dictionary_get(k) ==
  /\ live /\ ~fault
  /\ Returns("get", IF Matches(k) = {} THEN {}
                    ELSE {entries[dictionary_find_idx_by_key(k)].val})
  /\ UNCHANGED <<live, size, count, entries, strings, creates, fault>>

\* dictionary_add of a key that is there; strdup(NULL) kills the process.
Refresh_LeaksOld(k, v) ==
  /\ live /\ ~fault /\ Matches(k) # {} /\ v # NULL
  /\ entries' = [entries EXCEPT ![dictionary_find_idx_by_key(k)].val = v]
  /\ strings' = strings + 1
  /\ Returns("add", {TRUE})
  /\ UNCHANGED <<live, size, count, creates, fault>>
Refresh(k, v) ==
  /\ live /\ ~fault /\ Matches(k) # {} /\ v # NULL
  /\ LET i == dictionary_find_idx_by_key(k)
         w == strings - Owned(entries[i].val)
     IN  \/ /\ entries' = [entries EXCEPT ![i].val = v]
            /\ strings' = w + 1
            /\ Adds({TRUE}, {})
         \/ /\ entries' = [entries EXCEPT ![i].val = NULL]
            /\ strings' = w
            /\ Adds({FALSE}, {"val"})
  /\ UNCHANGED <<live, size, count, creates, fault>>

RefreshNull(k) ==
  /\ live /\ ~fault /\ Matches(k) # {}
  /\ fault' = TRUE
  /\ UNCHANGED <<live, size, count, entries, strings, creates, call, result, failed, keyless>>

\* dictionary_add of a new key.  The results of strdup are not looked at.
Insert(k, v) ==
  /\ live /\ ~fault /\ Matches(k) = {} /\ Grown <= MaxSize
  /\ size' = Grown
  /\ LET e == Copied(Grown)
     IN  IF Free(e, Grown) = {}
         THEN /\ entries' = e
              /\ Returns("add", {FALSE})
              /\ UNCHANGED <<count, strings>>
         ELSE /\ \E f \in SUBSET (IF v = NULL THEN {"key"} ELSE {"key", "val"}) :
                   LET new == [hash |-> Hash[k], key |-> IF "key" \in f THEN NULL ELSE k,
                               val |-> IF "val" \in f THEN NULL ELSE v]
                   IN  /\ entries' = [e EXCEPT ![Min(Free(e, Grown))] = new]
                       /\ strings' = strings + Owned(new.key) + Owned(new.val)
                       /\ Adds({TRUE}, f)
              /\ count' = count + 1
  /\ UNCHANGED <<live, creates, fault>>

\* calloc fails in dictionary_resize.
InsertFails(k) ==
  /\ live /\ ~fault /\ Matches(k) = {} /\ count >= size
  /\ Returns("add", {FALSE})
  /\ UNCHANGED <<live, size, count, entries, strings, creates, fault>>

dictionary_del(k) ==
  /\ live /\ ~fault
  /\ Returns("del", {})
  /\ \/ Matches(k) = {} /\ UNCHANGED <<count, entries, strings>>
     \/ /\ Matches(k) # {}
        /\ LET i == dictionary_find_idx_by_key(k)
           IN  /\ entries' = [entries EXCEPT ![i] = Empty]
               /\ strings' = strings - 1 - Owned(entries[i].val)
        /\ count' = count - 1
  /\ UNCHANGED <<live, size, creates, fault>>

\* The entries dictionary_dump prints.
Printed == {<<entries[i].key, entries[i].val>> : i \in {i \in Slots : entries[i].key # NULL}}

dictionary_dump ==
  /\ live /\ ~fault
  /\ Returns("dump", IF count = 0 THEN {} ELSE Printed)
  /\ UNCHANGED <<live, size, count, entries, strings, creates, fault>>

\* Frees the strings and the handle, not the array.
dictionary_destroy ==
  /\ live /\ ~fault
  /\ strings' = strings - Cardinality({i \in Slots : entries[i].key # NULL})
                        - Cardinality({i \in Slots : entries[i].val # NULL})
  /\ live' = FALSE /\ size' = 0 /\ count' = 0
  /\ entries' = [i \in {} |-> Empty]
  /\ Returns("destroy", {})
  /\ UNCHANGED <<creates, fault>>

Next ==
  \/ \E n \in CreateSizes : dictionary_create(n)
  \/ \E k \in Keys :
       \/ dictionary_get(k) \/ dictionary_del(k) \/ RefreshNull(k) \/ InsertFails(k)
       \/ \E v \in Vals \cup {NULL} : Refresh(k, v) \/ Insert(k, v)
  \/ dictionary_dump \/ dictionary_destroy

Spec == Init /\ [][Next]_vars
-----------------------------------------------------------------------------
(* Properties                                                              *)

Used == {i \in Slots : entries[i].key # NULL}

\* No key has two entries, so a deleted or refreshed key leaves no older
\* value behind it for dictionary_get to find.
KeysUnique ==
  \A i, j \in Used : entries[i].key = entries[j].key => i = j

\* As long as no key was lost to a failed strdup, whatever values were, count
\* is the number of entries (dictionary_add, dictionary_del), and every string
\* that was allocated is reachable from an entry, so that dictionary_destroy
\* frees them all.
EntriesAccounted ==
  \/ keyless
  \/ /\ count = Cardinality(Used)
     /\ strings = Cardinality(Used) + Cardinality({i \in Slots : entries[i].val # NULL})

\* Whatever fails, the test "count < size" of dictionary_resize leaves a
\* free slot for the insertion that follows it.
CountCoversEntries == Cardinality(Used) <= count /\ count <= size

Map == INSTANCE DictionaryMap WITH map <- Printed

\* The dictionary is a map: what an add has stored is seen by every later get
\* and dump until the key is added or deleted again.  A call that fails half-way
\* (a strdup, or the calloc of a growth) harms no key but its own, and an add
\* that returns -1 neither adds a key nor removes one.
ImplementsMap == Map!Spec
=============================================================================

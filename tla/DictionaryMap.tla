---------------------------- MODULE DictionaryMap ----------------------------
(***************************************************************************)
(* What lib/dictionary.c promises: a partial map from keys to values.  A   *)
(* value may be NULL, which is not the same as an absent key.  An add may  *)
(* fail for want of memory and then changes nothing, unless a strdup has   *)
(* failed: the value then is lost, or the whole pair, and the result of    *)
(* the call does not always tell.                                          *)
(***************************************************************************)
CONSTANTS Keys, Vals, NULL

VARIABLES
  live,      \* between dictionary_create and dictionary_destroy
  map,       \* the pairs <<key, value>>
  call, result,
  failed     \* which of "key" and "val" strdup failed to copy in this call

vars == <<live, map, call, result, failed>>

Returns(c, r) == call' = c /\ result' = r /\ failed' = {}

Init == live = FALSE /\ map = {} /\ call = "none" /\ result = {} /\ failed = {}

Create ==
  /\ ~live /\ map' = {}
  /\ \/ live' = TRUE /\ Returns("create", {TRUE})
     \/ live' = FALSE /\ Returns("create", {FALSE})

Present == {p[1] : p \in map}
Put(k, v) == map' = {p \in map : p[1] # k} \cup {<<k, v>>}

Add(k, v) ==
  /\ live
  /\ \/ Returns("add", {TRUE}) /\ Put(k, v)
     \/ Returns("add", {FALSE}) /\ map' = map
  /\ UNCHANGED live

\* An add of a new key returns 0 all the same; one of a key that is there -1.
AddFails(k) ==
  /\ live /\ call' = "add"
  /\ \/ k \notin Present /\ "key" \in failed' /\ result' = {TRUE} /\ map' = map
     \/ k \notin Present /\ failed' = {"val"} /\ result' = {TRUE} /\ Put(k, NULL)
     \/ k \in Present /\ failed' = {"val"} /\ result' = {FALSE} /\ Put(k, NULL)
  /\ UNCHANGED live

\* NULL stands for the caller's default when the key is absent.
Get(k) ==
  /\ live
  /\ Returns("get", {p[2] : p \in {p \in map : p[1] = k}})
  /\ UNCHANGED <<live, map>>

Del(k) ==
  /\ live
  /\ Returns("del", {})
  /\ map' = {p \in map : p[1] # k}
  /\ UNCHANGED live

Dump == live /\ Returns("dump", map) /\ UNCHANGED <<live, map>>

Destroy == live /\ live' = FALSE /\ map' = {} /\ Returns("destroy", {})

Next ==
  \/ Create \/ Dump \/ Destroy
  \/ \E k \in Keys : Get(k) \/ Del(k) \/ AddFails(k) \/ \E v \in Vals \cup {NULL} : Add(k, v)

Spec == Init /\ [][Next]_vars
=============================================================================

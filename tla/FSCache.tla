------------------------------ MODULE FSCache ------------------------------
(***************************************************************************)
(* The cache of objects made from files (fscache.c).  A cache maps a file  *)
(* (its device and inode) to an entry: the object, which may be NULL, the  *)
(* details the file had when the entry was made or last renewed, and when  *)
(* the entry was last looked up.  Objects are counted: the cache has one   *)
(* reference, everybody the object was handed to has another.              *)
(*                                                                         *)
(* The operators take the cache as it is and give the cache as it will be; *)
(* `info' is what stat() says of the file: [there, mtime, ctime, size,     *)
(* mode].  The cache has no update function here: the only one of the      *)
(* program that has is the cache of directories, which Directory.tla looks *)
(* up itself.                                                              *)
(***************************************************************************)
LOCAL INSTANCE Integers

CONSTANT NoObject                     \* NULL

(* An entry.  held: who holds a reference to the object.  leaked: a        *)
(* reference was handed out that nobody will ever give back.               *)
Entry(obj, info, now, users) ==
  [obj |-> obj, mtime |-> info.mtime, ctime |-> info.ctime, size |-> info.size,
   mode |-> info.mode, used |-> now, held |-> users, leaked |-> FALSE]

Known(cache, k) == k \in DOMAIN cache

UpToDate(entry, info) ==
  /\ entry.mtime = info.mtime /\ entry.ctime = info.ctime
  /\ entry.size = info.size /\ entry.mode = info.mode

Put(cache, k, entry) ==
  [j \in DOMAIN cache \cup {k} |-> IF j = k THEN entry ELSE cache[j]]

(* FSCACHE_LOOKUP_ONLY_NEW finds an entry that is up to date, and only     *)
(* then marks it as used and hands out the object.                         *)
Found(cache, k, info) == info.there /\ Known(cache, k) /\ UpToDate(cache[k], info)

Touched(cache, k, now) == [cache EXCEPT ![k].used = now]

(* The holders hand out and give back references to the cached object.     *)
HeldBy(cache, k, users) ==
  IF Known(cache, k) /\ cache[k].obj # NoObject
  THEN [cache EXCEPT ![k].held = users] ELSE cache

GivenBack(cache, k, users) ==
  IF Known(cache, k) THEN [cache EXCEPT ![k].held = @ \ users] ELSE cache

(* g_fscache_insert() with update_details: the entry is made if need be,   *)
(* and renewed; without, an object is put into an entry that exists.       *)
InsertNew(cache, k, obj, info, now) ==
  IF info.there THEN Put(cache, k, Entry(obj, info, now, {})) ELSE cache

InsertInto(cache, k, obj, info, now) ==
  IF info.there /\ Known(cache, k)
  THEN [cache EXCEPT ![k].obj = obj, ![k].used = now, ![k].held = {}, ![k].leaked = FALSE]
  ELSE cache

(* FSCACHE_LOOKUP_CREATE: an entry that is up to date is taken as it is,   *)
(* its object NULL or not; otherwise the object is loaded.                 *)
LookupCreate(cache, k, loaded, user, info, now) ==
  IF ~info.there THEN cache
  ELSE IF Found(cache, k, info)
       THEN LET hit == Touched(cache, k, now)
            IN  HeldBy(hit, k, hit[k].held \cup {user})
       ELSE HeldBy(Put(cache, k, Entry(loaded, info, now, {})), k, {user})

(* purge_hash_entry(): what somebody else uses stays, and what was looked  *)
(* up in the last `age' seconds.                                           *)
InUse(entry) == entry.obj # NoObject /\ (entry.held # {} \/ entry.leaked)

Recent(entry, now, age) == entry.used >= now - age

Purge(cache, now, age) ==
  LET kept == {k \in DOMAIN cache : InUse(cache[k]) \/ Recent(cache[k], now, age)}
  IN  [k \in kept |-> cache[k]]
=============================================================================

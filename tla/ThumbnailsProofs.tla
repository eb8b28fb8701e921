-------------------------- MODULE ThumbnailsProofs --------------------------
(* Theorems about the queue of thumbnails and the picture cache, for any     *)
(* windows, files, sizes, children and tolerances, and without the bounds    *)
(* on chains, writes and time being of any importance.                       *)
EXTENDS Thumbnails, FiniteSetTheorems, TLAPS

FileRecord == [there : BOOLEAN, contents : Nat, changes : Nat, mtime : Nat, ctime : Nat,
               size : Nat, mode : Modes]
ThumbRecord == [pic : Nat, mtime : Nat, size : Nat]
EntryRecord == [obj : Nat, mtime : Nat, ctime : Nat, size : Nat, mode : Modes, used : Nat,
                held : SUBSET (Windows \cup {IconUser}), leaked : BOOLEAN]
ChildRecord == [pc : {"started", "made", "dead"}, win : Windows, file : Files,
                pic : Nat, of : Nat, alone : BOOLEAN]
BusyRecord == [pic : Nat \ {None}, file : Files, win : Windows, byChild : BOOLEAN]

IsCache(c) == DOMAIN c \subseteq Files /\ c \in [DOMAIN c -> EntryRecord]

TypeOK ==
  /\ clock \in Nat
  /\ file \in [Files -> FileRecord]
  /\ hasty \in [Files -> SUBSET Nat]
  /\ thumb \in [Files -> ThumbRecord]
  /\ IsCache(cache)
  /\ open \in [Windows -> BOOLEAN]
  /\ show \in [Windows -> BOOLEAN]
  /\ scanning \in [Windows -> BOOLEAN]
  /\ queue \in [Windows -> Seq(Files)]
  /\ bar \in [Windows -> BOOLEAN]
  /\ refs \in [Windows -> Int]
  /\ idle \in [Windows -> Nat]
  /\ child \in [Children -> ChildRecord \cup {NoChild}]
  /\ busy \in BusyRecord \cup {NotBusy}

(* The picture p shows what is in the file f, or what was overwritten there *)
(* without a time to tell it, or it is none.                                *)
Shows(p, f) == p = None \/ p = file[f].contents \/ p \in hasty[f]

(* An entry that was made of an earlier state of the file f. *)
Told(entry, f) == entry.mtime < file[f].mtime \/ entry.ctime < file[f].ctime

(* The pictures on their way and the ones kept show their file, or their    *)
(* times tell that they do not.                                             *)
TimesTell ==
  /\ \A f \in Files : file[f].mtime <= clock /\ file[f].ctime <= clock
  /\ \A f \in DOMAIN cache :
       /\ cache[f].mtime <= clock /\ cache[f].ctime <= clock
       /\ Shows(cache[f].obj, f) \/ Told(cache[f], f)
  /\ \A f \in Files :
       thumb[f] # NoThumb =>
         \/ Shows(thumb[f].pic, f)
         \/ thumb[f].mtime < file[f].mtime /\ thumb[f].mtime + TooOld < clock
  /\ \A c \in Children : child[c].pc = "made" => Shows(child[c].pic, child[c].file)
  /\ busy # NotBusy => Shows(busy.pic, busy.file)

(* A file that has not changed since a child began with it has an entry in  *)
(* the cache that is up to date, unless the entry has been purged.          *)
Announced ==
  \A c \in Children :
    child[c] # NoChild =>
      LET f == child[c].file
      IN  /\ child[c].of <= file[f].changes
          /\ child[c].alone /\ file[f].there /\ child[c].of = file[f].changes
               => Cache!Found(cache, f, file[f])

IInv == TypeOK /\ RefsAreChains /\ QueueIsServed /\ TimesTell /\ Announced /\ OneMaker
-----------------------------------------------------------------------------
(* Lemmas about the cache. *)

(* Two entries have the same details of the file. *)
SameDetails(d, e) ==
  d.mtime = e.mtime /\ d.ctime = e.ctime /\ d.size = e.size /\ d.mode = e.mode

(* c2 has the entries of c, with the same objects and details. *)
Alike(c, c2) ==
  /\ IsCache(c2)
  /\ DOMAIN c2 = DOMAIN c
  /\ \A k \in DOMAIN c : c2[k].obj = c[k].obj /\ SameDetails(c2[k], c[k])

(* Being alike is transitive. *)
LEMMA AlikeTwice ==
  ASSUME NEW a, NEW b, NEW c, Alike(a, b), Alike(b, c)
  PROVE  Alike(a, c)
BY DEF Alike, SameDetails

(* Looking an entry up marks it as used. *)
LEMMA TouchedAlike ==
  ASSUME NEW c, IsCache(c), NEW k, clock \in Nat
  PROVE  Alike(c, Cache!Touched(c, k, clock))
<1> DEFINE c2 == Cache!Touched(c, k, clock)
<1>1. /\ DOMAIN c2 = DOMAIN c
      /\ c2 = [j \in DOMAIN c |-> IF j = k THEN [c[j] EXCEPT !.used = clock] ELSE c[j]]
  BY DEF Cache!Touched, IsCache
<1> HIDE DEF c2
<1>2. \A j \in DOMAIN c : c[j] \in EntryRecord
  BY DEF IsCache
<1>3. \A j \in DOMAIN c : /\ c2[j] \in EntryRecord /\ c2[j].obj = c[j].obj
                          /\ SameDetails(c2[j], c[j])
  BY <1>1, <1>2 DEF EntryRecord, SameDetails
<1> QED BY <1>1, <1>3 DEF Alike, IsCache, c2

(* References are handed out. *)
LEMMA HeldByAlike ==
  ASSUME NEW c, IsCache(c), NEW k, NEW users \in SUBSET (Windows \cup {IconUser})
  PROVE  Alike(c, Cache!HeldBy(c, k, users))
<1> DEFINE c2 == Cache!HeldBy(c, k, users)
<1>1. CASE c2 = c
  BY <1>1 DEF Alike, SameDetails
<1>2. CASE c2 # c
  <2>1. /\ DOMAIN c2 = DOMAIN c
        /\ c2 = [j \in DOMAIN c |-> IF j = k THEN [c[j] EXCEPT !.held = users] ELSE c[j]]
    BY <1>2 DEF Cache!HeldBy, IsCache
  <2> HIDE DEF c2
  <2>2. \A j \in DOMAIN c : c[j] \in EntryRecord
    BY DEF IsCache
  <2>3. \A j \in DOMAIN c : /\ c2[j] \in EntryRecord /\ c2[j].obj = c[j].obj
                            /\ SameDetails(c2[j], c[j])
    BY <2>1, <2>2 DEF EntryRecord, SameDetails
  <2> QED BY <2>1, <2>3 DEF Alike, IsCache, c2
<1> QED BY <1>1, <1>2

(* References are given back. *)
LEMMA GivenBackAlike ==
  ASSUME NEW c, IsCache(c), NEW k, NEW users
  PROVE  Alike(c, Cache!GivenBack(c, k, users))
<1> DEFINE c2 == Cache!GivenBack(c, k, users)
<1>1. CASE c2 = c
  BY <1>1 DEF Alike, SameDetails
<1>2. CASE c2 # c
  <2>1. /\ DOMAIN c2 = DOMAIN c
        /\ c2 = [j \in DOMAIN c |-> IF j = k THEN [c[j] EXCEPT !.held = c[j].held \ users]
                                             ELSE c[j]]
    BY <1>2 DEF Cache!GivenBack, IsCache
  <2> HIDE DEF c2
  <2>2. \A j \in DOMAIN c : c[j] \in EntryRecord
    BY DEF IsCache
  <2>3. \A j \in DOMAIN c : /\ c2[j] \in EntryRecord /\ c2[j].obj = c[j].obj
                            /\ SameDetails(c2[j], c[j])
    BY <2>1, <2>2 DEF EntryRecord, SameDetails
  <2> QED BY <2>1, <2>3 DEF Alike, IsCache, c2
<1> QED BY <1>1, <1>2

(* The views look at a file again. *)
LEMMA ReshownAlike ==
  ASSUME NEW c, IsCache(c), NEW f, clock \in Nat
  PROVE  Alike(c, Reshown(c, f))
<1> DEFINE given == Cache!GivenBack(c, f, Windows)
           users == given[f].held \cup Viewers
<1>1. Alike(c, given)
  BY GivenBackAlike
<1>2. Alike(given, Cache!Touched(given, f, clock))
  BY <1>1, TouchedAlike DEF Alike
<1>3. ASSUME Cache!Found(c, f, file[f])
      PROVE  Alike(Cache!Touched(given, f, clock),
                   Cache!HeldBy(Cache!Touched(given, f, clock), f, users))
  <2>1. f \in DOMAIN given /\ given[f] \in EntryRecord
    BY <1>1, <1>3 DEF Alike, IsCache, Cache!Found, Cache!Known
  <2>2. given[f].held \in SUBSET (Windows \cup {IconUser})
    BY <2>1 DEF EntryRecord
  <2>3. users \in SUBSET (Windows \cup {IconUser})
    BY <2>2 DEF Viewers
  <2> HIDE DEF users, given
  <2> QED BY <1>2, <2>3, HeldByAlike DEF Alike
<1> QED BY <1>1, <1>2, <1>3, AlikeTwice DEF Reshown

(* The entry is marked as having a reference that nobody gives back. *)
LEMMA LeakedAlike ==
  ASSUME NEW c, IsCache(c), NEW f
  PROVE  Alike(c, [c EXCEPT ![f].leaked = TRUE])
<1> DEFINE c2 == [c EXCEPT ![f].leaked = TRUE]
<1>1. /\ DOMAIN c2 = DOMAIN c
      /\ c2 = [j \in DOMAIN c |-> IF j = f THEN [c[j] EXCEPT !.leaked = TRUE] ELSE c[j]]
  BY DEF IsCache
<1> HIDE DEF c2
<1>2. \A j \in DOMAIN c : c[j] \in EntryRecord
  BY DEF IsCache
<1>3. \A j \in DOMAIN c : /\ c2[j] \in EntryRecord /\ c2[j].obj = c[j].obj
                          /\ SameDetails(c2[j], c[j])
  BY <1>1, <1>2 DEF EntryRecord, SameDetails
<1> QED BY <1>1, <1>3 DEF Alike, IsCache, c2

(* A window asks for its pictures. *)
LEMMA LookedAlike ==
  ASSUME IsCache(cache), clock \in Nat
  PROVE  Alike(cache, Looked)
<1>1. \A j \in DOMAIN cache : cache[j] \in EntryRecord
  BY DEF IsCache
<1>2. \A j \in DOMAIN cache :
        /\ Looked[j] \in EntryRecord /\ Looked[j].obj = cache[j].obj
        /\ SameDetails(Looked[j], cache[j])
  BY <1>1 DEF EntryRecord, SameDetails, Looked
<1> QED BY <1>2 DEF Alike, IsCache, Looked

(* A window drops its pictures. *)
LEMMA DroppedAlike ==
  ASSUME IsCache(cache), NEW w
  PROVE  Alike(cache, [f \in DOMAIN cache |-> [cache[f] EXCEPT !.held = @ \ {w}]])
<1> DEFINE c2 == [f \in DOMAIN cache |-> [cache[f] EXCEPT !.held = @ \ {w}]]
<1>1. \A j \in DOMAIN cache : cache[j] \in EntryRecord
  BY DEF IsCache
<1>2. \A j \in DOMAIN cache :
        /\ c2[j] \in EntryRecord /\ c2[j].obj = cache[j].obj
        /\ SameDetails(c2[j], cache[j])
  BY <1>1 DEF EntryRecord, SameDetails
<1> QED BY <1>2 DEF Alike, IsCache

(* A window takes what pictures there are. *)
LEMMA TakenAlike ==
  ASSUME IsCache(cache), clock \in Nat, NEW w \in Windows
  PROVE  Alike(cache, [f \in DOMAIN Looked |->
                         IF f \in Fresh /\ cache[f].obj # None
                         THEN [Looked[f] EXCEPT !.held = @ \cup {w}] ELSE Looked[f]])
<1> DEFINE c2 == [f \in DOMAIN Looked |->
                    IF f \in Fresh /\ cache[f].obj # None
                    THEN [Looked[f] EXCEPT !.held = @ \cup {w}] ELSE Looked[f]]
<1>1. /\ DOMAIN Looked = DOMAIN cache
      /\ \A j \in DOMAIN cache : /\ Looked[j] \in EntryRecord
                                 /\ Looked[j].obj = cache[j].obj
                                 /\ SameDetails(Looked[j], cache[j])
  BY LookedAlike DEF Alike, IsCache
<1>2. \A j \in DOMAIN cache :
        /\ c2[j] \in EntryRecord /\ c2[j].obj = cache[j].obj
        /\ SameDetails(c2[j], cache[j])
  BY <1>1 DEF EntryRecord, SameDetails
<1>3. DOMAIN c2 = DOMAIN cache /\ c2 \in [DOMAIN c2 -> EntryRecord]
  BY <1>1, <1>2
<1> QED BY <1>2, <1>3 DEF Alike, IsCache

-----------------------------------------------------------------------------
(* What one step may do to the cache: an entry keeps its details, or it has *)
(* those of the file now; an object put into it shows the file.             *)

Stays(c, k, entry) ==
  /\ k \in DOMAIN c
  /\ SameDetails(entry, c[k])
  /\ entry.obj = c[k].obj \/ Shows(entry.obj, k)

Renewed(k, entry) == Cache!UpToDate(entry, file[k]) /\ Shows(entry.obj, k)

CacheStep(c, c2) ==
  /\ IsCache(c2)
  /\ \A k \in DOMAIN c2 : Stays(c, k, c2[k]) \/ Renewed(k, c2[k])

(* ... and no entry goes. *)
CacheKeeps(c, c2) == CacheStep(c, c2) /\ DOMAIN c \subseteq DOMAIN c2

(* Being alike is keeping. *)
LEMMA AlikeKeeps ==
  ASSUME NEW c, NEW c2, Alike(c, c2)
  PROVE  CacheKeeps(c, c2)
BY DEF Alike, CacheKeeps, CacheStep, Stays, SameDetails

(* Steps that keep entries can be put together. *)
LEMMA KeepsTwice ==
  ASSUME NEW a, NEW b, NEW c, CacheKeeps(a, b), Alike(b, c)
  PROVE  CacheKeeps(a, c)
<1>1. IsCache(c) /\ DOMAIN c = DOMAIN b /\ DOMAIN a \subseteq DOMAIN c
  BY DEF CacheKeeps, Alike
<1>2. ASSUME NEW k \in DOMAIN c PROVE Stays(a, k, c[k]) \/ Renewed(k, c[k])
  <2>1. k \in DOMAIN b /\ c[k].obj = b[k].obj /\ SameDetails(c[k], b[k])
    BY <1>2 DEF Alike
  <2>2. Stays(a, k, b[k]) \/ Renewed(k, b[k])
    BY <2>1 DEF CacheKeeps, CacheStep
  <2> QED BY <2>1, <2>2 DEF Stays, Renewed, Cache!UpToDate, SameDetails
<1> QED BY <1>1, <1>2 DEF CacheKeeps, CacheStep

(* A new entry, with the details of the file. *)
LEMMA InsertNewKeeps ==
  ASSUME TypeOK, IsCache(cache), NEW f \in Files, NEW obj \in Nat, Shows(obj, f)
  PROVE  /\ CacheKeeps(cache, Cache!InsertNew(cache, f, obj, file[f], clock))
         /\ file[f].there =>
              LET c2 == Cache!InsertNew(cache, f, obj, file[f], clock)
              IN  f \in DOMAIN c2 /\ Cache!UpToDate(c2[f], file[f])
<1> DEFINE c2 == Cache!InsertNew(cache, f, obj, file[f], clock)
           e == Cache!Entry(obj, file[f], clock, {})
<1>1. CASE ~file[f].there
  <2>1. c2 = cache
    BY <1>1 DEF Cache!InsertNew
  <2>2. Alike(cache, c2)
    BY <2>1 DEF Alike, SameDetails
  <2> QED BY <1>1, <2>2, AlikeKeeps
<1>2. CASE file[f].there
  <2>1. c2 = [j \in DOMAIN cache \cup {f} |-> IF j = f THEN e ELSE cache[j]]
    BY <1>2 DEF Cache!InsertNew, Cache!Put
  <2>2. e \in EntryRecord /\ SameDetails(e, file[f]) /\ e.obj = obj
    BY DEF Cache!Entry, EntryRecord, TypeOK, FileRecord, SameDetails
  <2> HIDE DEF c2, e
  <2>3. IsCache(c2)
    BY <2>1, <2>2 DEF IsCache
  <2>4. c2[f] = e /\ \A k \in DOMAIN cache : k # f => c2[k] = cache[k]
    BY <2>1
  <2>5. DOMAIN c2 = DOMAIN cache \cup {f}
    BY <2>1
  <2>6. \A k \in DOMAIN c2 : Stays(cache, k, c2[k]) \/ Renewed(k, c2[k])
    BY <2>2, <2>4, <2>5 DEF Stays, Renewed, Cache!UpToDate, SameDetails
  <2>7. f \in DOMAIN c2 /\ Cache!UpToDate(c2[f], file[f])
    BY <2>2, <2>4, <2>5 DEF Cache!UpToDate, SameDetails
  <2> QED BY <2>3, <2>5, <2>6, <2>7 DEF CacheKeeps, CacheStep, c2
<1> QED BY <1>1, <1>2

(* An object put into the entry that waits for it. *)
LEMMA InsertIntoKeeps ==
  ASSUME TypeOK, NEW f \in Files, NEW obj \in Nat, Shows(obj, f)
  PROVE  CacheKeeps(cache, Cache!InsertInto(cache, f, obj, file[f], clock))
<1> DEFINE c2 == Cache!InsertInto(cache, f, obj, file[f], clock)
<1>0. IsCache(cache) /\ clock \in Nat
  BY DEF TypeOK
<1>1. CASE ~(file[f].there /\ f \in DOMAIN cache)
  <2>1. c2 = cache
    BY <1>1 DEF Cache!InsertInto, Cache!Known
  <2>2. Alike(cache, c2)
    BY <1>0, <2>1 DEF Alike, SameDetails
  <2> QED BY <2>2, AlikeKeeps
<1>2. CASE file[f].there /\ f \in DOMAIN cache
  <2> DEFINE e == [cache[f] EXCEPT !.obj = obj, !.used = clock, !.held = {}, !.leaked = FALSE]
  <2>1. c2 = [j \in DOMAIN cache |-> IF j = f THEN e ELSE cache[j]]
    BY <1>0, <1>2 DEF Cache!InsertInto, Cache!Known, IsCache
  <2>2. cache[f] \in EntryRecord
    BY <1>0, <1>2 DEF IsCache
  <2>3. /\ e \in EntryRecord
        /\ SameDetails(e, cache[f]) /\ e.obj = obj
    BY <1>0, <2>2 DEF EntryRecord, SameDetails
  <2> HIDE DEF c2, e
  <2>4. IsCache(c2)
    BY <1>0, <2>1, <2>3 DEF IsCache
  <2>5. \A k \in DOMAIN c2 : Stays(cache, k, c2[k])
    BY <2>1, <2>3 DEF Stays, SameDetails
  <2>6. DOMAIN c2 = DOMAIN cache
    BY <2>1
  <2> QED BY <2>4, <2>5, <2>6 DEF CacheKeeps, CacheStep, c2
<1> QED BY <1>1, <1>2

(* An icon is looked up, and made if there is no entry for it up to date. *)
LEMMA LookupCreateKeeps ==
  ASSUME TypeOK, NEW f \in Files, NEW obj \in Nat, Shows(obj, f)
  PROVE  CacheKeeps(cache, Cache!LookupCreate(cache, f, obj, IconUser, file[f], clock))
<1> DEFINE c2 == Cache!LookupCreate(cache, f, obj, IconUser, file[f], clock)
<1>0. IsCache(cache) /\ clock \in Nat
  BY DEF TypeOK
<1>1. CASE ~file[f].there
  <2>1. c2 = cache
    BY <1>1 DEF Cache!LookupCreate
  <2>2. Alike(cache, c2)
    BY <1>0, <2>1 DEF Alike, SameDetails
  <2> QED BY <2>2, AlikeKeeps
<1>2. CASE file[f].there /\ Cache!Found(cache, f, file[f])
  <2> DEFINE hit == Cache!Touched(cache, f, clock)
  <2>1. Alike(cache, hit)
    BY <1>0, TouchedAlike
  <2>2. hit[f] \in EntryRecord
    BY <1>2, <2>1 DEF Alike, IsCache, Cache!Found, Cache!Known
  <2>3. c2 = Cache!HeldBy(hit, f, hit[f].held \cup {IconUser})
    BY <1>2 DEF Cache!LookupCreate
  <2> HIDE DEF hit
  <2>4. hit[f].held \cup {IconUser} \in SUBSET (Windows \cup {IconUser})
    BY <2>2 DEF EntryRecord
  <2>5. Alike(hit, c2)
    BY <2>1, <2>3, <2>4, HeldByAlike DEF Alike
  <2> QED BY <2>1, <2>5, AlikeTwice, AlikeKeeps
<1>3. CASE file[f].there /\ ~Cache!Found(cache, f, file[f])
  <2> DEFINE new == Cache!InsertNew(cache, f, obj, file[f], clock)
  <2>1. CacheKeeps(cache, new)
    BY <1>0, InsertNewKeeps
  <2>2. c2 = Cache!HeldBy(new, f, {IconUser})
    BY <1>3 DEF Cache!LookupCreate, Cache!InsertNew
  <2> HIDE DEF new
  <2>3. Alike(new, c2)
    BY <2>1, <2>2, HeldByAlike DEF CacheKeeps, CacheStep
  <2> QED BY <2>1, <2>3, KeepsTwice
<1> QED BY <1>1, <1>2, <1>3

(* Entries are purged. *)
LEMMA PurgeStep ==
  ASSUME TypeOK, NEW age
  PROVE  /\ CacheStep(cache, Cache!Purge(cache, clock, age))
         /\ \A k \in DOMAIN Cache!Purge(cache, clock, age) :
              /\ k \in DOMAIN cache
              /\ Cache!Purge(cache, clock, age)[k] = cache[k]
<1> DEFINE c2 == Cache!Purge(cache, clock, age)
<1>1. IsCache(cache)
  BY DEF TypeOK
<1>2. PICK kept \in SUBSET DOMAIN cache : c2 = [k \in kept |-> cache[k]]
  BY DEF Cache!Purge
<1> HIDE DEF c2
<1>3. IsCache(c2)
  BY <1>1, <1>2 DEF IsCache
<1>4. \A k \in DOMAIN c2 : k \in DOMAIN cache /\ c2[k] = cache[k]
  BY <1>2
<1>5. \A k \in DOMAIN c2 : Stays(cache, k, c2[k])
  BY <1>4 DEF Stays, SameDetails
<1> QED BY <1>3, <1>4, <1>5 DEF CacheStep, c2

(* What a step of the cache keeps true. *)
LEMMA StepTells ==
  ASSUME TypeOK, TimesTell, NEW c2, CacheStep(cache, c2)
  PROVE  \A f \in DOMAIN c2 :
           /\ c2[f].mtime <= clock /\ c2[f].ctime <= clock
           /\ Shows(c2[f].obj, f) \/ Told(c2[f], f)
<1> SUFFICES ASSUME NEW f \in DOMAIN c2
             PROVE  /\ c2[f].mtime <= clock /\ c2[f].ctime <= clock
                    /\ Shows(c2[f].obj, f) \/ Told(c2[f], f)
  OBVIOUS
<1>1. f \in Files
  BY DEF CacheStep, IsCache
<1>2. CASE Stays(cache, f, c2[f])
  BY <1>2 DEF Stays, SameDetails, Told, TimesTell
<1>3. CASE Renewed(f, c2[f])
  BY <1>1, <1>3 DEF Renewed, Cache!UpToDate, TimesTell
<1> QED BY <1>2, <1>3 DEF CacheStep

(* An entry that is up to date stays so. *)
LEMMA KeepsFound ==
  ASSUME NEW c2, CacheKeeps(cache, c2), NEW f, Cache!Found(cache, f, file[f])
  PROVE  Cache!Found(c2, f, file[f])
<1>1. f \in DOMAIN c2
  BY DEF CacheKeeps, Cache!Found, Cache!Known
<1>2. Stays(cache, f, c2[f]) \/ Renewed(f, c2[f])
  BY <1>1 DEF CacheKeeps, CacheStep
<1> QED BY <1>1, <1>2
        DEF Stays, SameDetails, Renewed, Cache!Found, Cache!Known, Cache!UpToDate

-----------------------------------------------------------------------------
(* What each action does to the cache. *)

(* A picture that is found good enough shows its file. *)
LEMMA FoundShows ==
  ASSUME TypeOK, TimesTell, NEW f \in Files, ThumbnailFor(f) # None
  PROVE  Shows(ThumbnailFor(f), f) /\ ThumbnailFor(f) \in Nat \ {None}
<1>1. /\ thumb[f] # NoThumb /\ ThumbnailFor(f) = thumb[f].pic
      /\ file[f].mtime # thumb[f].mtime => clock <= thumb[f].mtime + TooOld
  BY DEF ThumbnailFor
<1>2. /\ thumb[f] \in ThumbRecord /\ file[f] \in FileRecord /\ clock \in Nat
      /\ TooOld \in Nat
  BY ThumbAssumption DEF TypeOK
<1>3. ~(thumb[f].mtime < file[f].mtime /\ thumb[f].mtime + TooOld < clock)
  BY <1>1, <1>2 DEF ThumbRecord, FileRecord
<1> QED BY <1>1, <1>2, <1>3 DEF TimesTell, ThumbRecord

(* The file a chain takes from its queue. *)
LEMMA HeadIsFile ==
  ASSUME TypeOK, NEW w \in Windows, Take(w)
  PROVE  Head(queue[w]) \in Files /\ Tail(queue[w]) \in Seq(Files)
<1>1. queue[w] \in Seq(Files) /\ queue[w] # << >>
  BY DEF TypeOK, Take
<1> QED BY <1>1

(* Every action but those that purge keeps what is in the cache. *)
LEMMA CacheNext ==
  ASSUME TypeOK, TimesTell, Next
  PROVE  \/ cache' = cache
         \/ (UNCHANGED fileVars) /\ CacheKeeps(cache, cache')
         \/ (UNCHANGED fileVars) /\ \E age : Purged(age)
<1>0. IsCache(cache) /\ clock \in Nat
  BY DEF TypeOK
<1>1. CASE Tick
  BY <1>1 DEF Tick
<1>2. CASE PurgeMemory \/ PurgeDisk
  BY <1>2 DEF PurgeMemory, PurgeDisk
<1>3. CASE FinishLoad
  <2> DEFINE f == busy.file
             new == Cache!InsertNew(cache, f, busy.pic, file[f], clock)
             into == Cache!InsertInto(cache, f, busy.pic, file[f], clock)
             done == IF busy.byChild THEN into
                     ELSE IF file[f].there THEN [new EXCEPT ![f].leaked = TRUE] ELSE new
  <2>1. busy # NotBusy /\ cache' = Reshown(done, f) /\ UNCHANGED fileVars
    BY <1>3 DEF FinishLoad, GoOn
  <2>2. busy \in BusyRecord
    BY <2>1 DEF TypeOK
  <2>3. f \in Files /\ busy.pic \in Nat /\ Shows(busy.pic, f)
    BY <2>1, <2>2 DEF BusyRecord, TimesTell
  <2>4. CacheKeeps(cache, into)
    BY <2>3, InsertIntoKeeps
  <2>5. CacheKeeps(cache, new)
    BY <1>0, <2>3, InsertNewKeeps
  <2> HIDE DEF f, new, into
  <2>6. Alike(new, [new EXCEPT ![f].leaked = TRUE])
    BY <2>5, LeakedAlike DEF CacheKeeps, CacheStep
  <2>7. CacheKeeps(cache, done)
    BY <2>4, <2>5, <2>6, KeepsTwice
  <2> HIDE DEF done
  <2>8. Alike(done, Reshown(done, f))
    BY <1>0, <2>7, ReshownAlike DEF CacheKeeps, CacheStep
  <2>9. CacheKeeps(cache, cache')
    BY <2>1, <2>7, <2>8, KeepsTwice
  <2> QED BY <2>1, <2>9
<1>4. ASSUME NEW f \in Changing, Write(f) \/ ChangeAttributes(f) \/ Delete(f)
      PROVE  cache' = cache
  BY <1>4 DEF Write, ChangeAttributes, Delete
<1>5. ASSUME NEW f \in Icons, LoadIcon(f)
      PROVE  cache' = cache \/ (UNCHANGED fileVars /\ CacheKeeps(cache, cache'))
  <2>1. PICK pic \in {file[f].contents, None} :
          cache' = Cache!LookupCreate(cache, f, pic, IconUser, file[f], clock)
    BY <1>5 DEF LoadIcon
  <2>2. f \in Files
    BY ThumbAssumption
  <2>3. pic \in Nat /\ Shows(pic, f)
    BY <2>1, <2>2 DEF TypeOK, FileRecord, Shows, None
  <2>4. CacheKeeps(cache, cache')
    BY <2>1, <2>2, <2>3, LookupCreateKeeps
  <2> QED BY <1>5, <2>4 DEF LoadIcon
<1>6. ASSUME NEW f \in Icons, DropIcon(f)
      PROVE  (UNCHANGED fileVars) /\ CacheKeeps(cache, cache')
  <2>1. Alike(cache, cache')
    BY <1>0, <1>6, GivenBackAlike DEF DropIcon
  <2> QED BY <1>6, <2>1, AlikeKeeps DEF DropIcon
<1>7. ASSUME NEW f \in Files, Update(f)
      PROVE  (UNCHANGED fileVars) /\ CacheKeeps(cache, cache')
  <2>1. Alike(cache, cache')
    BY <1>0, <1>7, ReshownAlike DEF Update
  <2> QED BY <1>7, <2>1, AlikeKeeps DEF Update
<1>8. ASSUME NEW w \in Windows, StartScan(w) \/ Cancel(w) PROVE cache' = cache
  BY <1>8 DEF StartScan, Cancel
<1>9. ASSUME NEW w \in Windows, EndScan(w)
      PROVE  cache' = cache \/ (UNCHANGED fileVars /\ CacheKeeps(cache, cache'))
  <2>1. cache' = cache \/ cache' = Looked
    BY <1>9 DEF EndScan
  <2>2. Alike(cache, Looked)
    BY <1>0, LookedAlike
  <2>3. UNCHANGED fileVars
    BY <1>9 DEF EndScan
  <2> QED BY <2>1, <2>2, <2>3, AlikeKeeps
<1>10. ASSUME NEW w \in Windows, HideThumbs(w) \/ Close(w)
       PROVE  (UNCHANGED fileVars) /\ CacheKeeps(cache, cache')
  <2> DEFINE dropped == [f \in DOMAIN cache |-> [cache[f] EXCEPT !.held = @ \ {w}]]
  <2>2. cache' = dropped
    BY <1>10 DEF HideThumbs, Close
  <2>3. Alike(cache, dropped)
    BY <1>0, DroppedAlike
  <2> HIDE DEF dropped
  <2>1. Alike(cache, cache')
    BY <2>2, <2>3
  <2> QED BY <1>10, <2>1, AlikeKeeps DEF HideThumbs, Close
<1>11. ASSUME NEW w \in Windows, ShowThumbs(w)
       PROVE  (UNCHANGED fileVars) /\ CacheKeeps(cache, cache')
  <2>1. Alike(cache, cache')
    BY <1>0, <1>11, TakenAlike DEF ShowThumbs
  <2> QED BY <1>11, <2>1, AlikeKeeps DEF ShowThumbs
<1>12. ASSUME NEW w \in Windows, EndChain(w) \/ TakeKept(w) PROVE cache' = cache
  BY <1>12 DEF EndChain, TakeKept
<1>13. ASSUME NEW w \in Windows, TakeCached(w)
       PROVE  (UNCHANGED fileVars) /\ CacheKeeps(cache, cache')
  <2> DEFINE f == Head(queue[w])
             a == Cache!Touched(cache, f, clock)
             b == [a EXCEPT ![f].leaked = TRUE]
  <2>1. Take(w) /\ cache' = Reshown(b, f)
    BY <1>13 DEF TakeCached
  <2>2. Alike(cache, a)
    BY <1>0, TouchedAlike
  <2> HIDE DEF a
  <2>3. Alike(a, b)
    BY <2>2, LeakedAlike DEF Alike
  <2> HIDE DEF b
  <2>4. Alike(b, Reshown(b, f))
    BY <1>0, <2>3, ReshownAlike DEF Alike
  <2>5. Alike(cache, cache')
    BY <2>1, <2>2, <2>3, <2>4, AlikeTwice
  <2> QED BY <2>1, <2>5, AlikeKeeps DEF Take
<1>14. ASSUME NEW w \in Windows, TakeMade(w)
       PROVE  (UNCHANGED fileVars) /\ CacheKeeps(cache, cache')
  <2>1. Take(w) /\ cache' = Cache!Touched(cache, Head(queue[w]), clock)
    BY <1>14 DEF TakeMade
  <2>2. Alike(cache, cache')
    BY <1>0, <2>1, TouchedAlike
  <2> QED BY <2>1, <2>2, AlikeKeeps DEF Take
<1>15. ASSUME NEW w \in Windows, Fork(w) \/ GiveUp(w)
       PROVE  (UNCHANGED fileVars) /\ CacheKeeps(cache, cache')
  <2>1. Take(w) /\ cache' = Placed(Head(queue[w]))
    BY <1>15 DEF Fork, GiveUp
  <2>2. Head(queue[w]) \in Files /\ None \in Nat /\ Shows(None, Head(queue[w]))
    BY <2>1, HeadIsFile DEF None, Shows
  <2>3. CacheKeeps(cache, cache')
    BY <1>0, <2>1, <2>2, InsertNewKeeps DEF Placed
  <2> QED BY <2>1, <2>3 DEF Take
<1>16. ASSUME NEW c \in Children, ChildStep(c) \/ ChildDone(c) PROVE cache' = cache
  BY <1>16 DEF ChildStep, ChildLoads, ChildSaves, ChildDone, GoOnWithout
<1> QED BY <1>1, <1>2, <1>3, <1>4, <1>5, <1>6, <1>7, <1>8, <1>9, <1>10, <1>11, <1>12,
           <1>13, <1>14, <1>15, <1>16 DEF Next, ChainStep

-----------------------------------------------------------------------------
(* Types. *)

(* A finite set can be listed. *)
LEMMA SetToSeqType ==
  ASSUME NEW S, IsFiniteSet(S)
  PROVE  SetToSeq(S) \in Seq(S)
<1>1. Cardinality(S) \in Nat /\ ExistsBijection(1..Cardinality(S), S)
  BY FS_CardinalityType
<1>2. PICK g : g \in Bijection(1..Cardinality(S), S)
  BY <1>1 DEF ExistsBijection
<1>3. g \in [1..Cardinality(S) -> S] /\ IsInjective(g)
  BY <1>2 DEF Bijection, Injection
<1>4. SetToSeq(S) \in [1..Cardinality(S) -> S]
  BY <1>3 DEF SetToSeq
<1> QED BY <1>1, <1>4

(* A window's new queue has files. *)
LEMMA CreateThumbsType ==
  ASSUME TypeOK, NEW w \in Windows
  PROVE  CreateThumbs(w) \in Seq(Files)
<1> DEFINE S == {f \in Wanted : ~Contains(queue[w], f)}
<1>1. S \subseteq Files
  BY DEF Wanted
<1>2. IsFiniteSet(S)
  BY <1>1, ThumbAssumption, FS_Subset
<1>3. SetToSeq(S) \in Seq(Files)
  BY <1>1, <1>2, SetToSeqType
<1>4. queue[w] \in Seq(Files)
  BY DEF TypeOK
<1> QED BY <1>3, <1>4 DEF CreateThumbs

(* A process is at work if it is not idle. *)
LEMMA ChildAtWork ==
  ASSUME TypeOK, NEW c \in Children
  PROVE  /\ child[c] # NoChild <=> child[c].pc # "none"
         /\ child[c] # NoChild <=> child[c] \in ChildRecord
BY DEF TypeOK, ChildRecord, NoChild

(* The types of what every action but the cache may change. *)
LEMMA CacheType ==
  ASSUME TypeOK, TimesTell, Next
  PROVE  IsCache(cache')
<1>1. CASE \E age : Purged(age)
  BY <1>1, PurgeStep DEF Purged, CacheStep
<1> QED BY <1>1, CacheNext DEF TypeOK, CacheKeeps, CacheStep

(* What is in the queue variables keeps its type when the bar is asked for. *)
LEMMA StartType ==
  ASSUME TypeOK, NEW w \in Windows, NEW wanted \in Seq(Files), Start(w, wanted)
  PROVE  /\ queue' \in [Windows -> Seq(Files)]
         /\ bar' \in [Windows -> BOOLEAN]
         /\ refs' \in [Windows -> Int]
         /\ idle' \in [Windows -> Nat]
<1>1. /\ queue \in [Windows -> Seq(Files)] /\ bar \in [Windows -> BOOLEAN]
      /\ refs \in [Windows -> Int] /\ idle \in [Windows -> Nat]
  BY DEF TypeOK
<1>2. queue' \in [Windows -> Seq(Files)]
  BY <1>1 DEF Start
<1>3. CASE wanted # << >> /\ ~bar[w]
  <2>1. /\ bar' = [bar EXCEPT ![w] = TRUE]
        /\ refs' = [refs EXCEPT ![w] = @ + 1]
        /\ idle' = [idle EXCEPT ![w] = @ + 1]
    BY <1>3 DEF Start
  <2> QED BY <1>1, <1>2, <2>1
<1>4. CASE ~(wanted # << >> /\ ~bar[w])
  <2>1. UNCHANGED <<bar, refs, idle>>
    BY <1>4 DEF Start
  <2> QED BY <1>1, <1>2, <2>1
<1> QED BY <1>3, <1>4

(* A file is written. *)
LEMMA WriteIs ==
  ASSUME TypeOK, NEW f \in Files, Write(f)
  PROVE  /\ file'[f] \in FileRecord
         /\ file[f].contents \in Nat /\ file'[f].contents = file[f].contents + 1
         /\ file[f].changes \in Nat /\ file'[f].changes = file[f].changes + 1
         /\ file'[f].mtime = clock /\ file'[f].ctime = clock
         /\ file'[f].there = file[f].there
         /\ file' = [file EXCEPT ![f] = file'[f]]
<1>1. PICK s \in Sizes :
        file' = [file EXCEPT ![f].contents = @ + 1, ![f].changes = @ + 1,
                             ![f].mtime = clock, ![f].ctime = clock, ![f].size = s]
  BY DEF Write
<1>2. file[f] \in FileRecord /\ clock \in Nat /\ s \in Nat /\ file \in [Files -> FileRecord]
  BY ThumbAssumption DEF TypeOK
<1>3. file'[f] = [there |-> file[f].there, contents |-> file[f].contents + 1,
                  changes |-> file[f].changes + 1, mtime |-> clock, ctime |-> clock,
                  size |-> s, mode |-> file[f].mode]
  BY <1>1, <1>2 DEF FileRecord
<1>4. file' = [file EXCEPT ![f] = file'[f]]
  <2>1. \A g \in Files : g # f => file'[g] = file[g]
    BY <1>1, <1>2
  <2>2. file' = [g \in Files |-> file'[g]]
    BY <1>1, <1>2
  <2> QED BY <1>2, <2>1, <2>2
<1>5. file'[f] \in FileRecord
  BY <1>2, <1>3 DEF FileRecord
<1> QED BY <1>2, <1>3, <1>4, <1>5 DEF FileRecord

(* The attributes of a file are changed. *)
LEMMA AttributesAre ==
  ASSUME TypeOK, NEW f \in Files, ChangeAttributes(f)
  PROVE  /\ file'[f] \in FileRecord
         /\ file'[f].contents = file[f].contents
         /\ file[f].changes \in Nat /\ file'[f].changes = file[f].changes + 1
         /\ file'[f].mtime <= clock /\ file'[f].ctime = clock
         /\ file'[f].there = file[f].there
         /\ file' = [file EXCEPT ![f] = file'[f]]
         /\ hasty' = IF file'[f].mtime < file[f].mtime
                     THEN [hasty EXCEPT ![f] = @ \cup (Revived(f) \ {None, file[f].contents})]
                     ELSE hasty
<1>1. PICK mode \in Modes, mtime \in 0..clock :
        /\ file' = [file EXCEPT ![f].changes = @ + 1, ![f].mtime = mtime,
                                ![f].ctime = clock, ![f].mode = mode]
        /\ hasty' = IF mtime < file[f].mtime
                    THEN [hasty EXCEPT ![f] = @ \cup (Revived(f) \ {None, file[f].contents})]
                    ELSE hasty
  BY DEF ChangeAttributes
<1>2. /\ file[f] \in FileRecord /\ clock \in Nat /\ file \in [Files -> FileRecord]
      /\ mtime \in Nat /\ mtime <= clock
  BY DEF TypeOK
<1>3. file'[f] = [there |-> file[f].there, contents |-> file[f].contents,
                  changes |-> file[f].changes + 1, mtime |-> mtime, ctime |-> clock,
                  size |-> file[f].size, mode |-> mode]
  BY <1>1, <1>2 DEF FileRecord
<1>4. file' = [file EXCEPT ![f] = file'[f]]
  <2>1. \A g \in Files : g # f => file'[g] = file[g]
    BY <1>1, <1>2
  <2>2. file' = [g \in Files |-> file'[g]]
    BY <1>1, <1>2
  <2> QED BY <1>2, <2>1, <2>2
<1>5. file'[f] \in FileRecord
  BY <1>2, <1>3 DEF FileRecord
<1>6. file'[f].mtime = mtime
  BY <1>3
<1> QED BY <1>1, <1>2, <1>3, <1>4, <1>5, <1>6 DEF FileRecord

(* A file goes. *)
LEMMA DeleteIs ==
  ASSUME TypeOK, NEW f \in Files, Delete(f)
  PROVE  /\ file'[f] \in FileRecord /\ ~file'[f].there
         /\ file[f].changes \in Nat /\ file'[f].changes = file[f].changes + 1
         /\ file'[f].contents = file[f].contents
         /\ file'[f].mtime = file[f].mtime /\ file'[f].ctime = file[f].ctime
         /\ file' = [file EXCEPT ![f] = file'[f]]
<1>1. file' = [file EXCEPT ![f].there = FALSE, ![f].changes = @ + 1]
  BY DEF Delete
<1>2. file[f] \in FileRecord /\ file \in [Files -> FileRecord]
  BY DEF TypeOK
<1>3. file'[f] = [there |-> FALSE, contents |-> file[f].contents,
                  changes |-> file[f].changes + 1, mtime |-> file[f].mtime,
                  ctime |-> file[f].ctime, size |-> file[f].size, mode |-> file[f].mode]
  BY <1>1, <1>2 DEF FileRecord
<1>4. file' = [file EXCEPT ![f] = file'[f]]
  <2>1. \A g \in Files : g # f => file'[g] = file[g]
    BY <1>1, <1>2
  <2>2. file' = [g \in Files |-> file'[g]]
    BY <1>1, <1>2
  <2> QED BY <1>2, <2>1, <2>2
<1>5. file'[f] \in FileRecord
  BY <1>2, <1>3 DEF FileRecord
<1> QED BY <1>2, <1>3, <1>4, <1>5 DEF FileRecord

(* What pictures may be revived. *)
LEMMA RevivedType ==
  ASSUME TypeOK, NEW f \in Files
  PROVE  Revived(f) \subseteq Nat
<1>1. thumb[f].pic \in Nat
  BY DEF TypeOK, ThumbRecord
<1>2. f \in DOMAIN cache => cache[f].obj \in Nat
  BY DEF TypeOK, IsCache, EntryRecord
<1> QED BY <1>1, <1>2 DEF Revived, Cache!Known

(* Types are kept. *)
LEMMA TypeNext ==
  ASSUME TypeOK, TimesTell, Next
  PROVE  TypeOK'
<1>0. IsCache(cache')
  BY CacheType
<1>1. CASE Tick
  BY <1>0, <1>1 DEF Tick, TypeOK, queueVars
<1>2. ASSUME NEW age, Purged(age), UNCHANGED <<fileVars, queueVars, busy>>,
             thumb' \in [Files -> ThumbRecord]
      PROVE  TypeOK'
  <2>1. child' \in [Children -> ChildRecord \cup {NoChild}]
    <3>2. \A c \in Children : child[c] \in ChildRecord \cup {NoChild}
      BY DEF TypeOK
    <3>3. \A c \in Children : child'[c] \in ChildRecord \cup {NoChild}
      <4> SUFFICES ASSUME NEW c \in Children PROVE child'[c] \in ChildRecord \cup {NoChild}
        OBVIOUS
      <4>1. CASE child'[c] = child[c]
        BY <4>1, <3>2
      <4>2. CASE child[c] # NoChild /\ child'[c] = [child[c] EXCEPT !.alone = FALSE]
        BY <4>2, <3>2 DEF ChildRecord
      <4> QED BY <4>1, <4>2, <1>2 DEF Purged
    <3> QED BY <3>3, <1>2 DEF Purged
  <2> QED BY <1>0, <1>2, <2>1 DEF TypeOK, fileVars, queueVars
<1>3. CASE PurgeMemory
  BY <1>2, <1>3 DEF PurgeMemory, TypeOK
<1>4. CASE PurgeDisk
  <2>1. NoThumb \in ThumbRecord
    BY DEF NoThumb, ThumbRecord, None
  <2> QED BY <1>2, <1>4, <2>1 DEF PurgeDisk
<1>5. CASE FinishLoad
  <2>1. /\ idle' = [idle EXCEPT ![busy.win] = @ + 1] /\ busy' = NotBusy
        /\ UNCHANGED <<fileVars, thumb, open, show, scanning, queue, bar, refs, child>>
    BY <1>5 DEF FinishLoad, GoOn
  <2>2. idle \in [Windows -> Nat] /\ busy.win \in Windows
    BY <1>5 DEF FinishLoad, TypeOK, BusyRecord
  <2>3. idle' \in [Windows -> Nat]
    BY <2>1, <2>2
  <2> QED BY <1>0, <2>1, <2>3 DEF TypeOK, fileVars
<1>6. ASSUME NEW f \in Changing, Write(f) PROVE TypeOK'
  <2>1. f \in Files
    BY ThumbAssumption
  <2>3. file' \in [Files -> FileRecord]
    BY <1>6, <2>1, WriteIs DEF TypeOK
  <2>4. hasty' \in [Files -> SUBSET Nat]
    <3>1. file[f].contents \in Nat
      BY <2>1 DEF TypeOK, FileRecord
    <3> QED BY <1>6, <3>1 DEF Write, TypeOK
  <2> QED BY <1>0, <1>6, <2>3, <2>4 DEF Write, TypeOK, queueVars
<1>24. ASSUME NEW f \in Changing, ChangeAttributes(f) PROVE TypeOK'
  <2>1. f \in Files
    BY ThumbAssumption
  <2>2. file' \in [Files -> FileRecord]
    BY <1>24, <2>1, AttributesAre DEF TypeOK
  <2>3. hasty' \in [Files -> SUBSET Nat]
    <3>1. hasty' = hasty \/ hasty' = [hasty EXCEPT ![f] =
                               hasty[f] \cup (Revived(f) \ {None, file[f].contents})]
      BY <1>24, <2>1, AttributesAre
    <3>2. hasty \in [Files -> SUBSET Nat] /\ Revived(f) \subseteq Nat
      BY <2>1, RevivedType DEF TypeOK
    <3> QED BY <2>1, <3>1, <3>2
  <2> QED BY <1>0, <1>24, <2>2, <2>3 DEF ChangeAttributes, TypeOK, queueVars
<1>7. ASSUME NEW f \in Changing, Delete(f) PROVE TypeOK'
  <2>1. f \in Files /\ file' \in [Files -> FileRecord]
    BY <1>7, ThumbAssumption, DeleteIs DEF TypeOK
  <2> QED BY <1>0, <1>7, <2>1 DEF Delete, TypeOK, queueVars
<1>8. ASSUME UNCHANGED <<fileVars, thumb, queueVars, child, busy>> PROVE TypeOK'
  BY <1>0, <1>8 DEF TypeOK, fileVars, queueVars
<1>9. ASSUME NEW f, LoadIcon(f) \/ DropIcon(f) \/ Update(f) PROVE TypeOK'
  BY <1>8, <1>9 DEF LoadIcon, DropIcon, Update
<1>10. ASSUME NEW w \in Windows, StartScan(w) PROVE TypeOK'
  BY <1>0, <1>10 DEF StartScan, TypeOK, fileVars
<1>11. ASSUME NEW w \in Windows, EndScan(w) PROVE TypeOK'
  <2>1. queue[w] \in Seq(Files) /\ CreateThumbs(w) \in Seq(Files)
    BY CreateThumbsType DEF TypeOK
  <2>2. Start(w, queue[w]) \/ Start(w, CreateThumbs(w))
    BY <1>11 DEF EndScan
  <2>3. /\ queue' \in [Windows -> Seq(Files)] /\ bar' \in [Windows -> BOOLEAN]
        /\ refs' \in [Windows -> Int] /\ idle' \in [Windows -> Nat]
    BY <2>1, <2>2, StartType
  <2> QED BY <1>0, <1>11, <2>3 DEF EndScan, TypeOK, fileVars
<1>12. ASSUME NEW w \in Windows, Cancel(w) PROVE TypeOK'
  <2>1. << >> \in Seq(Files)
    OBVIOUS
  <2> QED BY <1>0, <1>12, <2>1 DEF Cancel, TypeOK, fileVars
<1>13. ASSUME NEW w \in Windows, HideThumbs(w) PROVE TypeOK'
  <2>1. << >> \in Seq(Files)
    OBVIOUS
  <2> QED BY <1>0, <1>13, <2>1 DEF HideThumbs, TypeOK, fileVars
<1>14. ASSUME NEW w \in Windows, ShowThumbs(w) PROVE TypeOK'
  <2>1. CreateThumbs(w) \in Seq(Files)
    BY CreateThumbsType
  <2>2. /\ queue' \in [Windows -> Seq(Files)] /\ bar' \in [Windows -> BOOLEAN]
        /\ refs' \in [Windows -> Int] /\ idle' \in [Windows -> Nat]
    <3>1. CASE scanning[w]
      BY <1>14, <2>1, <3>1 DEF ShowThumbs, TypeOK
    <3>2. CASE ~scanning[w]
      BY <1>14, <2>1, <3>2, StartType DEF ShowThumbs
    <3> QED BY <3>1, <3>2
  <2> QED BY <1>0, <1>14, <2>2 DEF ShowThumbs, TypeOK, fileVars
<1>15. ASSUME NEW w \in Windows, Close(w) PROVE TypeOK'
  <2>1. << >> \in Seq(Files)
    OBVIOUS
  <2> QED BY <1>0, <1>15, <2>1 DEF Close, TypeOK, fileVars
<1>16. ASSUME NEW w \in Windows, EndChain(w) PROVE TypeOK'
  <2>1. idle' \in [Windows -> Nat] /\ refs' \in [Windows -> Int]
    BY <1>16 DEF EndChain, TypeOK
  <2> QED BY <1>0, <1>16, <2>1 DEF EndChain, TypeOK, fileVars
<1>17. ASSUME NEW w \in Windows, Take(w) PROVE queue' \in [Windows -> Seq(Files)]
  BY <1>17, HeadIsFile DEF Take, TypeOK
<1>18. ASSUME NEW w \in Windows, TakeCached(w) \/ TakeMade(w) \/ GiveUp(w) PROVE TypeOK'
  <2>1. Take(w) /\ UNCHANGED <<idle, child, busy>>
    BY <1>18 DEF TakeCached, TakeMade, GiveUp
  <2> QED BY <1>0, <1>17, <2>1 DEF Take, TypeOK, fileVars
<1>19. ASSUME NEW w \in Windows, TakeKept(w) PROVE TypeOK'
  <2>1. /\ Take(w) /\ UNCHANGED child
        /\ idle' = [idle EXCEPT ![w] = @ - 1]
        /\ ThumbnailFor(Head(queue[w])) # None
        /\ busy' = [pic |-> ThumbnailFor(Head(queue[w])), file |-> Head(queue[w]), win |-> w,
                    byChild |-> FALSE]
    BY <1>19 DEF TakeKept
  <2>2. idle' \in [Windows -> Nat]
    BY <2>1 DEF Take, TypeOK
  <2>3. busy' \in BusyRecord
    BY <2>1, HeadIsFile, FoundShows DEF BusyRecord
  <2> QED BY <1>0, <1>17, <2>1, <2>2, <2>3 DEF Take, TypeOK, fileVars
<1>20. ASSUME NEW w \in Windows, Fork(w) PROVE TypeOK'
  <2>1. PICK c \in Free :
          child' = [child EXCEPT ![c] = Child("started", w, Head(queue[w]), None,
                                              file[Head(queue[w])])]
    BY <1>20 DEF Fork
  <2>2. /\ Take(w) /\ UNCHANGED busy
        /\ idle' = [idle EXCEPT ![w] = @ - 1]
    BY <1>20 DEF Fork
  <2>3. idle' \in [Windows -> Nat]
    BY <2>2 DEF Take, TypeOK
  <2>4. Child("started", w, Head(queue[w]), None, file[Head(queue[w])]) \in ChildRecord
    BY <2>2, HeadIsFile DEF Child, ChildRecord, TypeOK, FileRecord, None
  <2>5. child' \in [Children -> ChildRecord \cup {NoChild}]
    BY <2>1, <2>4 DEF TypeOK
  <2> QED BY <1>0, <1>17, <2>2, <2>3, <2>5 DEF Take, TypeOK, fileVars
<1>21. ASSUME NEW c \in Children, ChildLoads(c) PROVE TypeOK'
  <2>1. child[c] \in ChildRecord
    BY <1>21, ChildAtWork DEF ChildLoads
  <2>2. file[child[c].file].contents \in Nat
    BY <2>1 DEF ChildRecord, TypeOK, FileRecord
  <2>3. /\ [child[c] EXCEPT !.pc = "made", !.pic = file[child[c].file].contents] \in ChildRecord
        /\ [child[c] EXCEPT !.pc = "dead"] \in ChildRecord
    BY <2>1, <2>2 DEF ChildRecord
  <2>4. child' \in [Children -> ChildRecord \cup {NoChild}]
    BY <1>21, <2>3 DEF ChildLoads, TypeOK
  <2> QED BY <1>0, <1>21, <2>4 DEF ChildLoads, TypeOK, fileVars, queueVars
<1>22. ASSUME NEW c \in Children, ChildSaves(c) PROVE TypeOK'
  <2>1. child[c] \in ChildRecord
    BY <1>22, ChildAtWork DEF ChildSaves
  <2>2. [child[c] EXCEPT !.pc = "dead"] \in ChildRecord
    BY <2>1 DEF ChildRecord
  <2>3. child' \in [Children -> ChildRecord \cup {NoChild}]
    BY <1>22, <2>2 DEF ChildSaves, TypeOK
  <2>4. thumb' \in [Files -> ThumbRecord]
    BY <1>22, <2>1 DEF ChildSaves, TypeOK, ChildRecord, ThumbRecord, FileRecord
  <2> QED BY <1>0, <1>22, <2>3, <2>4 DEF ChildSaves, TypeOK, fileVars, queueVars
<1>23. ASSUME NEW c \in Children, ChildDone(c) PROVE TypeOK'
  <2> DEFINE f == child[c].file
             w == child[c].win
  <2>1. child[c] \in ChildRecord
    BY <1>23, ChildAtWork DEF ChildDone
  <2>2. f \in Files /\ w \in Windows
    BY <2>1 DEF ChildRecord
  <2>3. child' \in [Children -> ChildRecord \cup {NoChild}]
    BY <1>23 DEF ChildDone, TypeOK
  <2>4. busy' \in BusyRecord \cup {NotBusy} /\ idle' \in [Windows -> Nat]
    <3>0. busy \in BusyRecord \cup {NotBusy} /\ idle \in [Windows -> Nat]
      BY DEF TypeOK
    <3>1. CASE ThumbnailFor(f) # None
      <4>1. /\ busy' = [pic |-> ThumbnailFor(f), file |-> f, win |-> w, byChild |-> TRUE]
            /\ idle' = idle
        BY <1>23, <3>1 DEF ChildDone
      <4> QED BY <2>2, <3>0, <3>1, <4>1, FoundShows DEF BusyRecord
    <3>2. CASE ThumbnailFor(f) = None
      <4>1. idle' = [idle EXCEPT ![w] = @ + 1] /\ busy' = busy
        BY <1>23, <3>2 DEF ChildDone, GoOnWithout
      <4> QED BY <2>2, <3>0, <4>1
    <3> QED BY <3>1, <3>2
  <2> QED BY <1>0, <1>23, <2>3, <2>4 DEF ChildDone, TypeOK, fileVars
<1> QED BY ThumbAssumption, <1>1, <1>3, <1>4, <1>5, <1>6, <1>7, <1>9, <1>10, <1>11, <1>12, <1>13,
           <1>14, <1>15, <1>16, <1>18, <1>19, <1>20, <1>21, <1>22, <1>23, <1>24
        DEF Next, ChainStep, ChildStep

-----------------------------------------------------------------------------
(* Chains, counted. *)

(* The chains of a window that wait for a picture to be put in the cache. *)
Loads(w) == IF busy.pic # None /\ busy.win = w THEN 1 ELSE 0

(* A window has finitely many children. *)
LEMMA ChildrenCount ==
  ASSUME NEW w
  PROVE  IsFiniteSet(ChildrenOf(w)) /\ Cardinality(ChildrenOf(w)) \in Nat
<1>1. ChildrenOf(w) \in SUBSET Children
  BY DEF ChildrenOf
<1>2. IsFiniteSet(ChildrenOf(w))
  BY <1>1, ThumbAssumption, FS_Subset
<1> QED BY <1>2, FS_CardinalityType

(* ... and so a natural number of chains. *)
LEMMA ChainsNat ==
  ASSUME TypeOK, NEW w \in Windows
  PROVE  /\ Chains(w) = idle[w] + Cardinality(ChildrenOf(w)) + Loads(w)
         /\ idle[w] \in Nat /\ Cardinality(ChildrenOf(w)) \in Nat /\ Loads(w) \in Nat
         /\ Chains(w) \in Nat
<1>1. /\ Chains(w) = idle[w] + Cardinality(ChildrenOf(w)) + Loads(w)
      /\ idle[w] \in Nat /\ Loads(w) \in Nat
  BY DEF Chains, Loads, TypeOK
<1> QED BY <1>1, ChildrenCount

(* The chains of a window, next. *)
Steady(w) == Chains(w)' = Chains(w)

(* Nothing that makes a chain has changed. *)
LEMMA SameChains ==
  ASSUME UNCHANGED <<idle, child, busy>>, NEW w
  PROVE  Steady(w)
BY DEF Steady, Chains, ChildrenOf

(* The children are for the same windows as before. *)
SameChildren == \A w \in Windows : ChildrenOf(w)' = ChildrenOf(w)

(* ... and what else makes a chain has not changed. *)
LEMMA SameChildrenChains ==
  ASSUME SameChildren, UNCHANGED <<idle, busy>>, NEW w \in Windows
  PROVE  Steady(w)
BY DEF SameChildren, Steady, Chains

(* A child that goes on with its work is a chain as before. *)
LEMMA ChildStepChains ==
  ASSUME TypeOK, NEW c \in Children, ChildStep(c)
  PROVE  SameChildren
<1>1. /\ child[c].pc # "none" /\ child[c] \in ChildRecord
      /\ \E pc \in {"made", "dead"} : \E pic :
           child' = [child EXCEPT ![c].pc = pc, ![c].pic = pic]
  <2>1. child[c].pc \in {"started", "made"}
    BY DEF ChildStep, ChildLoads, ChildSaves
  <2>2. child[c] \in ChildRecord
    BY <2>1, ChildAtWork
  <2>3. CASE child' = [child EXCEPT ![c].pc = "made", ![c].pic = file[child[c].file].contents]
    BY <2>1, <2>2, <2>3
  <2>4. CASE child' = [child EXCEPT ![c].pc = "dead"]
    <3>1. [child EXCEPT ![c].pc = "dead"]
            = [child EXCEPT ![c].pc = "dead", ![c].pic = child[c].pic]
      BY <2>2 DEF TypeOK, ChildRecord
    <3> QED BY <2>1, <2>2, <2>4, <3>1
  <2> QED BY <2>3, <2>4 DEF ChildStep, ChildLoads, ChildSaves
<1>2. /\ child'[c].pc # "none" /\ child'[c].win = child[c].win
      /\ \A d \in Children : d # c => child'[d] = child[d]
  BY <1>1 DEF TypeOK, ChildRecord
<1> QED BY <1>1, <1>2 DEF SameChildren, ChildrenOf

(* A purge changes no chain. *)
LEMMA PurgedChains ==
  ASSUME TypeOK, NEW age, Purged(age)
  PROVE  SameChildren
<1>1. ASSUME NEW c \in Children
      PROVE  (child'[c].pc # "none" <=> child[c].pc # "none") /\
             (child[c].pc # "none" => child'[c].win = child[c].win)
  <2>1. CASE child'[c] = child[c]
    BY <2>1
  <2>2. CASE child[c] # NoChild /\ child'[c] = [child[c] EXCEPT !.alone = FALSE]
    <3>1. child[c] \in ChildRecord
      BY <2>2, ChildAtWork
    <3> QED BY <2>2, <3>1 DEF ChildRecord
  <2> QED BY <2>1, <2>2 DEF Purged
<1> QED BY <1>1 DEF SameChildren, ChildrenOf

(* A child is forked. *)
LEMMA ForkChains ==
  ASSUME TypeOK, NEW w \in Windows, Fork(w), NEW v \in Windows
  PROVE  Steady(v)
<1>1. PICK c \in Free :
        child' = [child EXCEPT ![c] = Child("started", w, Head(queue[w]), None,
                                            file[Head(queue[w])])]
  BY DEF Fork
<1>2. c \in Children /\ child[c].pc = "none"
  BY <1>1 DEF Free
<1>3. /\ child'[c].pc # "none" /\ child'[c].win = w
      /\ \A d \in Children : d # c => child'[d] = child[d]
  BY <1>1, <1>2 DEF TypeOK, Child
<1>4. idle' = [idle EXCEPT ![w] = @ - 1] /\ busy' = busy /\ idle[w] \in Nat
  BY DEF Fork, TypeOK
<1>5. CASE v = w
  <2>1. ChildrenOf(v)' = ChildrenOf(v) \cup {c} /\ c \notin ChildrenOf(v)
    BY <1>2, <1>3, <1>5 DEF ChildrenOf
  <2>2. Cardinality(ChildrenOf(v)') = Cardinality(ChildrenOf(v)) + 1
    BY <2>1, ChildrenCount, FS_AddElement
  <2>3. idle'[v] = idle[v] - 1
    BY <1>4, <1>5 DEF TypeOK
  <2>4. Cardinality(ChildrenOf(v)) \in Nat
    BY ChildrenCount
  <2> QED BY <1>4, <1>5, <2>2, <2>3, <2>4 DEF Steady, Chains
<1>6. CASE v # w
  <2>1. ChildrenOf(v)' = ChildrenOf(v)
    BY <1>2, <1>3, <1>6 DEF ChildrenOf
  <2>2. idle'[v] = idle[v]
    BY <1>4, <1>6 DEF TypeOK
  <2> QED BY <1>4, <2>1, <2>2 DEF Steady, Chains
<1> QED BY <1>5, <1>6

(* A child is done. *)
LEMMA ChildDoneChains ==
  ASSUME TypeOK, TimesTell, NEW c \in Children, ChildDone(c), NEW v \in Windows
  PROVE  Steady(v)
<1> DEFINE f == child[c].file
           w == child[c].win
<1>1. child[c] \in ChildRecord /\ child[c].pc # "none"
  BY ChildAtWork DEF ChildDone
<1>2. f \in Files /\ w \in Windows
  BY <1>1 DEF ChildRecord
<1>3. /\ child'[c].pc = "none"
      /\ \A d \in Children : d # c => child'[d] = child[d]
  BY DEF ChildDone, TypeOK, NoChild
<1>4. IF v = w THEN ChildrenOf(v)' = ChildrenOf(v) \ {c} /\ c \in ChildrenOf(v)
      ELSE ChildrenOf(v)' = ChildrenOf(v)
  BY <1>1, <1>3 DEF ChildrenOf
<1>5. Cardinality(ChildrenOf(v)') = Cardinality(ChildrenOf(v)) - (IF v = w THEN 1 ELSE 0)
  BY <1>4, ChildrenCount, FS_RemoveElement
<1>6. idle'[v] + Loads(v)' = idle[v] + Loads(v) + (IF v = w THEN 1 ELSE 0)
  <2>0. Loads(v) = 0 /\ idle[v] \in Nat
    BY DEF ChildDone, Loads, NotBusy, None, TypeOK
  <2>1. CASE ThumbnailFor(f) # None
    <3>1. /\ busy' = [pic |-> ThumbnailFor(f), file |-> f, win |-> w, byChild |-> TRUE]
          /\ idle' = idle
      BY <2>1 DEF ChildDone
    <3>2. Loads(v)' = IF v = w THEN 1 ELSE 0
      BY <2>1, <3>1 DEF Loads
    <3> QED BY <2>0, <3>1, <3>2
  <2>2. CASE ThumbnailFor(f) = None
    <3>1. idle' = [idle EXCEPT ![w] = @ + 1] /\ busy' = busy
      BY <2>2 DEF ChildDone, GoOnWithout
    <3>2. Loads(v)' = 0
      BY <2>0, <3>1 DEF Loads
    <3>3. idle'[v] = idle[v] + (IF v = w THEN 1 ELSE 0)
      BY <1>2, <2>0, <3>1 DEF TypeOK
    <3> QED BY <2>0, <3>2, <3>3
  <2> QED BY <2>1, <2>2
<1>7. /\ Cardinality(ChildrenOf(v)) \in Nat
      /\ Chains(v) = idle[v] + Cardinality(ChildrenOf(v)) + Loads(v)
      /\ Chains(v)' = idle'[v] + Cardinality(ChildrenOf(v)') + Loads(v)'
      /\ idle[v] \in Nat /\ Loads(v) \in Nat
  BY ChildrenCount DEF Chains, Loads, TypeOK
<1>8. idle'[v] \in Nat /\ Loads(v)' \in Nat
  BY <1>2, TypeNext DEF Next, Loads, TypeOK
<1> HIDE DEF f, w
<1> QED BY <1>5, <1>6, <1>7, <1>8 DEF Steady

(* One of a window's chains takes a file whose picture is kept. *)
LEMMA TakeKeptChains ==
  ASSUME TypeOK, TimesTell, NEW w \in Windows, TakeKept(w), NEW v \in Windows
  PROVE  Steady(v)
<1> DEFINE f == Head(queue[w])
<1>1. /\ Take(w) /\ UNCHANGED child /\ ThumbnailFor(f) # None
      /\ idle' = [idle EXCEPT ![w] = @ - 1]
      /\ busy' = [pic |-> ThumbnailFor(f), file |-> f, win |-> w, byChild |-> FALSE]
  BY DEF TakeKept
<1>2. Loads(v) = 0
  BY <1>1 DEF Take, Loads, NotBusy, None
<1>3. Loads(v)' = IF v = w THEN 1 ELSE 0
  BY <1>1 DEF Loads
<1>4. idle[v] \in Nat /\ idle'[v] = idle[v] - (IF v = w THEN 1 ELSE 0)
  BY <1>1 DEF TypeOK
<1>5. ChildrenOf(v)' = ChildrenOf(v)
  BY <1>1 DEF ChildrenOf
<1>6. /\ Cardinality(ChildrenOf(v)) \in Nat
      /\ Chains(v) = idle[v] + Cardinality(ChildrenOf(v)) + Loads(v)
      /\ Chains(v)' = idle'[v] + Cardinality(ChildrenOf(v)') + Loads(v)'
  BY ChildrenCount DEF Chains, Loads
<1> HIDE DEF f
<1> QED BY <1>2, <1>3, <1>4, <1>5, <1>6 DEF Steady

(* The picture that was read is in the cache; its chain goes on. *)
LEMMA FinishLoadChains ==
  ASSUME TypeOK, FinishLoad, NEW v \in Windows
  PROVE  Steady(v)
<1> DEFINE w == busy.win
<1>1. busy # NotBusy /\ idle' = [idle EXCEPT ![w] = @ + 1] /\ busy' = NotBusy /\ child' = child
  BY DEF FinishLoad, GoOn
<1>2. busy \in BusyRecord
  BY <1>1 DEF TypeOK
<1>3. Loads(v) = IF v = w THEN 1 ELSE 0
  BY <1>2 DEF Loads, BusyRecord
<1>4. Loads(v)' = 0
  BY <1>1 DEF Loads, NotBusy, None
<1>5. idle[v] \in Nat /\ idle'[v] = idle[v] + (IF v = w THEN 1 ELSE 0)
  BY <1>1 DEF TypeOK
<1>6. ChildrenOf(v)' = ChildrenOf(v)
  BY <1>1 DEF ChildrenOf
<1>7. /\ Cardinality(ChildrenOf(v)) \in Nat
      /\ Chains(v) = idle[v] + Cardinality(ChildrenOf(v)) + Loads(v)
      /\ Chains(v)' = idle'[v] + Cardinality(ChildrenOf(v)') + Loads(v)'
  BY ChildrenCount DEF Chains, Loads
<1> HIDE DEF w
<1> QED BY <1>3, <1>4, <1>5, <1>6, <1>7 DEF Steady

(* A window has n more chains, or fewer, and so many references. *)
Counts(w, n) == /\ idle'[w] = idle[w] + n /\ refs'[w] = refs[w] + n
                /\ Chains(w)' = Chains(w) + n

(* Chains that begin or end in their idle callback. *)
LEMMA IdleCounts ==
  ASSUME TypeOK, UNCHANGED <<child, busy>>, NEW w \in Windows, NEW n \in {-1, 1},
         idle' = [idle EXCEPT ![w] = @ + n], refs' = [refs EXCEPT ![w] = @ + n]
  PROVE  Counts(w, n) /\ \A v \in Windows : v # w => Counts(v, 0)
<1> SUFFICES ASSUME NEW v \in Windows, NEW m \in Int, m = IF v = w THEN n ELSE 0
             PROVE  Counts(v, m)
  <2>1. n \in Int /\ 0 \in Int
    OBVIOUS
  <2> QED BY <2>1
<1>1. /\ idle[v] \in Nat /\ refs[v] \in Int
      /\ idle'[v] = idle[v] + m /\ refs'[v] = refs[v] + m
  BY DEF TypeOK
<1>2. /\ ChildrenOf(v)' = ChildrenOf(v) /\ Loads(v)' = Loads(v)
      /\ Chains(v)' = idle'[v] + Cardinality(ChildrenOf(v)') + Loads(v)'
  BY DEF ChildrenOf, Loads, Chains
<1> QED BY <1>1, <1>2, ChainsNat DEF Counts

(* Nothing that counts has changed. *)
LEMMA SteadyCounts ==
  ASSUME TypeOK, UNCHANGED <<idle, refs>>, NEW w \in Windows, Steady(w)
  PROVE  Counts(w, 0)
<1>1. idle[w] \in Nat /\ refs[w] \in Int /\ Chains(w) \in Nat
  BY ChainsNat DEF TypeOK
<1> QED BY <1>1 DEF Steady, Counts

(* QueueIsServed, of one window. *)
Served(w) == open[w] => /\ bar[w] => Chains(w) > 0
                        /\ queue[w] # << >> /\ ~scanning[w] => bar[w]

(* A step that concerns one window. *)
LEMMA OneWindow ==
  ASSUME TypeOK, RefsAreChains, QueueIsServed, NEW w \in Windows, NEW n \in Int,
         Counts(w, n), Served(w)',
         \A v \in Windows : v # w =>
           /\ Counts(v, 0)
           /\ open'[v] = open[v] /\ bar'[v] = bar[v]
           /\ queue'[v] = queue[v] /\ scanning'[v] = scanning[v]
  PROVE  RefsAreChains' /\ QueueIsServed'
<1>1. ASSUME NEW v \in Windows, v # w
      PROVE  refs'[v] = refs[v] /\ Chains(v)' = Chains(v)
  <2>1. Counts(v, 0) /\ refs[v] \in Int /\ Chains(v) \in Nat
    BY <1>1, ChainsNat DEF TypeOK
  <2> QED BY <2>1 DEF Counts
<1>2. \A v \in Windows : refs'[v] = Chains(v)'
  BY <1>1 DEF RefsAreChains, Counts
<1>3. \A v \in Windows : Served(v)'
  <2> SUFFICES ASSUME NEW v \in Windows, v # w PROVE Served(v)'
    OBVIOUS
  <2>1. Served(v)
    BY DEF QueueIsServed, Served
  <2> QED BY <1>1, <2>1 DEF Served
<1> QED BY <1>2, <1>3 DEF RefsAreChains, QueueIsServed, Served

(* A step that concerns no window. *)
LEMMA NoWindow ==
  ASSUME TypeOK, RefsAreChains, QueueIsServed, UNCHANGED <<open, scanning, queue, bar, refs>>,
         \A w \in Windows : Steady(w)
  PROVE  RefsAreChains' /\ QueueIsServed'
<1>1. \A w \in Windows : refs'[w] = Chains(w)'
  BY DEF RefsAreChains, Steady
<1>2. \A w \in Windows : Served(w)'
  BY DEF QueueIsServed, Served, Steady
<1> QED BY <1>1, <1>2 DEF RefsAreChains, QueueIsServed, Served

(* A step that takes a file from a queue, its chain going on. *)
LEMMA TakeServes ==
  ASSUME TypeOK, RefsAreChains, QueueIsServed, NEW w \in Windows, Take(w),
         \A v \in Windows : Steady(v)
  PROVE  RefsAreChains' /\ QueueIsServed'
<1>1. /\ UNCHANGED <<open, scanning, bar, refs>>
      /\ queue[w] # << >> /\ \A v \in Windows : v # w => queue'[v] = queue[v]
  BY DEF Take, TypeOK
<1>2. \A v \in Windows : Served(v)'
  BY <1>1 DEF QueueIsServed, Served, Steady
<1>3. \A v \in Windows : refs'[v] = Chains(v)'
  BY <1>1 DEF RefsAreChains, Steady
<1> QED BY <1>2, <1>3 DEF RefsAreChains, QueueIsServed, Served

(* A window's queue is emptied and its bar hidden. *)
LEMMA StopServes ==
  ASSUME TypeOK, RefsAreChains, QueueIsServed, NEW w \in Windows,
         UNCHANGED <<scanning, refs, idle, child, busy>>,
         bar' = [bar EXCEPT ![w] = FALSE], queue' = [queue EXCEPT ![w] = << >>],
         \A v \in Windows : v # w => open'[v] = open[v]
  PROVE  RefsAreChains' /\ QueueIsServed'
<1>1. \A v \in Windows : Counts(v, 0)
  BY SameChains, SteadyCounts
<1>2. /\ bar'[w] = FALSE /\ queue'[w] = << >>
      /\ \A v \in Windows : v # w => bar'[v] = bar[v] /\ queue'[v] = queue[v]
  BY DEF TypeOK
<1>3. Served(w)'
  BY <1>2 DEF Served
<1>4. 0 \in Int /\ UNCHANGED scanning
  OBVIOUS
<1>5. \A v \in Windows : v # w =>
        /\ Counts(v, 0)
        /\ open'[v] = open[v] /\ bar'[v] = bar[v]
        /\ queue'[v] = queue[v] /\ scanning'[v] = scanning[v]
  BY <1>1, <1>2
<1> QED BY <1>1, <1>3, <1>4, <1>5, OneWindow

(* A window is given a queue, and a chain if none is at work. *)
LEMMA StartServes ==
  ASSUME TypeOK, RefsAreChains, QueueIsServed, NEW w \in Windows, NEW wanted, Start(w, wanted),
         UNCHANGED <<open, child, busy>>,
         \A v \in Windows : v # w => scanning'[v] = scanning[v]
  PROVE  RefsAreChains' /\ QueueIsServed'
<1>1. queue'[w] = wanted /\ \A v \in Windows : v # w => queue'[v] = queue[v]
  BY DEF Start, TypeOK
<1>2. CASE wanted # << >> /\ ~bar[w]
  <2>1. /\ bar' = [bar EXCEPT ![w] = TRUE]
        /\ refs' = [refs EXCEPT ![w] = @ + 1]
        /\ idle' = [idle EXCEPT ![w] = @ + 1]
    BY <1>2 DEF Start
  <2>2. Counts(w, 1) /\ \A v \in Windows : v # w => Counts(v, 0)
    BY <2>1, IdleCounts
  <2>3. bar'[w] /\ \A v \in Windows : v # w => bar'[v] = bar[v]
    BY <2>1 DEF TypeOK
  <2>4. Served(w)'
    <3>1. Chains(w)' > 0
      BY <2>2, ChainsNat DEF Counts
    <3> QED BY <2>3, <3>1 DEF Served
  <2> QED BY <1>1, <2>2, <2>3, <2>4, OneWindow
<1>3. CASE ~(wanted # << >> /\ ~bar[w])
  <2>1. UNCHANGED <<bar, refs, idle>>
    BY <1>3 DEF Start
  <2>2. \A v \in Windows : Counts(v, 0) /\ Steady(v)
    BY <2>1, SameChains, SteadyCounts
  <2>3. Served(w)'
    BY <1>1, <1>3, <2>1, <2>2 DEF QueueIsServed, Served, Steady
  <2> QED BY <1>1, <2>1, <2>2, <2>3, OneWindow
<1> QED BY <1>2, <1>3

(* A chain ends. *)
LEMMA EndChainServes ==
  ASSUME TypeOK, RefsAreChains, QueueIsServed, NEW w \in Windows, EndChain(w)
  PROVE  RefsAreChains' /\ QueueIsServed'
<1>1. /\ UNCHANGED <<open, scanning, queue, child, busy>>
      /\ idle' = [idle EXCEPT ![w] = @ - 1] /\ refs' = [refs EXCEPT ![w] = @ - 1]
      /\ open[w] => queue[w] = << >>
      /\ bar' = IF open[w] THEN [bar EXCEPT ![w] = FALSE] ELSE bar
  BY DEF EndChain
<1>2. idle' = [idle EXCEPT ![w] = @ + (-1)] /\ refs' = [refs EXCEPT ![w] = @ + (-1)]
  BY <1>1 DEF TypeOK
<1>3. Counts(w, -1) /\ \A v \in Windows : v # w => Counts(v, 0)
  BY <1>1, <1>2, IdleCounts
<1>4. /\ open[w] => bar'[w] = FALSE
      /\ \A v \in Windows : v # w => bar'[v] = bar[v]
  BY <1>1 DEF TypeOK
<1>5. Served(w)'
  BY <1>1, <1>4 DEF Served
<1>6. -1 \in Int
  OBVIOUS
<1>7. \A v \in Windows : v # w =>
        /\ Counts(v, 0)
        /\ open'[v] = open[v] /\ bar'[v] = bar[v]
        /\ queue'[v] = queue[v] /\ scanning'[v] = scanning[v]
  BY <1>1, <1>3, <1>4
<1> QED BY <1>3, <1>5, <1>6, <1>7, OneWindow

(* Every step leaves a reference for every chain, and every queue served. *)
LEMMA ChainsNext ==
  ASSUME TypeOK, TimesTell, RefsAreChains, QueueIsServed, Next
  PROVE  RefsAreChains' /\ QueueIsServed'
<1>1. ASSUME UNCHANGED <<queueVars, child, busy>> PROVE RefsAreChains' /\ QueueIsServed'
  BY <1>1, SameChains, NoWindow DEF queueVars
<1>2. CASE Tick
  BY <1>1, <1>2 DEF Tick
<1>3. ASSUME NEW f, \/ Write(f) \/ ChangeAttributes(f) \/ Delete(f)
                    \/ LoadIcon(f) \/ DropIcon(f) \/ Update(f)
      PROVE  RefsAreChains' /\ QueueIsServed'
  BY <1>1, <1>3 DEF Write, ChangeAttributes, Delete, LoadIcon, DropIcon, Update
<1>4. CASE PurgeMemory \/ PurgeDisk
  <2>1. SameChildren /\ UNCHANGED <<queueVars, busy>>
    BY <1>4, PurgedChains DEF PurgeMemory, PurgeDisk
  <2> QED BY <2>1, SameChildrenChains, NoWindow DEF queueVars
<1>5. CASE FinishLoad
  BY <1>5, FinishLoadChains, NoWindow DEF FinishLoad
<1>6. ASSUME NEW c \in Children, ChildStep(c) PROVE RefsAreChains' /\ QueueIsServed'
  <2>1. SameChildren /\ UNCHANGED <<queueVars, busy>>
    BY <1>6, ChildStepChains DEF ChildStep, ChildLoads, ChildSaves
  <2> QED BY <2>1, SameChildrenChains, NoWindow DEF queueVars
<1>7. ASSUME NEW c \in Children, ChildDone(c) PROVE RefsAreChains' /\ QueueIsServed'
  BY <1>7, ChildDoneChains, NoWindow DEF ChildDone
<1>8. ASSUME NEW w \in Windows, StartScan(w) PROVE RefsAreChains' /\ QueueIsServed'
  <2>1. /\ scanning'[w] /\ \A v \in Windows : v # w => scanning'[v] = scanning[v]
        /\ UNCHANGED <<open, queue, bar, refs, idle, child, busy>>
    BY <1>8 DEF StartScan, TypeOK
  <2>2. \A v \in Windows : Steady(v) /\ Counts(v, 0)
    BY <2>1, SameChains, SteadyCounts
  <2>3. Served(w)'
    BY <2>1, <2>2 DEF QueueIsServed, Served, Steady
  <2> QED BY <2>1, <2>2, <2>3, OneWindow
<1>9. ASSUME NEW w \in Windows, EndScan(w) PROVE RefsAreChains' /\ QueueIsServed'
  <2>1. /\ \A v \in Windows : v # w => scanning'[v] = scanning[v]
        /\ UNCHANGED <<open, child, busy>>
        /\ Start(w, queue[w]) \/ Start(w, CreateThumbs(w))
    BY <1>9 DEF EndScan, TypeOK
  <2> QED BY <2>1, StartServes
<1>10. ASSUME NEW w \in Windows, Cancel(w) \/ HideThumbs(w)
       PROVE  RefsAreChains' /\ QueueIsServed'
  BY <1>10, StopServes DEF Cancel, HideThumbs
<1>11. ASSUME NEW w \in Windows, Close(w) PROVE RefsAreChains' /\ QueueIsServed'
  <2>1. \A v \in Windows : v # w => open'[v] = open[v]
    BY <1>11 DEF Close, TypeOK
  <2> QED BY <1>11, <2>1, StopServes DEF Close
<1>12. ASSUME NEW w \in Windows, ShowThumbs(w) PROVE RefsAreChains' /\ QueueIsServed'
  <2>1. UNCHANGED <<open, scanning, child, busy>>
    BY <1>12 DEF ShowThumbs
  <2>2. CASE ~scanning[w]
    <3>1. Start(w, CreateThumbs(w))
      BY <1>12, <2>2 DEF ShowThumbs
    <3> QED BY <2>1, <3>1, StartServes
  <2>3. CASE scanning[w]
    <3>1. /\ UNCHANGED <<bar, refs, idle>>
          /\ \A v \in Windows : v # w => queue'[v] = queue[v]
      BY <1>12, <2>3 DEF ShowThumbs, TypeOK
    <3>2. \A v \in Windows : Steady(v) /\ Counts(v, 0)
      BY <2>1, <3>1, SameChains, SteadyCounts
    <3>3. Served(w)'
      BY <2>1, <2>3, <3>1, <3>2 DEF QueueIsServed, Served, Steady
    <3> QED BY <2>1, <3>1, <3>2, <3>3, OneWindow
  <2> QED BY <2>2, <2>3
<1>13. ASSUME NEW w \in Windows, TakeCached(w) \/ TakeMade(w) \/ GiveUp(w)
       PROVE  RefsAreChains' /\ QueueIsServed'
  <2>1. Take(w) /\ UNCHANGED <<idle, child, busy>>
    BY <1>13 DEF TakeCached, TakeMade, GiveUp
  <2> QED BY <2>1, SameChains, TakeServes
<1>14. ASSUME NEW w \in Windows, TakeKept(w) PROVE RefsAreChains' /\ QueueIsServed'
  BY <1>14, TakeKeptChains, TakeServes DEF TakeKept
<1>15. ASSUME NEW w \in Windows, Fork(w) PROVE RefsAreChains' /\ QueueIsServed'
  BY <1>15, ForkChains, TakeServes DEF Fork
<1> QED BY <1>2, <1>3, <1>4, <1>5, <1>6, <1>7, <1>8, <1>9, <1>10, <1>11, <1>12, <1>13, <1>14,
           <1>15, EndChainServes DEF Next, ChainStep

-----------------------------------------------------------------------------
(* Times. *)

(* A write either shows in the time of what is out of date with it, or is   *)
(* hasty.                                                                   *)
LEMMA WriteTells ==
  ASSUME TypeOK, TimesTell, NEW f \in Files, Write(f)
  PROVE  TimesTell'
<1>1. /\ file'[f] \in FileRecord /\ file'[f].mtime = clock /\ file'[f].ctime = clock
      /\ \A g \in Files : g # f => file'[g] = file[g]
      /\ UNCHANGED <<clock, thumb, cache, child, busy>>
      /\ clock \in Nat
  BY WriteIs DEF Write, TypeOK
<1>2. /\ \A g \in Files : hasty[g] \subseteq hasty'[g]
      /\ IsHasty(f) => file[f].contents \in hasty'[f]
  BY DEF Write, TypeOK
<1>3. ASSUME NEW p, NEW g \in Files, Shows(p, g), g # f \/ IsHasty(f) PROVE Shows(p, g)'
  <2>1. CASE g = f
    BY <1>2, <1>3, <2>1 DEF Shows
  <2>2. CASE g # f
    BY <1>1, <1>2, <1>3, <2>2 DEF Shows
  <2> QED BY <2>1, <2>2
<1>4. \A g \in Files : file'[g].mtime <= clock /\ file'[g].ctime <= clock
  BY <1>1 DEF TimesTell
<1>5. ASSUME NEW g \in DOMAIN cache
      PROVE  Shows(cache[g].obj, g)' \/ Told(cache[g], g)'
  <2>1. g \in Files /\ cache[g] \in EntryRecord /\ cache[g].mtime <= clock
    BY DEF TypeOK, IsCache, TimesTell
  <2>2. Shows(cache[g].obj, g) \/ Told(cache[g], g)
    BY DEF TimesTell
  <2>3. CASE g # f
    BY <1>1, <1>3, <2>1, <2>2, <2>3 DEF Told
  <2>4. CASE g = f /\ cache[f].mtime # clock
    BY <1>1, <2>1, <2>4 DEF EntryRecord, Told
  <2>6. CASE g = f /\ cache[f].ctime < file[f].ctime
    <3>1. file[f].ctime <= clock /\ file[f].ctime \in Nat /\ cache[f].ctime \in Nat
      BY <2>1, <2>6 DEF TimesTell, TypeOK, FileRecord, EntryRecord
    <3>2. cache[f].ctime < clock
      BY <1>1, <2>6, <3>1
    <3> QED BY <1>1, <2>6, <3>2 DEF Told
  <2>5. CASE g = f /\ cache[f].mtime = clock /\ ~(cache[f].ctime < file[f].ctime)
    <3>1. ~Told(cache[f], f)
      BY <1>1, <2>5 DEF Told, TimesTell, TypeOK, FileRecord
    <3>2. CASE cache[f].obj = None
      BY <1>1, <2>5, <3>2 DEF Shows
    <3>3. CASE cache[f].obj # None
      <4>1. IsHasty(f) /\ Shows(cache[g].obj, g)
        BY <2>2, <2>5, <3>1, <3>3 DEF IsHasty, Cache!Known
      <4> QED BY <1>1, <1>2, <2>5, <4>1 DEF Shows
    <3> QED BY <3>2, <3>3
  <2> QED BY <2>3, <2>4, <2>5, <2>6
<1>6. ASSUME NEW g \in Files, thumb[g] # NoThumb
      PROVE  \/ Shows(thumb[g].pic, g)'
             \/ thumb[g].mtime < file'[g].mtime /\ thumb[g].mtime + TooOld < clock
  <2>1. /\ thumb[g].mtime \in Nat /\ TooOld \in Nat
        /\ file[g].mtime \in Nat /\ file[g].mtime <= clock
    BY ThumbAssumption DEF TypeOK, ThumbRecord, FileRecord, TimesTell
  <2>2. \/ Shows(thumb[g].pic, g)
        \/ thumb[g].mtime < file[g].mtime /\ thumb[g].mtime + TooOld < clock
    BY <1>6 DEF TimesTell
  <2>3. CASE g # f
    BY <1>1, <1>3, <2>2, <2>3
  <2>4. CASE g = f /\ clock <= thumb[f].mtime + TooOld
    BY <1>1, <1>3, <1>6, <2>1, <2>2, <2>4 DEF IsHasty
  <2>5. CASE g = f /\ ~(clock <= thumb[f].mtime + TooOld)
    BY <1>1, <2>1, <2>5
  <2> QED BY <2>3, <2>4, <2>5
<1>7. ASSUME NEW c \in Children, child[c].pc = "made"
      PROVE  Shows(child[c].pic, child[c].file)'
  <2>1. child[c] \in ChildRecord /\ Shows(child[c].pic, child[c].file)
    BY <1>7, ChildAtWork DEF TimesTell
  <2>2. child[c].file \in Files
    BY <2>1 DEF ChildRecord
  <2>3. child[c].file # f \/ IsHasty(f)
    BY <1>7 DEF IsHasty
  <2>4. \A p, g : g \in Files /\ Shows(p, g) /\ (g # f \/ IsHasty(f)) => Shows(p, g)'
    BY <1>3
  <2> QED BY <1>1, <2>1, <2>2, <2>3, <2>4 DEF Shows
<1>8. ASSUME busy # NotBusy PROVE Shows(busy.pic, busy.file)'
  <2>1. busy \in BusyRecord /\ Shows(busy.pic, busy.file)
    BY <1>8 DEF TypeOK, TimesTell
  <2>2. busy.file \in Files /\ busy.pic # None
    BY <2>1 DEF BusyRecord
  <2>3. busy.file # f \/ IsHasty(f)
    BY <2>2 DEF IsHasty
  <2> QED BY <1>1, <1>2, <2>1, <2>2, <2>3 DEF Shows
<1>9. \A g \in DOMAIN cache : cache[g].mtime <= clock /\ cache[g].ctime <= clock
  BY DEF TimesTell
<1> QED BY <1>1, <1>4, <1>5, <1>6, <1>7, <1>8, <1>9 DEF TimesTell, Shows, Told

(* So does a change of attributes: what it could bring back by setting the  *)
(* time back counts as hasty from then on.                                  *)
LEMMA AttributesTell ==
  ASSUME TypeOK, TimesTell, NEW f \in Files, ChangeAttributes(f)
  PROVE  TimesTell'
<1>1. /\ file'[f] \in FileRecord /\ file'[f].contents = file[f].contents
      /\ file'[f].mtime <= clock /\ file'[f].ctime = clock
      /\ \A g \in Files : g # f => file'[g] = file[g]
      /\ UNCHANGED <<clock, thumb, cache, child, busy>>
      /\ clock \in Nat
  BY AttributesAre DEF ChangeAttributes, TypeOK
<1>2. /\ \A g \in Files : hasty[g] \subseteq hasty'[g]
      /\ file'[f].mtime < file[f].mtime =>
           Revived(f) \ {None, file[f].contents} \subseteq hasty'[f]
  <2>1. hasty \in [Files -> SUBSET Nat]
    BY DEF TypeOK
  <2> QED BY <2>1, AttributesAre
<1>3. ASSUME NEW p, NEW g \in Files, Shows(p, g) PROVE Shows(p, g)'
  <2>1. file'[g].contents = file[g].contents
    BY <1>1
  <2> QED BY <1>2, <1>3, <2>1 DEF Shows
<1>4. ASSUME NEW p \in Revived(f), file'[f].mtime < file[f].mtime PROVE Shows(p, f)'
  BY <1>1, <1>2, <1>4 DEF Shows
<1>5. /\ file[f].mtime \in Nat /\ file[f].ctime \in Nat /\ file[f].ctime <= clock
      /\ file'[f].mtime \in Nat
  BY <1>1 DEF TypeOK, FileRecord, TimesTell
<1>6. \A g \in Files : file'[g].mtime <= clock /\ file'[g].ctime <= clock
  BY <1>1 DEF TimesTell
<1>7. ASSUME NEW g \in DOMAIN cache
      PROVE  Shows(cache[g].obj, g)' \/ Told(cache[g], g)'
  <2>1. /\ g \in Files /\ cache[g].mtime \in Nat /\ cache[g].ctime \in Nat
        /\ cache[g].ctime <= clock
    BY DEF TypeOK, IsCache, TimesTell, EntryRecord
  <2>2. Shows(cache[g].obj, g) \/ Told(cache[g], g)
    BY DEF TimesTell
  <2>3. CASE g # f \/ Shows(cache[g].obj, g)
    BY <1>1, <1>3, <2>1, <2>2, <2>3 DEF Told
  <2>4. CASE g = f /\ cache[f].ctime < clock
    BY <1>1, <2>4 DEF Told
  <2>5. CASE g = f /\ cache[f].ctime = clock /\ Told(cache[f], f)
    <3>1. cache[f].mtime < file[f].mtime
      BY <1>1, <1>5, <2>5 DEF Told
    <3>2. CASE file'[f].mtime < file[f].mtime
      <4>1. cache[f].obj \in Revived(f)
        BY <2>5 DEF Revived, Cache!Known
      <4> QED BY <1>1, <1>4, <2>5, <3>2, <4>1
    <3>3. CASE ~(file'[f].mtime < file[f].mtime)
      BY <1>1, <1>5, <2>1, <2>5, <3>1, <3>3 DEF Told
    <3> QED BY <3>2, <3>3
  <2> QED BY <1>1, <2>1, <2>2, <2>3, <2>4, <2>5
<1>8. ASSUME NEW g \in Files, thumb[g] # NoThumb
      PROVE  \/ Shows(thumb[g].pic, g)'
             \/ thumb[g].mtime < file'[g].mtime /\ thumb[g].mtime + TooOld < clock
  <2>1. thumb[g].mtime \in Nat
    BY DEF TypeOK, ThumbRecord
  <2>2. \/ Shows(thumb[g].pic, g)
        \/ thumb[g].mtime < file[g].mtime /\ thumb[g].mtime + TooOld < clock
    BY <1>8 DEF TimesTell
  <2>3. CASE g # f \/ Shows(thumb[g].pic, g)
    BY <1>1, <1>3, <2>2, <2>3
  <2>4. CASE g = f /\ file'[f].mtime < file[f].mtime
    <3>1. thumb[f].pic \in Revived(f)
      BY DEF Revived
    <3> QED BY <1>1, <1>4, <2>4, <3>1
  <2>5. CASE g = f /\ ~(file'[f].mtime < file[f].mtime) /\ ~Shows(thumb[g].pic, g)
    BY <1>5, <2>1, <2>2, <2>5
  <2> QED BY <2>3, <2>4, <2>5
<1>9. ASSUME NEW c \in Children, child[c].pc = "made"
      PROVE  Shows(child[c].pic, child[c].file)'
  <2>1. child[c] \in ChildRecord /\ Shows(child[c].pic, child[c].file)
    BY <1>9, ChildAtWork DEF TimesTell
  <2>2. child[c].file \in Files
    BY <2>1 DEF ChildRecord
  <2>3. \A p, g : g \in Files /\ Shows(p, g) => Shows(p, g)'
    BY <1>3
  <2> QED BY <1>1, <2>1, <2>2, <2>3 DEF Shows
<1>10. ASSUME busy # NotBusy PROVE Shows(busy.pic, busy.file)'
  <2>1. busy \in BusyRecord /\ Shows(busy.pic, busy.file)
    BY <1>10 DEF TypeOK, TimesTell
  <2>2. busy.file \in Files
    BY <2>1 DEF BusyRecord
  <2>3. \A p, g : g \in Files /\ Shows(p, g) => Shows(p, g)'
    BY <1>3
  <2> QED BY <1>1, <2>1, <2>2, <2>3 DEF Shows
<1>11. \A g \in DOMAIN cache : cache[g].mtime <= clock /\ cache[g].ctime <= clock
  BY DEF TimesTell
<1> QED BY <1>1, <1>6, <1>7, <1>8, <1>9, <1>10, <1>11 DEF TimesTell, Shows, Told

(* Every step leaves the times telling. *)
LEMMA TellsNext ==
  ASSUME TypeOK, TimesTell, Next
  PROVE  TimesTell'
<1>1. CASE Tick
  <2>1. /\ clock' = clock + 1 /\ clock \in Nat
        /\ UNCHANGED <<file, hasty, thumb, cache, child, busy>>
    BY <1>1 DEF Tick, TypeOK
  <2>2. ASSUME NEW f \in Files PROVE file[f].mtime <= clock' /\ file[f].ctime <= clock'
    <3>1. /\ file[f].mtime \in Nat /\ file[f].mtime <= clock
          /\ file[f].ctime \in Nat /\ file[f].ctime <= clock
      BY DEF TimesTell, TypeOK, FileRecord
    <3> QED BY <2>1, <3>1
  <2>3. ASSUME NEW f \in DOMAIN cache PROVE cache[f].mtime <= clock' /\ cache[f].ctime <= clock'
    <3>1. /\ cache[f].mtime \in Nat /\ cache[f].mtime <= clock
          /\ cache[f].ctime \in Nat /\ cache[f].ctime <= clock
      BY DEF TimesTell, TypeOK, IsCache, EntryRecord
    <3> QED BY <2>1, <3>1
  <2>4. ASSUME NEW f \in Files, thumb[f] # NoThumb
        PROVE  \/ Shows(thumb[f].pic, f)
               \/ thumb[f].mtime < file[f].mtime /\ thumb[f].mtime + TooOld < clock'
    <3>1. thumb[f].mtime + TooOld \in Nat
      BY ThumbAssumption DEF TypeOK, ThumbRecord
    <3> QED BY <2>1, <2>4, <3>1 DEF TimesTell
  <2> QED BY <2>1, <2>2, <2>3, <2>4 DEF TimesTell, Shows, Told
<1>2. ASSUME NEW f \in Changing, Write(f) PROVE TimesTell'
  BY <1>2, ThumbAssumption, WriteTells
<1>4. ASSUME NEW f \in Changing, ChangeAttributes(f) PROVE TimesTell'
  BY <1>4, ThumbAssumption, AttributesTell
<1>3. ASSUME NEW f \in Changing, Delete(f) PROVE TimesTell'
  <2>1. /\ \A g \in Files : /\ file'[g].mtime = file[g].mtime
                            /\ file'[g].ctime = file[g].ctime
                            /\ file'[g].contents = file[g].contents
        /\ UNCHANGED <<clock, hasty, thumb, cache, child, busy>>
    BY <1>3, ThumbAssumption, DeleteIs DEF Delete, TypeOK
  <2>3. /\ DOMAIN cache \subseteq Files
        /\ \A c \in Children : child[c].pc = "made" => child[c].file \in Files
    BY ChildAtWork DEF TypeOK, IsCache, ChildRecord
  <2>4. busy # NotBusy => busy.file \in Files
    BY DEF TypeOK, BusyRecord
  <2> QED BY <2>1, <2>3, <2>4 DEF TimesTell, Shows, Told
<1>5. ASSUME (UNCHANGED fileVars), cache' = cache \/ CacheStep(cache, cache'),
             \A f \in Files : thumb'[f] = NoThumb \/ thumb'[f] = thumb[f]
                              \/ Shows(thumb'[f].pic, f),
             \A c \in Children : child'[c].pc = "made" => Shows(child'[c].pic, child'[c].file),
             busy' # NotBusy => Shows(busy'.pic, busy'.file)
      PROVE  TimesTell'
  <2>1. \A f \in DOMAIN cache' :
          /\ cache'[f].mtime <= clock /\ cache'[f].ctime <= clock
          /\ Shows(cache'[f].obj, f) \/ Told(cache'[f], f)
    <3>1. CASE cache' = cache
      BY <3>1 DEF TimesTell
    <3>2. CASE CacheStep(cache, cache')
      BY <3>2, StepTells
    <3> QED BY <1>5, <3>1, <3>2
  <2>2. \A f \in Files :
          thumb'[f] # NoThumb =>
            \/ Shows(thumb'[f].pic, f)
            \/ thumb'[f].mtime < file[f].mtime /\ thumb'[f].mtime + TooOld < clock
    BY <1>5 DEF TimesTell
  <2> QED BY <1>5, <2>1, <2>2 DEF TimesTell, Shows, Told, fileVars
<1>6. ASSUME NEW age, Purged(age), UNCHANGED <<fileVars, busy>>,
             \A f \in Files : thumb'[f] = NoThumb \/ thumb'[f] = thumb[f]
      PROVE  TimesTell'
  <2>1. CacheStep(cache, cache')
    BY <1>6, PurgeStep DEF Purged
  <2>2. \A c \in Children : child'[c].pc = "made" => Shows(child'[c].pic, child'[c].file)
    <3> SUFFICES ASSUME NEW c \in Children, child'[c].pc = "made"
                 PROVE  Shows(child'[c].pic, child'[c].file)
      OBVIOUS
    <3>1. CASE child'[c] = child[c]
      BY <3>1 DEF TimesTell
    <3>2. CASE child[c] # NoChild /\ child'[c] = [child[c] EXCEPT !.alone = FALSE]
      <4>1. child[c] \in ChildRecord
        BY <3>2, ChildAtWork
      <4>2. /\ child'[c].pc = child[c].pc /\ child'[c].pic = child[c].pic
            /\ child'[c].file = child[c].file
        BY <3>2, <4>1 DEF ChildRecord
      <4> QED BY <4>2 DEF TimesTell
    <3> QED BY <1>6, <3>1, <3>2 DEF Purged
  <2>3. busy' # NotBusy => Shows(busy'.pic, busy'.file)
    BY <1>6 DEF TimesTell
  <2> QED BY <1>5, <1>6, <2>1, <2>2, <2>3
<1>7. CASE PurgeMemory
  BY <1>6, <1>7 DEF PurgeMemory
<1>8. CASE PurgeDisk
  BY <1>6, <1>8 DEF PurgeDisk
<1>9. CASE FinishLoad
  <2>1. busy' = NotBusy /\ UNCHANGED <<fileVars, thumb, child>>
    BY <1>9 DEF FinishLoad
  <2>2. cache' = cache \/ CacheStep(cache, cache')
    BY <1>9, CacheNext, PurgeStep DEF CacheKeeps, Purged
  <2>3. \A c \in Children : child'[c].pc = "made" => Shows(child'[c].pic, child'[c].file)
    BY <2>1 DEF TimesTell
  <2> QED BY <1>5, <2>1, <2>2, <2>3
<1>10. ASSUME UNCHANGED <<fileVars, thumb, child, busy>> PROVE TimesTell'
  <2>1. cache' = cache \/ CacheStep(cache, cache')
    BY <1>10, CacheNext, PurgeStep DEF CacheKeeps, Purged
  <2>2. /\ \A c \in Children : child'[c].pc = "made" => Shows(child'[c].pic, child'[c].file)
        /\ busy' # NotBusy => Shows(busy'.pic, busy'.file)
    BY <1>10 DEF TimesTell
  <2> QED BY <1>5, <1>10, <2>1, <2>2
<1>11. ASSUME NEW f, LoadIcon(f) \/ DropIcon(f) \/ Update(f) PROVE TimesTell'
  BY <1>10, <1>11 DEF LoadIcon, DropIcon, Update
<1>12. ASSUME NEW w, \/ StartScan(w) \/ EndScan(w) \/ Cancel(w) \/ HideThumbs(w)
                     \/ ShowThumbs(w) \/ Close(w) \/ EndChain(w)
       PROVE  TimesTell'
  BY <1>10, <1>12 DEF StartScan, EndScan, Cancel, HideThumbs, ShowThumbs, Close, EndChain
<1>13. ASSUME NEW w, TakeCached(w) \/ TakeMade(w) \/ GiveUp(w) PROVE TimesTell'
  BY <1>10, <1>13 DEF TakeCached, TakeMade, GiveUp, Take
<1>14. ASSUME NEW w \in Windows, TakeKept(w) PROVE TimesTell'
  <2>1. /\ Take(w) /\ UNCHANGED <<cache, child>> /\ ThumbnailFor(Head(queue[w])) # None
        /\ busy'.pic = ThumbnailFor(Head(queue[w])) /\ busy'.file = Head(queue[w])
    BY <1>14 DEF TakeKept
  <2>2. Shows(busy'.pic, busy'.file)
    BY <2>1, HeadIsFile, FoundShows
  <2>3. \A c \in Children : child'[c].pc = "made" => Shows(child'[c].pic, child'[c].file)
    BY <2>1 DEF TimesTell
  <2> QED BY <1>5, <2>1, <2>2, <2>3 DEF Take
<1>15. ASSUME NEW w \in Windows, Fork(w) PROVE TimesTell'
  <2>1. PICK c \in Free :
          child' = [child EXCEPT ![c] = Child("started", w, Head(queue[w]), None,
                                              file[Head(queue[w])])]
    BY <1>15 DEF Fork
  <2>2. /\ c \in Children /\ child'[c].pc = "started"
        /\ \A d \in Children : d # c => child'[d] = child[d]
    BY <2>1 DEF Child, Free, TypeOK
  <2>3. \A d \in Children : child'[d].pc = "made" => Shows(child'[d].pic, child'[d].file)
    BY <2>2 DEF TimesTell
  <2>4. Take(w) /\ UNCHANGED busy
    BY <1>15 DEF Fork
  <2>5. cache' = cache \/ CacheStep(cache, cache')
    BY <1>15, CacheNext, PurgeStep DEF CacheKeeps, Purged
  <2>6. busy' # NotBusy => Shows(busy'.pic, busy'.file)
    BY <2>4 DEF TimesTell
  <2> QED BY <1>5, <2>3, <2>4, <2>5, <2>6 DEF Take
<1>16. ASSUME NEW c \in Children, ChildLoads(c) PROVE TimesTell'
  <2>1. child[c] \in ChildRecord
    BY <1>16, ChildAtWork DEF ChildLoads
  <2>2. /\ child'[c].pc = "made" => /\ child'[c].file = child[c].file
                                    /\ child'[c].pic = file[child[c].file].contents
        /\ \A d \in Children : d # c => child'[d] = child[d]
    <3>1. CASE child' = [child EXCEPT ![c].pc = "dead"]
      BY <2>1, <3>1 DEF TypeOK, ChildRecord
    <3>2. CASE child' = [child EXCEPT ![c].pc = "made", ![c].pic = file[child[c].file].contents]
      BY <2>1, <3>2 DEF TypeOK, ChildRecord
    <3> QED BY <1>16, <3>1, <3>2 DEF ChildLoads
  <2>3. \A d \in Children : child'[d].pc = "made" => Shows(child'[d].pic, child'[d].file)
    BY <2>2 DEF TimesTell, Shows
  <2>4. UNCHANGED <<fileVars, thumb, cache, busy>>
    BY <1>16 DEF ChildLoads
  <2>5. busy' # NotBusy => Shows(busy'.pic, busy'.file)
    BY <2>4 DEF TimesTell
  <2> QED BY <1>5, <2>3, <2>4, <2>5
<1>17. ASSUME NEW c \in Children, ChildSaves(c) PROVE TimesTell'
  <2>1. child[c] \in ChildRecord /\ child[c].pc = "made"
    BY <1>17, ChildAtWork DEF ChildSaves
  <2>2. child'[c].pc = "dead" /\ \A d \in Children : d # c => child'[d] = child[d]
    BY <1>17, <2>1 DEF ChildSaves, TypeOK, ChildRecord
  <2>3. \A d \in Children : child'[d].pc = "made" => Shows(child'[d].pic, child'[d].file)
    BY <2>2 DEF TimesTell
  <2>4. Shows(child[c].pic, child[c].file) /\ child[c].file \in Files
    BY <2>1 DEF TimesTell, ChildRecord
  <2>5. \A f \in Files : thumb'[f] = thumb[f] \/ Shows(thumb'[f].pic, f)
    BY <1>17, <2>4 DEF ChildSaves, TypeOK
  <2>6. UNCHANGED <<fileVars, cache, busy>>
    BY <1>17 DEF ChildSaves
  <2>7. busy' # NotBusy => Shows(busy'.pic, busy'.file)
    BY <2>6 DEF TimesTell
  <2> QED BY <1>5, <2>3, <2>5, <2>6, <2>7
<1>18. ASSUME NEW c \in Children, ChildDone(c) PROVE TimesTell'
  <2> DEFINE f == child[c].file
  <2>1. child[c] \in ChildRecord
    BY <1>18, ChildAtWork DEF ChildDone
  <2>2. f \in Files
    BY <2>1 DEF ChildRecord
  <2>3. child'[c].pc = "none" /\ \A d \in Children : d # c => child'[d] = child[d]
    BY <1>18 DEF ChildDone, TypeOK, NoChild
  <2>4. \A d \in Children : child'[d].pc = "made" => Shows(child'[d].pic, child'[d].file)
    BY <2>3 DEF TimesTell
  <2>5. UNCHANGED <<fileVars, thumb, cache>>
    BY <1>18 DEF ChildDone, GoOnWithout
  <2>6. busy' # NotBusy => Shows(busy'.pic, busy'.file)
    <3>1. CASE ThumbnailFor(f) # None
      <4>1. busy'.pic = ThumbnailFor(f) /\ busy'.file = f
        BY <1>18, <3>1 DEF ChildDone
      <4> QED BY <2>2, <3>1, <4>1, FoundShows
    <3>2. CASE ThumbnailFor(f) = None
      BY <1>18, <3>2 DEF ChildDone
    <3> QED BY <3>1, <3>2
  <2> QED BY <1>5, <2>4, <2>5, <2>6
<1> QED BY <1>1, <1>2, <1>3, <1>4, <1>7, <1>8, <1>9, <1>11, <1>12, <1>13, <1>14, <1>15, <1>16,
           <1>17, <1>18 DEF Next, ChainStep, ChildStep

-----------------------------------------------------------------------------
(* Children, and the NULLs that stand for them. *)

(* A process at work goes on with its file, or comes to its end. *)
Continues(c) ==
  child'[c] # NoChild =>
    /\ child[c] # NoChild
    /\ child'[c].file = child[c].file /\ child'[c].of = child[c].of
    /\ child'[c].alone => child[c].alone

(* Only a fork brings a new one. *)
LEMMA ContinueUnlessForked ==
  ASSUME TypeOK, Next, ~ \E w \in Windows : Fork(w)
  PROVE  \A c \in Children : Continues(c)
<1>1. ASSUME UNCHANGED child PROVE \A c \in Children : Continues(c)
  BY <1>1 DEF Continues
<1>2. ASSUME NEW age, Purged(age) PROVE \A c \in Children : Continues(c)
  <2> SUFFICES ASSUME NEW c \in Children PROVE Continues(c)
    OBVIOUS
  <2>1. CASE child'[c] = child[c]
    BY <2>1 DEF Continues
  <2>2. CASE child[c] # NoChild /\ child'[c] = [child[c] EXCEPT !.alone = FALSE]
    <3>1. child[c] \in ChildRecord
      BY <2>2, ChildAtWork
    <3> QED BY <2>2, <3>1 DEF Continues, ChildRecord
  <2> QED BY <1>2, <2>1, <2>2 DEF Purged
<1>3. ASSUME NEW c \in Children, ChildLoads(c) \/ ChildSaves(c)
      PROVE  \A d \in Children : Continues(d)
  <2>1. child[c] \in ChildRecord
    BY <1>3, ChildAtWork DEF ChildLoads, ChildSaves
  <2>2. /\ child'[c].file = child[c].file /\ child'[c].of = child[c].of
        /\ child'[c].alone = child[c].alone
        /\ \A d \in Children : d # c => child'[d] = child[d]
    <3>1. CASE child' = [child EXCEPT ![c].pc = "dead"]
      BY <2>1, <3>1 DEF TypeOK, ChildRecord
    <3>2. CASE child' = [child EXCEPT ![c].pc = "made", ![c].pic = file[child[c].file].contents]
      BY <2>1, <3>2 DEF TypeOK, ChildRecord
    <3> QED BY <1>3, <3>1, <3>2 DEF ChildLoads, ChildSaves
  <2>3. child[c] # NoChild
    BY <2>1, ChildAtWork
  <2> QED BY <2>2, <2>3 DEF Continues
<1>4. ASSUME NEW c \in Children, ChildDone(c) PROVE \A d \in Children : Continues(d)
  BY <1>4 DEF ChildDone, Continues, TypeOK
<1>5. CASE Tick \/ FinishLoad
  BY <1>1, <1>5 DEF Tick, FinishLoad
<1>6. CASE PurgeMemory \/ PurgeDisk
  BY <1>2, <1>6 DEF PurgeMemory, PurgeDisk
<1>7. ASSUME NEW f, \/ Write(f) \/ ChangeAttributes(f) \/ Delete(f)
                    \/ LoadIcon(f) \/ DropIcon(f) \/ Update(f)
      PROVE  UNCHANGED child
  BY <1>7 DEF Write, ChangeAttributes, Delete, LoadIcon, DropIcon, Update
<1>8. ASSUME NEW w, \/ StartScan(w) \/ EndScan(w) \/ Cancel(w) \/ HideThumbs(w)
                    \/ ShowThumbs(w) \/ Close(w) \/ EndChain(w)
      PROVE  UNCHANGED child
  BY <1>8 DEF StartScan, EndScan, Cancel, HideThumbs, ShowThumbs, Close, EndChain
<1>9. ASSUME NEW w, TakeCached(w) \/ TakeMade(w) \/ GiveUp(w) \/ TakeKept(w)
      PROVE  UNCHANGED child
  BY <1>9, SMTT(40) DEF TakeCached, TakeMade, GiveUp, TakeKept
<1> QED BY <1>1, <1>3, <1>4, <1>5, <1>6, <1>7, <1>8, <1>9 DEF Next, ChainStep, ChildStep

(* What becomes of a file: changes are counted, and a file that has gone    *)
(* stays away.                                                              *)
LEMMA FileNext ==
  ASSUME TypeOK, Next, NEW f \in Files
  PROVE  /\ file[f].changes \in Nat /\ file'[f].changes \in Nat
         /\ file[f].changes <= file'[f].changes
         /\ file'[f].there => file[f].there
         /\ file'[f].changes = file[f].changes => file'[f] = file[f]
         /\ file'[f] # file[f] => UNCHANGED <<cache, child>>
<1>0. file[f].changes \in Nat
  BY DEF TypeOK, FileRecord
<1>1. ASSUME NEW g \in Changing, Write(g) \/ ChangeAttributes(g) \/ Delete(g)
      PROVE  /\ file'[f] = file[f] \/ /\ file'[f].changes = file[f].changes + 1
                                      /\ file'[f].there => file[f].there
             /\ UNCHANGED <<cache, child>>
  <2>1. /\ g \in Files /\ file' = [file EXCEPT ![g] = file'[g]]
        /\ file'[g].changes = file[g].changes + 1
        /\ file'[g].there => file[g].there
    BY <1>1, ThumbAssumption, WriteIs, AttributesAre, DeleteIs
  <2>2. file'[f] = file[f] \/ f = g
    BY <2>1 DEF TypeOK
  <2>3. UNCHANGED <<cache, child>>
    BY <1>1 DEF Write, ChangeAttributes, Delete
  <2> QED BY <2>1, <2>2, <2>3
<1>3. CASE file' = file
  BY <1>0, <1>3
<1>4. CASE \E g \in Changing : Write(g) \/ ChangeAttributes(g) \/ Delete(g)
  BY <1>0, <1>1, <1>4
<1>5. CASE Tick
  BY <1>3, <1>5 DEF Tick
<1> QED BY <1>3, <1>4, <1>5
              DEF Next, PurgeMemory, PurgeDisk, FinishLoad, LoadIcon, DropIcon, Update,
                 StartScan, EndScan, Cancel, HideThumbs, ShowThumbs, Close, ChainStep, EndChain,
                 Take, TakeCached, TakeKept, TakeMade, Fork, GiveUp, ChildStep, ChildLoads,
                 ChildSaves, ChildDone, fileVars

(* A purge leaves the entry or tells the child. *)
LEMMA PurgedAnnounces ==
  ASSUME TypeOK, NEW age, Purged(age), NEW c \in Children, child'[c] # NoChild,
         child'[c].alone, Cache!Known(cache, child[c].file)
  PROVE  /\ Cache!Known(cache', child[c].file)
         /\ cache'[child[c].file] = cache[child[c].file]
<1>1. child[c] # NoChild
  BY DEF Purged
<1>2. child[c] \in ChildRecord
  BY <1>1, ChildAtWork
<1>3. ~(child[c].file \in DOMAIN cache \ DOMAIN cache')
  <2> SUFFICES ASSUME child[c].file \in DOMAIN cache \ DOMAIN cache' PROVE FALSE
    OBVIOUS
  <2>1. child'[c] = [child[c] EXCEPT !.alone = FALSE]
    BY <1>1 DEF Purged
  <2> QED BY <1>2, <2>1 DEF ChildRecord
<1> QED BY <1>3, PurgeStep DEF Purged, Cache!Known

(* An entry that stands for a file as it is stays while the file does, *)
(* unless it is purged.                                                *)
LEMMA FoundNext ==
  ASSUME TypeOK, TimesTell, Next, NEW f \in Files, Cache!Found(cache, f, file[f]),
         file'[f].there, file'[f].changes = file[f].changes,
         ~ \E age : Purged(age)
  PROVE  Cache!Found(cache', f, file'[f])
<1>1. CASE file' = file
  <2>1. cache' = cache \/ CacheKeeps(cache, cache')
    BY CacheNext
  <2> QED BY <1>1, <2>1, KeepsFound
<1>2. CASE file' # file
  <2>1. cache' = cache
    BY <1>2, CacheNext DEF fileVars
  <2> QED BY <2>1, FileNext DEF Cache!Found, Cache!UpToDate, Cache!Known
<1> QED BY <1>1, <1>2

(* What is forked, and the entry made for it. *)
LEMMA Forked ==
  ASSUME TypeOK, TimesTell, NEW w \in Windows, Fork(w)
  PROVE  \E c \in Children :
           /\ child'[c].file = Head(queue[w]) /\ child'[c].of = file[Head(queue[w])].changes
           /\ \A d \in Children : d # c => child'[d] = child[d]
           /\ Head(queue[w]) \in Files
           /\ ~Cache!Found(cache, Head(queue[w]), file[Head(queue[w])])
           /\ file[Head(queue[w])].there =>
                Cache!Found(cache', Head(queue[w]), file[Head(queue[w])])
           /\ UNCHANGED fileVars
           /\ CacheKeeps(cache, cache')
<1> DEFINE f == Head(queue[w])
<1>1. PICK c \in Free : child' = [child EXCEPT ![c] = Child("started", w, f, None, file[f])]
  BY DEF Fork
<1>2. /\ c \in Children /\ child'[c] = Child("started", w, f, None, file[f])
      /\ \A d \in Children : d # c => child'[d] = child[d]
  BY <1>1 DEF Free, TypeOK
<1>3. Take(w) /\ ~Cache!Found(cache, f, file[f]) /\ cache' = Placed(f)
  BY DEF Fork
<1>4. f \in Files
  BY <1>3, HeadIsFile
<1>5. IsCache(cache) /\ None \in Nat /\ Shows(None, f)
  BY DEF TypeOK, None, Shows
<1> HIDE DEF f
<1>6. CacheKeeps(cache, cache')
  BY <1>3, <1>4, <1>5, InsertNewKeeps DEF Placed
<1>7. file[f].there => Cache!Found(cache', f, file[f])
  BY <1>3, <1>4, <1>5, InsertNewKeeps DEF Placed, Cache!Found, Cache!Known
<1>8. child'[c].file = f /\ child'[c].of = file[f].changes
  BY <1>2 DEF Child
<1> QED BY <1>2, <1>3, <1>4, <1>6, <1>7, <1>8 DEF Take, f

(* Announced, of one child. *)
IsAnnounced(c) ==
  child[c] # NoChild =>
    LET f == child[c].file
    IN  /\ child[c].of <= file[f].changes
        /\ child[c].alone /\ file[f].there /\ child[c].of = file[f].changes
             => Cache!Found(cache, f, file[f])

(* A child that goes on stays announced. *)
LEMMA ContinuesAnnounced ==
  ASSUME TypeOK, TimesTell, Announced, Next, NEW c \in Children, Continues(c)
  PROVE  IsAnnounced(c)'
<1> SUFFICES ASSUME child'[c] # NoChild PROVE IsAnnounced(c)'
  BY DEF IsAnnounced
<1> DEFINE f == child[c].file
<1>1. /\ child[c] # NoChild /\ child'[c].file = f /\ child'[c].of = child[c].of
      /\ child'[c].alone => child[c].alone
  BY DEF Continues
<1>2. child[c] \in ChildRecord
  BY <1>1, ChildAtWork
<1>3. f \in Files /\ child[c].of \in Nat
  BY <1>2 DEF ChildRecord
<1>4. /\ child[c].of <= file[f].changes
      /\ child[c].alone /\ file[f].there /\ child[c].of = file[f].changes
           => Cache!Found(cache, f, file[f])
  BY <1>1 DEF Announced
<1> HIDE DEF f
<1>5. child[c].of <= file'[f].changes
  BY <1>3, <1>4, FileNext
<1>6. ASSUME child'[c].alone, file'[f].there, child[c].of = file'[f].changes
      PROVE  Cache!Found(cache', f, file'[f])
  <2>1. child[c].alone /\ file[f].there /\ child[c].of = file[f].changes
    BY <1>1, <1>3, <1>4, <1>6, FileNext
  <2>2. Cache!Found(cache, f, file[f])
    BY <1>4, <2>1
  <2>3. CASE ~ \E age : Purged(age)
    BY <1>3, <1>6, <2>1, <2>2, <2>3, FoundNext
  <2>4. ASSUME NEW age, Purged(age) PROVE Cache!Found(cache', f, file'[f])
    <3>1. Cache!Known(cache', f) /\ cache'[f] = cache[f]
      BY <1>6, <2>2, <2>4, PurgedAnnounces DEF f, Cache!Found
    <3>2. file'[f] = file[f]
      BY <1>3, <1>6, <2>1, FileNext
    <3> QED BY <1>6, <2>2, <3>1, <3>2 DEF Cache!Found, Cache!UpToDate
  <2> QED BY <2>3, <2>4
<1> QED BY <1>1, <1>5, <1>6 DEF IsAnnounced

(* Every child stays announced. *)
LEMMA AnnouncedNext ==
  ASSUME TypeOK, TimesTell, Announced, Next
  PROVE  Announced'
<1>1. ASSUME NEW w \in Windows, Fork(w), NEW d \in Children PROVE IsAnnounced(d)'
  <2>1. PICK c \in Children :
           /\ child'[c].file = Head(queue[w]) /\ child'[c].of = file[Head(queue[w])].changes
           /\ \A e \in Children : e # c => child'[e] = child[e]
           /\ Head(queue[w]) \in Files
           /\ ~Cache!Found(cache, Head(queue[w]), file[Head(queue[w])])
           /\ file[Head(queue[w])].there =>
                Cache!Found(cache', Head(queue[w]), file[Head(queue[w])])
           /\ UNCHANGED fileVars
           /\ CacheKeeps(cache, cache')
    BY <1>1, Forked
  <2>2. CASE d # c
    BY <2>1, <2>2, ContinuesAnnounced DEF Continues
  <2>3. CASE d = c
    <3>1. file'[Head(queue[w])].changes = file[Head(queue[w])].changes /\ file' = file
          /\ file[Head(queue[w])].changes \in Nat
      BY <2>1 DEF fileVars, TypeOK, FileRecord
    <3> QED BY <2>1, <2>3, <3>1 DEF IsAnnounced
  <2> QED BY <2>2, <2>3
<1>2. CASE ~ \E w \in Windows : Fork(w)
  BY <1>2, ContinueUnlessForked, ContinuesAnnounced DEF Announced, IsAnnounced
<1> QED BY <1>1, <1>2 DEF Announced, IsAnnounced

(* No second child is forked for the state of a file a first one works on. *)
LEMMA OneMakerNext ==
  ASSUME TypeOK, TimesTell, Announced, OneMaker, Next
  PROVE  OneMaker'
<1> DEFINE Both(c, d) == /\ c # d /\ child'[c] # NoChild /\ child'[d] # NoChild
                         /\ child'[c].file = child'[d].file
                         /\ child'[c].alone /\ child'[d].alone /\ file'[child'[c].file].there
<1>1. ASSUME NEW c \in Children, NEW d \in Children, Both(c, d), Continues(c), Continues(d)
      PROVE  child'[c].of # child'[d].of
  <2>1. /\ child[c] # NoChild /\ child[d] # NoChild /\ child[c].file = child[d].file
        /\ child[c].alone /\ child[d].alone
        /\ child'[c].of = child[c].of /\ child'[d].of = child[d].of
        /\ child'[c].file = child[c].file
    BY <1>1 DEF Continues
  <2>2. child[c].file \in Files
    BY <2>1, ChildAtWork DEF ChildRecord
  <2>3. file[child[c].file].there
    BY <1>1, <2>1, <2>2, FileNext
  <2> QED BY <1>1, <2>1, <2>3 DEF OneMaker
<1>2. ASSUME NEW w \in Windows, Fork(w), NEW d \in Children, NEW e \in Children, Both(d, e)
      PROVE  child'[d].of # child'[e].of
  <2> DEFINE f == Head(queue[w])
  <2>1. PICK c \in Children :
           /\ child'[c].file = f /\ child'[c].of = file[f].changes
           /\ \A x \in Children : x # c => child'[x] = child[x]
           /\ f \in Files /\ ~Cache!Found(cache, f, file[f])
           /\ UNCHANGED fileVars
    BY <1>2, Forked
  <2> HIDE DEF f
  <2>2. \A x \in Children : x # c => Continues(x)
    BY <2>1 DEF Continues
  <2>3. ASSUME NEW x \in Children, x # c, child'[x] # NoChild, child'[x].alone,
               child'[x].file = f, file'[f].there
        PROVE  child'[x].of # file[f].changes
    BY <2>1, <2>3 DEF Announced, fileVars
  <2>4. CASE d = c
    BY <1>2, <2>1, <2>3, <2>4
  <2>5. CASE e = c
    BY <1>2, <2>1, <2>3, <2>5
  <2>6. CASE d # c /\ e # c
    BY <1>1, <1>2, <2>2, <2>6
  <2> QED BY <2>4, <2>5, <2>6
<1>3. CASE ~ \E w \in Windows : Fork(w)
  BY <1>1, <1>3, ContinueUnlessForked DEF OneMaker
<1> QED BY <1>2, <1>3 DEF OneMaker

-----------------------------------------------------------------------------
(* The invariant. *)

(* It holds at first, ... *)
LEMMA InitInv == Init => IInv
<1> SUFFICES ASSUME Init PROVE IInv
  OBVIOUS
<1>0. TooOld \in Nat /\ clock = TooOld + 1 /\ clock \in Nat
  BY ThumbAssumption DEF Init
<1>1. \A f \in Files : file[f] \in FileRecord /\ file[f].mtime = 1 /\ file[f].ctime = 1
  <2>1. \A f \in Files :
          file[f] \in [there : {TRUE}, contents : {2}, changes : {0}, mtime : {1},
                       ctime : {1}, size : {1}, mode : Modes]
    BY DEF Init
  <2>2. 0 \in Nat /\ 1 \in Nat /\ 2 \in Nat
    OBVIOUS
  <2> QED BY <2>1, <2>2 DEF FileRecord
<1>2. cache = << >> /\ DOMAIN cache = {} /\ IsCache(cache)
  BY DEF Init, IsCache
<1>3. /\ thumb \in [Files -> ThumbRecord]
      /\ \A f \in Files : thumb[f] # NoThumb => thumb[f].mtime = 0
  <2>1. NoThumb \in ThumbRecord /\ OldThumb \in ThumbRecord /\ OldThumb.mtime = 0
    BY DEF NoThumb, OldThumb, ThumbRecord, None
  <2>2. PICK old \in SUBSET Makable :
          thumb = [f \in Files |-> IF f \in old THEN OldThumb ELSE NoThumb]
    BY DEF Init
  <2> QED BY <2>1, <2>2
<1>4. TypeOK
  <2>1. file \in [Files -> FileRecord]
    BY <1>1 DEF Init
  <2>2. \A w \in Windows : << >> \in Seq(Files)
    OBVIOUS
  <2> QED BY <1>0, <1>2, <1>3, <2>1, <2>2 DEF Init, TypeOK
<1>5. \A c \in Children : child[c] = NoChild /\ child[c].pc = "none"
  BY DEF Init, NoChild
<1>6. ASSUME NEW w \in Windows PROVE Chains(w) = 0
  <2>1. ChildrenOf(w) = {}
    BY <1>5 DEF ChildrenOf
  <2>2. Cardinality(ChildrenOf(w)) = 0
    BY <2>1, FS_EmptySet
  <2>3. Loads(w) = 0
    BY DEF Loads, Init, NotBusy, None
  <2> QED BY <1>4, <2>2, <2>3, ChainsNat DEF Init
<1>7. RefsAreChains /\ QueueIsServed
  BY <1>6 DEF RefsAreChains, QueueIsServed, Init
<1>8. TimesTell
  <2>1. \A f \in Files : /\ file[f].mtime <= clock /\ file[f].ctime <= clock
                         /\ thumb[f] # NoThumb => /\ thumb[f].mtime < file[f].mtime
                                                  /\ thumb[f].mtime + TooOld < clock
    BY <1>0, <1>1, <1>3
  <2> QED BY <1>2, <1>5, <2>1 DEF TimesTell, Init
<1>9. Announced /\ OneMaker
  BY <1>5 DEF Announced, OneMaker
<1> QED BY <1>4, <1>7, <1>8, <1>9 DEF IInv

(* ... and stays. *)
LEMMA NextInv == IInv /\ [Next]_vars => IInv'
<1> SUFFICES ASSUME IInv, [Next]_vars PROVE IInv'
  OBVIOUS
<1>1. CASE Next
  BY <1>1, TypeNext, ChainsNext, TellsNext, AnnouncedNext, OneMakerNext DEF IInv
<1>2. CASE UNCHANGED vars
  <2>1. UNCHANGED <<fileVars, thumb, cache, queueVars, child, busy>>
    BY <1>2 DEF vars
  <2>2. TypeOK' /\ TimesTell' /\ Announced' /\ OneMaker'
    BY <2>1 DEF IInv, TypeOK, TimesTell, Announced, OneMaker, Shows, Told, fileVars, queueVars
  <2>3. RefsAreChains' /\ QueueIsServed'
    BY <2>1, SameChains, NoWindow DEF IInv, queueVars
  <2> QED BY <2>2, <2>3 DEF IInv
<1> QED BY <1>1, <1>2

(* The inductive invariant of thumbnails and the picture cache. *)
THEOREM ThumbnailsInv == Spec => []IInv
BY InitInv, NextInv, PTL DEF Spec

(* Every chain holds one reference to its window, for any number of         *)
(* windows and children and however chains are started, cancelled and       *)
(* overtaken: filer_next_thumb_real() unrefs what start_thumb_scanning()    *)
(* took, once.                                                              *)
THEOREM ChainsHoldRefs == Spec => []RefsAreChains
<1>1. IInv => RefsAreChains
  BY DEF IInv
<1> QED BY <1>1, ThumbnailsInv, PTL

(* A visible bar stands for a chain at work, and a waiting queue for a      *)
(* visible bar.                                                             *)
THEOREM QueuesAreServed == Spec => []QueueIsServed
<1>1. IInv => QueueIsServed
  BY DEF IInv
<1> QED BY <1>1, ThumbnailsInv, PTL

(* Whatever the cache takes for up to date shows the file as it is, or as   *)
(* it was when it was hastily overwritten or before its time was set back:  *)
(* TimesTell, read for an entry whose times are those of the file.          *)
THEOREM OnlyHasteIsStale == Spec => []StaleOnlyIfHasty
<1>1. IInv => StaleOnlyIfHasty
  <2> SUFFICES ASSUME IInv, NEW f \in Files, HasImage(f)
               PROVE  cache[f].obj = file[f].contents \/ cache[f].obj \in hasty[f]
    BY DEF StaleOnlyIfHasty
  <2>1. /\ f \in DOMAIN cache /\ cache[f].obj # None
        /\ cache[f].mtime = file[f].mtime /\ cache[f].ctime = file[f].ctime
    BY DEF HasImage, Cache!Found, Cache!Known, Cache!UpToDate
  <2>2. file[f].mtime \in Nat /\ file[f].ctime \in Nat
    BY DEF IInv, TypeOK, FileRecord
  <2>3. ~Told(cache[f], f)
    BY <2>1, <2>2 DEF Told
  <2>4. Shows(cache[f].obj, f)
    BY <2>1, <2>3 DEF IInv, TimesTell
  <2> QED BY <2>1, <2>4 DEF Shows
<1> QED BY <1>1, ThumbnailsInv, PTL

(* The NULL in the cache keeps a second child from beginning with what a    *)
(* first one makes, as long as it is not purged and nothing that stat()     *)
(* tells of the file changes.                                               *)
THEOREM OneChildMakes == Spec => []OneMaker
<1>1. IInv => OneMaker
  BY DEF IInv
<1> QED BY <1>1, ThumbnailsInv, PTL

=============================================================================

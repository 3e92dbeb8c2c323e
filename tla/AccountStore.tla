---------------------------- MODULE AccountStore ----------------------------
(***************************************************************************)
(* Accounts, characters and the character cache, as the reader threads of  *)
(* the DB server change them (QueryTask over AccountOp, CharacterOp and    *)
(* RCache).  MongoDB and Redis are external: a step is one call to them.   *)
(* A transaction with a session is one step; removeCharacter does not pass *)
(* its session on, so its two writes are two steps.                        *)
(*                                                                         *)
(* The characters array of an account is a bag of names: its order matters *)
(* only for the placeholder, which addNewAccount puts first and nobody     *)
(* moves.  A character's data is the number of the upload it came from,    *)
(* 0 for a new character; an array element's level is not kept apart.      *)
(***************************************************************************)
EXTENDS Naturals, Sequences, FiniteSets

CONSTANTS Accounts,      \* account names
          Names,         \* character names; account names are names too
          LoginWorkers,  \* reader threads of the login gateman
          GameWorkers,   \* reader threads of the game gateman
          Active,        \* accounts that log in and whose characters come and go;
                         \* the others are only registered
          Played,        \* <<account, character>> pairs that are uploaded and entered
          MaxBusy,       \* bound on the requests that are handled at the same time
          MaxUploads,    \* bound on the uploads of one character
          MaxDocs,       \* bound on the documents of one character
          MaxFaults      \* bound on crashes and MongoDB errors

ASSUME StoreAssumption ==
  /\ Accounts \subseteq Names
  /\ Active \subseteq Accounts
  /\ Played \subseteq Accounts \X Names
  /\ LoginWorkers \cap GameWorkers = {}
  /\ IsFiniteSet(LoginWorkers) /\ IsFiniteSet(GameWorkers)
  /\ MaxBusy \in Nat /\ MaxUploads \in Nat /\ MaxDocs \in Nat /\ MaxFaults \in Nat

VARIABLES registered, \* accounts with a document
          on,         \* accounts whose on_off is true
          listed,     \* listed[a][c]: elements of a's characters array named c
          docs,       \* docs[a][c]: data of the documents of character c, oldest first
          cache,      \* cache[a][c]: the Redis hash "a:c", [set, d, ttl]
          task,       \* what each worker is doing
          granted,    \* granted[a]: logins that succeeded since the last logout
          uploads,    \* uploads[a][c]: uploads the game workers have pulled
          written,    \* written[a][c]: the latest of them that reached the cache
          overlap,    \* characters whose entering and uploading overlapped
          spoilt,     \* characters an upload of which reached the cache after a later
                      \* one or not at all, or whose filled hash was given no TTL
          faults

vars == <<registered, on, listed, docs, cache, task, granted, uploads, written,
          overlap, spoilt, faults>>

\* What only the uploads and the entering of a character change.
noted == <<written, overlap, spoilt>>

Workers == LoginWorkers \cup GameWorkers
Idle == [pc |-> "idle"]
Task(pc, a, c, d) == [pc |-> pc, a |-> a, c |-> c, d |-> d]
NoHash == [set |-> FALSE, d |-> 0, ttl |-> FALSE]

Init ==
  /\ registered = {}
  /\ on = {}
  /\ listed = [a \in Accounts |-> [c \in Names |-> 0]]
  /\ docs = [a \in Accounts |-> [c \in Names |-> <<>>]]
  /\ cache = [a \in Accounts |-> [c \in Names |-> NoHash]]
  /\ task = [w \in Workers |-> Idle]
  /\ granted = [a \in Accounts |-> 0]
  /\ uploads = [a \in Accounts |-> [c \in Names |-> 0]]
  /\ written = [a \in Accounts |-> [c \in Names |-> 0]]
  /\ overlap = {}
  /\ spoilt = {}
  /\ faults = 0

\* Mutant of TakenElsewhere: createIndex failed and nobody noticed.
NotIndexed(a, c) == FALSE

\* A unique multikey index keeps two DOCUMENTS from sharing a key; it does not
\* look for duplicates inside one array.
TakenElsewhere(a, c) == \E b \in Accounts \ {a} : b \in registered /\ listed[b][c] > 0

\* find_one({account, characters.character_name})
HasCharacter(a, c) == a \in registered /\ listed[a][c] > 0

\* HSET keeps the TTL a key has; EXPIRE only touches a key that exists.
Hset(h, d) == [h EXCEPT !.set = TRUE, !.d = d]
Expire(h) == [h EXCEPT !.ttl = h.set]

\* A thread with nothing in hand, which may take a request of several steps.
Free(w) == task[w] = Idle /\ Cardinality({v \in Workers : task[v] # Idle}) < MaxBusy

Goto(w, t) == task' = [task EXCEPT ![w] = t]

Entering == {"enter", "fill"}
Pulled == {"pulled", "lastpulled"}
Uploading == {"upload", "lastttl", "last", "update", "lastupdate"}

\* Some worker is at one of these places with character c of a: note it.
Overlaps(pcs, a, c) ==
  overlap' = IF \E w \in Workers : task[w].pc \in pcs /\ task[w].a = a /\ task[w].c = c
             THEN overlap \cup {<<a, c>>} ELSE overlap

-----------------------------------------------------------------------------
(* Login gateman *)

\* LOGIN_REGISTER_REQUEST_CODE, addNewAccount: insert_one with the account's
\* own name as the first character.
Register(w, a) ==
  /\ task[w] = Idle
  /\ a \notin registered /\ ~TakenElsewhere(a, a)
  /\ registered' = registered \cup {a}
  /\ listed' = [listed EXCEPT ![a] = [c \in Names |-> IF c = a THEN 1 ELSE 0]]
  /\ UNCHANGED <<on, docs, cache, task, granted, uploads, noted, faults>>

\* Mutant of Login: the old state is not looked at.
LoginAlways(w, a) ==
  /\ task[w] = Idle
  /\ a \in registered
  /\ on' = on \cup {a}
  /\ granted' = [granted EXCEPT ![a] = @ + 1]
  /\ UNCHANGED <<registered, listed, docs, cache, task, uploads, noted, faults>>

\* LOGIN_LOGIN_REQUEST_CODE with the right password: find_one_and_update
\* returns the old on_off, and only "off" is a success.
Login(w, a) ==
  /\ task[w] = Idle
  /\ a \in registered
  /\ on' = on \cup {a}
  /\ granted' = [granted EXCEPT ![a] = IF a \in on THEN @ ELSE @ + 1]
  /\ UNCHANGED <<registered, listed, docs, cache, task, uploads, noted, faults>>

\* LOGIN_CREATE_CHARACTER_CODE, addNewCharacter: the find ...
CreateFind(w, a, c) ==
  /\ Free(w)
  /\ ~HasCharacter(a, c)
  /\ Len(docs[a][c]) < MaxDocs
  /\ Goto(w, Task("create", a, c, 0))
  /\ UNCHANGED <<registered, on, listed, docs, cache, granted, uploads, noted, faults>>

\* ... and the transaction: $push matches no document when the account does not
\* exist, and the insert still runs; a duplicate key aborts both.
CreateTxn(w) ==
  /\ task[w].pc = "create"
  /\ LET a == task[w].a
         c == task[w].c
     IN IF a \in registered /\ TakenElsewhere(a, c)
        THEN UNCHANGED <<listed, docs>>
        ELSE /\ listed' = IF a \in registered THEN [listed EXCEPT ![a][c] = @ + 1] ELSE listed
             /\ docs' = [docs EXCEPT ![a][c] = Append(@, 0)]
  /\ Goto(w, Idle)
  /\ UNCHANGED <<registered, on, cache, granted, uploads, noted, faults>>

\* Mutant of RemovePull: the placeholder is not protected.
RemovePullAny(w, a, c) ==
  /\ Free(w)
  /\ HasCharacter(a, c)
  /\ listed' = [listed EXCEPT ![a][c] = 0]
  /\ Goto(w, Task("delete", a, c, 0))
  /\ UNCHANGED <<registered, on, docs, cache, granted, uploads, noted, faults>>

\* LOGIN_DELETE_CHARACTER_CODE, removeCharacter: $pull removes every element
\* with the name; the document follows only if an array was modified.
RemovePull(w, a, c) ==
  /\ Free(w)
  /\ a # c
  /\ HasCharacter(a, c)
  /\ listed' = [listed EXCEPT ![a][c] = 0]
  /\ Goto(w, Task("delete", a, c, 0))
  /\ UNCHANGED <<registered, on, docs, cache, granted, uploads, noted, faults>>

\* Mutant of RemoveDelete: delete_many.
RemoveDeleteMany(w) ==
  /\ task[w].pc = "delete"
  /\ docs' = [docs EXCEPT ![task[w].a][task[w].c] = <<>>]
  /\ Goto(w, Idle)
  /\ UNCHANGED <<registered, on, listed, cache, granted, uploads, noted, faults>>

RemoveDelete(w) ==
  /\ task[w].pc = "delete"
  /\ docs' = [docs EXCEPT ![task[w].a][task[w].c] = IF @ = <<>> THEN @ ELSE Tail(@)]
  /\ Goto(w, Idle)
  /\ UNCHANGED <<registered, on, listed, cache, granted, uploads, noted, faults>>

\* LOGIN_CHARACTER_ENTER_GAME_CODE: the document is read, ...
EnterFind(w, a, c) ==
  /\ Free(w)
  /\ docs[a][c] # <<>>
  /\ Goto(w, Task("enter", a, c, Head(docs[a][c])))
  /\ Overlaps(Uploading, a, c)
  /\ UNCHANGED <<registered, on, listed, docs, cache, granted, uploads, written, spoilt, faults>>

\* ... EXPIRE tells whether the character is cached, ...
EnterExpire(w) ==
  /\ task[w].pc = "enter"
  /\ LET h == cache[task[w].a][task[w].c]
     IN Goto(w, IF h.set THEN Idle ELSE [task[w] EXCEPT !.pc = "fill"])
  /\ cache' = [cache EXCEPT ![task[w].a][task[w].c] = Expire(@)]
  /\ UNCHANGED <<registered, on, listed, docs, granted, uploads, noted, faults>>

\* Mutant of EnterFill: the hash is given no TTL.
EnterFillForGood(w) ==
  /\ task[w].pc = "fill"
  /\ cache' = [cache EXCEPT ![task[w].a][task[w].c] = Hset(@, task[w].d)]
  /\ Goto(w, Idle)
  /\ UNCHANGED <<registered, on, listed, docs, granted, uploads, noted, faults>>

\* ... and if not, what was read is put there, with HSET and then EXPIRE.
EnterFill(w) ==
  /\ task[w].pc = "fill"
  /\ cache' = [cache EXCEPT ![task[w].a][task[w].c] = Hset(@, task[w].d)]
  /\ Goto(w, [task[w] EXCEPT !.pc = "enterttl"])
  /\ UNCHANGED <<registered, on, listed, docs, granted, uploads, noted, faults>>

EnterTTL(w) ==
  /\ task[w].pc = "enterttl"
  /\ cache' = [cache EXCEPT ![task[w].a][task[w].c] = Expire(@)]
  /\ Goto(w, Idle)
  /\ UNCHANGED <<registered, on, listed, docs, granted, uploads, noted, faults>>

-----------------------------------------------------------------------------
(* Game gateman.  GAME_LOAD_CHARACTER_CODE only reads: it answers with the    *)
(* cached data, else with Head(docs[a][c]), else with an error.              *)

\* GAME_UPLOAD_CHARACTER_CODE and GAME_LAST_UPLOAD_CHARACTER_CODE: a reader pulls
\* the next upload of the stream, ...
Pull(w, a, c, last) ==
  /\ Free(w)
  /\ uploads[a][c] < MaxUploads
  /\ uploads' = [uploads EXCEPT ![a][c] = @ + 1]
  /\ Goto(w, Task(IF last THEN "lastpulled" ELSE "pulled", a, c, uploads[a][c] + 1))
  /\ UNCHANGED <<registered, on, listed, docs, cache, granted, noted, faults>>

\* Where an upload goes on when its HSET is done.
Cached(w) ==
  Goto(w, [task[w] EXCEPT !.pc = IF @ = "lastpulled" THEN "lastttl" ELSE "upload"])

\* Mutant of UploadCache: HSETNX, which leaves a field that is there.
UploadCacheNx(w) ==
  /\ task[w].pc \in Pulled
  /\ LET a == task[w].a
         c == task[w].c
         d == task[w].d
     IN /\ cache' = [cache EXCEPT ![a][c] = IF @.set THEN @ ELSE Hset(@, d)]
        /\ written' = [written EXCEPT ![a][c] = IF @ < d THEN d ELSE @]
        /\ Overlaps(Entering, a, c)
        /\ spoilt' = IF d < written[a][c] THEN spoilt \cup {<<a, c>>} ELSE spoilt
  /\ Cached(w)
  /\ UNCHANGED <<registered, on, listed, docs, granted, uploads, faults>>

\* ... gives it to the cache first, maybe after a thread that pulled later, ...
UploadCache(w) ==
  /\ task[w].pc \in Pulled
  /\ LET a == task[w].a
         c == task[w].c
         d == task[w].d
     IN /\ cache' = [cache EXCEPT ![a][c] = Hset(@, d)]
        /\ written' = [written EXCEPT ![a][c] = IF @ < d THEN d ELSE @]
        /\ Overlaps(Entering, a, c)
        /\ spoilt' = IF d < written[a][c] THEN spoilt \cup {<<a, c>>} ELSE spoilt
  /\ Cached(w)
  /\ UNCHANGED <<registered, on, listed, docs, granted, uploads, faults>>

\* ... which keeps it for 300 more seconds after the last one ...
LastTTL(w) ==
  /\ task[w].pc = "lastttl"
  /\ cache' = [cache EXCEPT ![task[w].a][task[w].c] = Expire(@)]
  /\ Goto(w, [task[w] EXCEPT !.pc = "last"])
  /\ UNCHANGED <<registered, on, listed, docs, granted, uploads, noted, faults>>

\* ... then updateCharacter looks for the character ...
UpdateFind(w) ==
  /\ task[w].pc \in {"upload", "last"}
  /\ Goto(w, IF ~HasCharacter(task[w].a, task[w].c) THEN Idle
             ELSE [task[w] EXCEPT !.pc = IF @ = "last" THEN "lastupdate" ELSE "update"])
  /\ UNCHANGED <<registered, on, listed, docs, cache, granted, uploads, noted, faults>>

\* ... and a transaction logs the account out (after the last upload) and
\* updates the character's document.
UpdateTxn(w) ==
  /\ task[w].pc \in {"update", "lastupdate"}
  /\ LET a == task[w].a
         last == task[w].pc = "lastupdate"
     IN /\ on' = IF last THEN on \ {a} ELSE on
        /\ granted' = IF last THEN [granted EXCEPT ![a] = 0] ELSE granted
        /\ docs' = [docs EXCEPT ![a][task[w].c] =
                      IF @ = <<>> THEN @ ELSE [@ EXCEPT ![1] = task[w].d]]
  /\ Goto(w, Idle)
  /\ UNCHANGED <<registered, listed, cache, uploads, noted, faults>>

-----------------------------------------------------------------------------
(* Failures and time *)

\* The characters whose hash these workers have filled and not yet given a TTL.
Unexpiring(W) == {<<task[w].a, task[w].c>> : w \in {v \in W : task[v].pc = "enterttl"}}

\* A call throws: the operation returns -1, or the exception ends the thread
\* and another reader goes on; either way what was done so far stays.
Fail(w) ==
  /\ task[w] # Idle
  /\ faults < MaxFaults
  /\ faults' = faults + 1
  /\ Goto(w, Idle)
  /\ spoilt' = spoilt \cup Unexpiring({w})
  /\ UNCHANGED <<registered, on, listed, docs, cache, granted, uploads, written, overlap>>

\* Errors of HSET and EXPIRE that only RCache notices: the handler goes on.
UploadCacheFails(w) ==
  /\ task[w].pc \in Pulled
  /\ faults < MaxFaults
  /\ faults' = faults + 1
  /\ Cached(w)
  /\ spoilt' = spoilt \cup {<<task[w].a, task[w].c>>}
  /\ UNCHANGED <<registered, on, listed, docs, cache, granted, uploads, written, overlap>>

RedisFails(w) ==
  /\ faults < MaxFaults
  /\ faults' = faults + 1
  /\ \/ task[w].pc = "fill" /\ Goto(w, [task[w] EXCEPT !.pc = "enterttl"])
     \/ task[w].pc = "enterttl" /\ Goto(w, Idle)
     \/ task[w].pc = "lastttl" /\ Goto(w, [task[w] EXCEPT !.pc = "last"])
  /\ spoilt' = spoilt \cup Unexpiring({w})
  /\ UNCHANGED <<registered, on, listed, docs, cache, granted, uploads, written, overlap>>

\* The DB server dies with everything its threads had in hand.
Crash ==
  /\ \E w \in Workers : task[w] # Idle
  /\ faults < MaxFaults
  /\ faults' = faults + 1
  /\ task' = [w \in Workers |-> Idle]
  /\ spoilt' = spoilt \cup Unexpiring(Workers)
  /\ UNCHANGED <<registered, on, listed, docs, cache, granted, uploads, written, overlap>>

\* Redis drops a hash whose TTL has run out.
CacheExpires(a, c) ==
  /\ cache[a][c].set /\ cache[a][c].ttl
  /\ cache' = [cache EXCEPT ![a][c] = NoHash]
  /\ UNCHANGED <<registered, on, listed, docs, task, granted, uploads, noted, faults>>

LoginRequest(w, a) == Register(w, a) \/ (a \in Active /\ Login(w, a))
CharacterRequest(w, a, c) ==
  \/ a \in Active /\ CreateFind(w, a, c)
  \/ a \in Active /\ RemovePull(w, a, c)
  \/ <<a, c>> \in Played /\ EnterFind(w, a, c)
LoginStep(w) == CreateTxn(w) \/ RemoveDelete(w) \/ EnterExpire(w) \/ EnterFill(w) \/ EnterTTL(w)
GameStep(w) ==
  UploadCache(w) \/ UploadCacheFails(w) \/ LastTTL(w) \/ UpdateFind(w) \/ UpdateTxn(w)

Next ==
  \/ \E w \in LoginWorkers :
       \/ \E a \in Accounts : LoginRequest(w, a) \/ \E c \in Names : CharacterRequest(w, a, c)
       \/ LoginStep(w)
  \/ \E w \in GameWorkers :
       \/ \E p \in Played : \E last \in BOOLEAN : Pull(w, p[1], p[2], last)
       \/ GameStep(w)
  \/ \E w \in Workers : Fail(w) \/ RedisFails(w)
  \/ Crash
  \/ \E a \in Accounts : \E c \in Names : CacheExpires(a, c)

Spec == Init /\ [][Next]_vars

-----------------------------------------------------------------------------
(* Properties *)

Busy == [pc : {"create", "delete", "enter", "fill", "enterttl", "pulled",
               "lastpulled", "upload", "lastttl", "last", "update", "lastupdate"},
         a : Accounts, c : Names, d : Nat]

\* Every variable has the shape the code gives it.
TypeOK ==
  /\ registered \subseteq Accounts
  /\ on \subseteq Accounts
  /\ listed \in [Accounts -> [Names -> Nat]]
  /\ docs \in [Accounts -> [Names -> Seq(Nat)]]
  /\ cache \in [Accounts -> [Names -> [set : BOOLEAN, d : Nat, ttl : BOOLEAN]]]
  /\ \A a \in Accounts : \A c \in Names : cache[a][c].ttl => cache[a][c].set
  /\ task \in [Workers -> Busy \cup {Idle}]
  /\ granted \in [Accounts -> Nat]
  /\ uploads \in [Accounts -> [Names -> Nat]]
  /\ written \in [Accounts -> [Names -> Nat]]
  /\ overlap \subseteq Accounts \X Names
  /\ spoilt \subseteq Accounts \X Names
  /\ faults \in 0..MaxFaults

\* The first element of every characters array is the placeholder with the
\* account's own name: getCharacterNum subtracts it and the getters skip the
\* first element, so a list without it would hide a character.
PlaceholderKept == \A a \in registered : listed[a][a] >= 1

\* The shape of the state, and the placeholders.
AccountInv == TypeOK /\ PlaceholderKept

\* A character is loaded from the cache before its document is looked at.  The
\* hash is older than the document only after entering and an upload of the
\* character overlapped, and then it has a TTL or is about to get it, so that an
\* old character does not stay for good; not so once uploads reached the cache in
\* another order than the stream's, or HSET or that EXPIRE failed.
CacheNotOlder ==
  \A a \in Accounts : \A c \in Names :
    /\ cache[a][c].set /\ docs[a][c] # <<>> /\ cache[a][c].d < Head(docs[a][c])
    /\ <<a, c>> \notin spoilt
    => <<a, c>> \in overlap /\ (cache[a][c].ttl \/ <<a, c>> \in Unexpiring(Workers))

\* Workers that have pulled c from a's array and still have to delete its
\* document.
Deleting(a, c) == {w \in LoginWorkers : task[w] = Task("delete", a, c, 0)}

\* A character an account lists has a document of its own, also while others
\* of the same name are being deleted: however creates, deletes, errors and
\* crashes interleave, a listed character can always be entered and saved.
ListedHasDocument ==
  \A a \in Accounts : \A c \in Names \ {a} :
    Len(docs[a][c]) >= listed[a][c] + Cardinality(Deleting(a, c))

\* Between two successful logins of an account there is a logout, however many
\* threads handle its login requests.
OneSession == \A a \in Accounts : granted[a] <= 1 /\ (granted[a] = 1 => a \in on)

\* A name belongs to one account, the reserved account names included.
NameHasOneOwner ==
  \A a, b \in registered : \A c \in Names : listed[a][c] > 0 /\ listed[b][c] > 0 => a = b
=============================================================================

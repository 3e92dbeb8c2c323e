------------------------ MODULE AccountStoreProofs ------------------------
(***************************************************************************)
(* What the store promises for any number of accounts, names and reader    *)
(* threads, however their calls to MongoDB and Redis interleave and        *)
(* whichever of them fail.                                                 *)
(***************************************************************************)
EXTENDS AccountStore, TLAPS, FiniteSetTheorems

USE DEF noted

-----------------------------------------------------------------------------
(* The functions and sequences of the state *)

\* One entry of a table by account and name is replaced.
LEMMA EntrySet ==
  ASSUME NEW S, NEW f \in [Accounts -> [Names -> S]], NEW a \in Accounts, NEW c \in Names,
         NEW v \in S, NEW g, g = [f EXCEPT ![a][c] = v]
  PROVE  /\ g \in [Accounts -> [Names -> S]]
         /\ g[a][c] = v
         /\ \A b \in Accounts : \A e \in Names : b # a \/ e # c => g[b][e] = f[b][e]
OBVIOUS

\* Tail, Append and an update of the head keep a sequence of naturals one.
LEMMA DocFacts ==
  ASSUME NEW s \in Seq(Nat), NEW d \in Nat
  PROVE  /\ Append(s, d) \in Seq(Nat) /\ Len(Append(s, d)) = Len(s) + 1
         /\ Append(s, d) # <<>> /\ Head(Append(s, d)) = (IF s = <<>> THEN d ELSE Head(s))
         /\ Append(s, d)[Len(s) + 1] = d /\ \A i \in 1..Len(s) : Append(s, d)[i] = s[i]
         /\ s # <<>> =>
              /\ Len(s) \in Nat \ {0} /\ Head(s) = s[1] /\ Head(s) \in Nat
              /\ Tail(s) \in Seq(Nat) /\ Len(Tail(s)) = Len(s) - 1
              /\ \A i \in 1..Len(s) - 1 : Tail(s)[i] = s[i + 1]
              /\ Tail(s) # <<>> => Len(s) >= 2 /\ Head(Tail(s)) = s[2]
              /\ [s EXCEPT ![1] = d] \in Seq(Nat) /\ Len([s EXCEPT ![1] = d]) = Len(s)
              /\ [s EXCEPT ![1] = d] # <<>> /\ Head([s EXCEPT ![1] = d]) = d
              /\ \A i \in 2..Len(s) : [s EXCEPT ![1] = d][i] = s[i]
<1>1. /\ Append(s, d) \in Seq(Nat) /\ Len(Append(s, d)) = Len(s) + 1
      /\ Append(s, d) # <<>> /\ Head(Append(s, d)) = (IF s = <<>> THEN d ELSE Head(s))
      /\ Append(s, d)[Len(s) + 1] = d /\ \A i \in 1..Len(s) : Append(s, d)[i] = s[i]
  <2>1. Append(s, d) \in Seq(Nat) /\ Len(Append(s, d)) = Len(s) + 1
    OBVIOUS
  <2>2. Append(s, d)[Len(s) + 1] = d /\ \A i \in 1..Len(s) : Append(s, d)[i] = s[i]
    OBVIOUS
  <2>3. Append(s, d) # <<>>
    BY <2>1
  <2>4. Head(Append(s, d)) = Append(s, d)[1]
    BY <2>1, <2>3
  <2>5. s = <<>> => Len(s) = 0
    OBVIOUS
  <2>6. s # <<>> => Len(s) \in Nat \ {0} /\ Head(s) = s[1]
    OBVIOUS
  <2> QED
    BY <2>1, <2>2, <2>3, <2>4, <2>5, <2>6
<1>2. ASSUME s # <<>>
      PROVE  /\ Len(s) \in Nat \ {0} /\ Head(s) = s[1] /\ Head(s) \in Nat
             /\ Tail(s) \in Seq(Nat) /\ Len(Tail(s)) = Len(s) - 1
             /\ \A i \in 1..Len(s) - 1 : Tail(s)[i] = s[i + 1]
             /\ Tail(s) # <<>> => Len(s) >= 2 /\ Head(Tail(s)) = s[2]
  BY <1>2
<1>3. ASSUME s # <<>>
      PROVE  /\ [s EXCEPT ![1] = d] \in Seq(Nat) /\ Len([s EXCEPT ![1] = d]) = Len(s)
             /\ [s EXCEPT ![1] = d] # <<>> /\ Head([s EXCEPT ![1] = d]) = d
             /\ \A i \in 2..Len(s) : [s EXCEPT ![1] = d][i] = s[i]
  BY <1>3
<1> QED
  BY <1>1, <1>2, <1>3

\* A worker that is not idle has a task of the known shape.
LEMMA BusyTask ==
  ASSUME TypeOK, NEW w \in Workers, task[w].pc # "idle"
  PROVE  task[w] \in Busy /\ task[w].a \in Accounts /\ task[w].c \in Names /\ task[w].d \in Nat
<1>1. task[w] \in Busy
  BY DEF TypeOK, Idle
<1> QED
  BY <1>1 DEF Busy

\* A task moves to its next place and keeps what it is about.
LEMMA MovedTask ==
  ASSUME NEW t \in Busy,
         NEW p \in {"fill", "enterttl", "lastttl", "upload", "last", "update", "lastupdate"}, NEW u,
         u = [t EXCEPT !.pc = p]
  PROVE  u \in Busy /\ u.pc = p /\ u.a = t.a /\ u.c = t.c /\ u.d = t.d
BY DEF Busy

\* A new task has the known shape.
LEMMA NewTask ==
  ASSUME NEW a \in Accounts, NEW c \in Names, NEW d \in Nat,
         NEW p \in {"create", "delete", "enter", "lastpulled", "pulled"}, NEW u, u = Task(p, a, c, d)
  PROVE  u \in Busy /\ u.pc = p /\ u.a = a /\ u.c = c /\ u.d = d
BY DEF Busy, Task

\* Goto changes the task of one worker.
LEMMA GotoFacts ==
  ASSUME TypeOK, NEW w \in Workers, NEW t \in Busy \cup {Idle}, Goto(w, t)
  PROVE  /\ task' \in [Workers -> Busy \cup {Idle}]
         /\ task'[w] = t
         /\ \A v \in Workers \ {w} : task'[v] = task[v]
BY DEF TypeOK, Goto

\* The hash after HSET and after EXPIRE.
LEMMA HashFacts ==
  ASSUME NEW h \in [set : BOOLEAN, d : Nat, ttl : BOOLEAN], h.ttl => h.set, NEW d \in Nat
  PROVE  /\ Hset(h, d) \in [set : BOOLEAN, d : Nat, ttl : BOOLEAN]
         /\ Hset(h, d).set /\ Hset(h, d).d = d
         /\ Expire(h) \in [set : BOOLEAN, d : Nat, ttl : BOOLEAN]
         /\ Expire(h).set = h.set /\ Expire(h).d = h.d
         /\ Expire(h).ttl => Expire(h).set
BY DEF Hset, Expire

-----------------------------------------------------------------------------
(* What the steps do to the tables *)

\* What Redis keeps of a cached character.
Hashes == [set : BOOLEAN, d : Nat, ttl : BOOLEAN]

\* The entry of one character in a table is v afterwards, the others stay.
Entry(f, g, a, c, v) ==
  g[a][c] = v /\ \A b \in Accounts : \A e \in Names : b # a \/ e # c => g[b][e] = f[b][e]

\* The transaction of a create (addNewCharacter): both writes or none.
LEMMA CreateTxnFacts ==
  ASSUME TypeOK, NEW w \in Workers, CreateTxn(w), NEW a, a = task[w].a, NEW c, c = task[w].c
  PROVE  /\ a \in Accounts /\ c \in Names
         /\ listed' \in [Accounts -> [Names -> Nat]]
         /\ docs' \in [Accounts -> [Names -> Seq(Nat)]]
         /\ \/ listed' = listed /\ docs' = docs
            \/ /\ Entry(docs, docs', a, c, Append(docs[a][c], 0))
               /\ \/ listed' = listed
                  \/ /\ a \in registered /\ ~TakenElsewhere(a, c)
                     /\ Entry(listed, listed', a, c, listed[a][c] + 1)
<1>1. a \in Accounts /\ c \in Names
  BY BusyTask DEF CreateTxn
<1>2. docs[a][c] \in Seq(Nat) /\ listed[a][c] \in Nat
  BY <1>1 DEF TypeOK
<1>3. CASE a \in registered /\ TakenElsewhere(a, c)
  BY <1>1, <1>3 DEF CreateTxn, TypeOK
<1>4. CASE ~(a \in registered /\ TakenElsewhere(a, c))
  <2> DEFINE t == Append(docs[a][c], 0)
  <2>1. docs' = [docs EXCEPT ![a][c] = t]
    BY <1>4 DEF CreateTxn
  <2>2. t \in Seq(Nat)
    BY <1>2, DocFacts
  <2> HIDE DEF t
  <2>3. docs' \in [Accounts -> [Names -> Seq(Nat)]] /\ Entry(docs, docs', a, c, t)
    BY <1>1, <2>1, <2>2, EntrySet DEF TypeOK, Entry
  <2> USE DEF t
  <2>4. CASE a \in registered
    <3>1. listed' = [listed EXCEPT ![a][c] = listed[a][c] + 1]
      BY <1>4, <2>4 DEF CreateTxn
    <3>2. listed' \in [Accounts -> [Names -> Nat]] /\ Entry(listed, listed', a, c, listed[a][c] + 1)
      BY <1>1, <1>2, <3>1, EntrySet DEF TypeOK, Entry
    <3> QED
      BY <1>1, <1>4, <2>3, <2>4, <3>2
  <2>5. CASE a \notin registered
    <3>1. listed' = listed
      BY <1>4, <2>5 DEF CreateTxn
    <3> QED
      BY <1>1, <2>3, <3>1 DEF TypeOK
  <2> QED
    BY <2>4, <2>5
<1> QED
  BY <1>3, <1>4

\* The second write of a delete (removeCharacter) takes the oldest document.
LEMMA RemoveDeleteFacts ==
  ASSUME TypeOK, NEW w \in Workers, RemoveDelete(w), NEW a, a = task[w].a, NEW c, c = task[w].c
  PROVE  /\ a \in Accounts /\ c \in Names
         /\ docs' \in [Accounts -> [Names -> Seq(Nat)]]
         /\ Entry(docs, docs', a, c, IF docs[a][c] = <<>> THEN <<>> ELSE Tail(docs[a][c]))
<1>1. a \in Accounts /\ c \in Names
  BY BusyTask DEF RemoveDelete
<1> DEFINE s == docs[a][c]
<1> DEFINE t == IF s = <<>> THEN <<>> ELSE Tail(s)
<1>2. s \in Seq(Nat)
  BY <1>1 DEF TypeOK
<1>3. t \in Seq(Nat)
  <2>1. CASE s = <<>>
    BY <1>2, <2>1
  <2>2. CASE s # <<>>
    <3>1. Tail(s) \in Seq(Nat)
      BY <1>2, <2>2, DocFacts
    <3> QED
      BY <2>2, <3>1
  <2> QED
    BY <2>1, <2>2
<1>4. docs' = [docs EXCEPT ![a][c] = t]
  BY <1>1 DEF RemoveDelete, TypeOK
<1> HIDE DEF t
<1>5. docs' \in [Accounts -> [Names -> Seq(Nat)]] /\ Entry(docs, docs', a, c, t)
  BY <1>1, <1>3, <1>4, EntrySet DEF TypeOK, Entry
<1> QED
  BY <1>1, <1>5 DEF t

\* The transaction of an upload (updateCharacter) rewrites the oldest document.
LEMMA UpdateTxnFacts ==
  ASSUME TypeOK, NEW w \in Workers, UpdateTxn(w), NEW a, a = task[w].a, NEW c, c = task[w].c
  PROVE  /\ a \in Accounts /\ c \in Names /\ task[w].d \in Nat
         /\ docs' \in [Accounts -> [Names -> Seq(Nat)]]
         /\ Entry(docs, docs', a, c,
                  IF docs[a][c] = <<>> THEN <<>> ELSE [docs[a][c] EXCEPT ![1] = task[w].d])
<1>1. a \in Accounts /\ c \in Names /\ task[w].d \in Nat
  BY BusyTask DEF UpdateTxn
<1> DEFINE s == docs[a][c]
<1> DEFINE t == IF s = <<>> THEN <<>> ELSE [s EXCEPT ![1] = task[w].d]
<1>2. s \in Seq(Nat)
  BY <1>1 DEF TypeOK
<1>3. t \in Seq(Nat)
  <2>1. CASE s = <<>>
    BY <1>2, <2>1
  <2>2. CASE s # <<>>
    <3>1. [s EXCEPT ![1] = task[w].d] \in Seq(Nat)
      BY <1>1, <1>2, <2>2, DocFacts
    <3> QED
      BY <2>2, <3>1
  <2> QED
    BY <2>1, <2>2
<1>4. docs' = [docs EXCEPT ![a][c] = t]
  BY <1>1 DEF UpdateTxn, TypeOK
<1> HIDE DEF t
<1>5. docs' \in [Accounts -> [Names -> Seq(Nat)]] /\ Entry(docs, docs', a, c, t)
  BY <1>1, <1>3, <1>4, EntrySet DEF TypeOK, Entry
<1> QED
  BY <1>1, <1>5 DEF t

\* The hash of one character is replaced.
LEMMA CacheSet ==
  ASSUME TypeOK, NEW a \in Accounts, NEW c \in Names, NEW h \in Hashes, h.ttl => h.set,
         cache' = [cache EXCEPT ![a][c] = h]
  PROVE  /\ cache' \in [Accounts -> [Names -> Hashes]]
         /\ Entry(cache, cache', a, c, h)
         /\ \A b \in Accounts : \A e \in Names : cache'[b][e].ttl => cache'[b][e].set
<1>1. cache' \in [Accounts -> [Names -> Hashes]] /\ Entry(cache, cache', a, c, h)
  BY EntrySet DEF TypeOK, Hashes, Entry
<1>2. ASSUME NEW b \in Accounts, NEW e \in Names, cache'[b][e].ttl PROVE cache'[b][e].set
  <2>1. CASE b = a /\ e = c
    BY <1>1, <1>2, <2>1 DEF Entry
  <2>2. CASE b # a \/ e # c
    BY <1>1, <1>2, <2>2 DEF Entry, TypeOK
  <2> QED
    BY <2>1, <2>2
<1> QED
  BY <1>1, <1>2

-----------------------------------------------------------------------------
(* Shape and placeholders *)

\* The requests of the login gateman (QueryTask) keep the shape and the placeholders.
LEMMA LoginRequestKeeps ==
  ASSUME AccountInv, NEW w \in LoginWorkers, NEW a \in Accounts, NEW c \in Names,
         LoginRequest(w, a) \/ CharacterRequest(w, a, c)
  PROVE  AccountInv'
<1> USE StoreAssumption DEF AccountInv
<1>0. w \in Workers /\ a \in Names
  BY DEF Workers
<1>1. CASE Register(w, a)
  <2>1. /\ registered' = registered \cup {a}
        /\ listed' = [listed EXCEPT ![a] = [e \in Names |-> IF e = a THEN 1 ELSE 0]]
        /\ UNCHANGED <<on, docs, cache, task, granted, uploads, noted, faults>>
    BY <1>1 DEF Register
  <2>2. /\ listed' \in [Accounts -> [Names -> Nat]]
        /\ listed'[a][a] = 1
        /\ \A b \in Accounts \ {a} : listed'[b] = listed[b]
    BY <1>0, <2>1 DEF TypeOK
  <2>3. TypeOK'
    BY <2>1, <2>2 DEF TypeOK
  <2>4. PlaceholderKept'
    BY <2>1, <2>2 DEF TypeOK, PlaceholderKept
  <2> QED
    BY <2>3, <2>4
<1>2. CASE Login(w, a)
  <2>1. /\ on' = on \cup {a}
        /\ granted' = [granted EXCEPT ![a] = IF a \in on THEN @ ELSE @ + 1]
        /\ UNCHANGED <<registered, listed, docs, cache, task, uploads, noted, faults>>
    BY <1>2 DEF Login
  <2>2. granted' \in [Accounts -> Nat] /\ on' \subseteq Accounts
    BY <2>1 DEF TypeOK
  <2>3. TypeOK'
    BY <2>1, <2>2 DEF TypeOK
  <2> QED
    BY <2>1, <2>3 DEF PlaceholderKept
<1>3. CASE CreateFind(w, a, c)
  <2>1. UNCHANGED <<registered, on, listed, docs, cache, granted, uploads, noted, faults>>
    BY <1>3 DEF CreateFind
  <2> DEFINE t == Task("create", a, c, 0)
  <2>2. t \in Busy \cup {Idle}
    BY NewTask
  <2>3. Goto(w, t)
    BY <1>3 DEF CreateFind
  <2> HIDE DEF t
  <2>4. task' \in [Workers -> Busy \cup {Idle}]
    BY <1>0, <2>2, <2>3, GotoFacts
  <2> QED
    BY <2>1, <2>4 DEF TypeOK, PlaceholderKept
<1>4. CASE RemovePull(w, a, c)
  <2>1. /\ a # c
        /\ listed' = [listed EXCEPT ![a][c] = 0]
        /\ UNCHANGED <<registered, on, docs, cache, granted, uploads, noted, faults>>
    BY <1>4 DEF RemovePull
  <2> DEFINE t == Task("delete", a, c, 0)
  <2>2. t \in Busy \cup {Idle}
    BY NewTask
  <2>3. Goto(w, t)
    BY <1>4 DEF RemovePull
  <2> HIDE DEF t
  <2>4. task' \in [Workers -> Busy \cup {Idle}]
    BY <1>0, <2>2, <2>3, GotoFacts
  <2>5. /\ listed' \in [Accounts -> [Names -> Nat]]
        /\ \A b \in Accounts : listed'[b][b] = listed[b][b]
    <3>1. /\ listed' \in [Accounts -> [Names -> Nat]]
          /\ \A b \in Accounts : \A e \in Names : b # a \/ e # c => listed'[b][e] = listed[b][e]
      BY <2>1, EntrySet DEF TypeOK
    <3> QED
      BY <2>1, <3>1
  <2>6. TypeOK'
    BY <2>1, <2>4, <2>5 DEF TypeOK
  <2>7. PlaceholderKept'
    BY <2>1, <2>5 DEF TypeOK, PlaceholderKept
  <2> QED
    BY <2>6, <2>7
<1>5. CASE <<a, c>> \in Played /\ EnterFind(w, a, c)
  <2>1. /\ docs[a][c] # <<>>
        /\ UNCHANGED <<registered, on, listed, docs, cache, granted, uploads, written, spoilt, faults>>
    BY <1>5 DEF EnterFind
  <2>2. overlap' = overlap \/ overlap' = overlap \cup {<<a, c>>}
    BY <1>5 DEF EnterFind, Overlaps
  <2> DEFINE t == Task("enter", a, c, Head(docs[a][c]))
  <2>3. docs[a][c] \in Seq(Nat)
    BY DEF TypeOK
  <2>4. Head(docs[a][c]) \in Nat
    BY <2>1, <2>3, DocFacts
  <2>5. t \in Busy \cup {Idle}
    BY <2>4, NewTask
  <2>6. Goto(w, t)
    BY <1>5 DEF EnterFind
  <2> HIDE DEF t
  <2>7. task' \in [Workers -> Busy \cup {Idle}]
    BY <1>0, <2>5, <2>6, GotoFacts
  <2>8. overlap' \subseteq Accounts \X Names
    BY <2>2 DEF TypeOK
  <2> QED
    BY <2>1, <2>7, <2>8 DEF TypeOK, PlaceholderKept
<1> QED
  BY <1>1, <1>2, <1>3, <1>4, <1>5 DEF LoginRequest, CharacterRequest

\* A worker leaves its task or moves on with it.
LEMMA NextTask ==
  ASSUME TypeOK, NEW w \in Workers,
         \/ Goto(w, Idle)
         \/ /\ task[w].pc # "idle"
            /\ \E p \in {"fill", "enterttl", "lastttl", "upload", "last", "update", "lastupdate"} :
                 Goto(w, [task[w] EXCEPT !.pc = p])
  PROVE  task' \in [Workers -> Busy \cup {Idle}]
<1>1. CASE Goto(w, Idle)
  BY <1>1, GotoFacts
<1>2. CASE /\ task[w].pc # "idle"
           /\ \E p \in {"fill", "enterttl", "lastttl", "upload", "last", "update", "lastupdate"} :
                Goto(w, [task[w] EXCEPT !.pc = p])
  <2>1. PICK p \in {"fill", "enterttl", "lastttl", "upload", "last", "update", "lastupdate"} :
               Goto(w, [task[w] EXCEPT !.pc = p])
    BY <1>2
  <2>2. task[w] \in Busy
    BY <1>2, BusyTask
  <2> DEFINE u == [task[w] EXCEPT !.pc = p]
  <2>3. u \in Busy
    BY <2>2, MovedTask
  <2>4. Goto(w, u)
    BY <2>1
  <2> HIDE DEF u
  <2> QED
    BY <2>3, <2>4, GotoFacts
<1> QED
  BY <1>1, <1>2

\* The later calls of the login gateman's requests keep them too.
LEMMA LoginStepKeeps ==
  ASSUME AccountInv, NEW w \in Workers, LoginStep(w)
  PROVE  AccountInv'
<1> USE DEF AccountInv
<1>1. CASE CreateTxn(w)
  <2> DEFINE a == task[w].a
  <2> DEFINE c == task[w].c
  <2>1. Goto(w, Idle) /\ UNCHANGED <<registered, on, cache, granted, uploads, noted, faults>>
    BY <1>1 DEF CreateTxn
  <2>2. /\ a \in Accounts /\ c \in Names
        /\ listed' \in [Accounts -> [Names -> Nat]]
        /\ docs' \in [Accounts -> [Names -> Seq(Nat)]]
        /\ listed' = listed \/ Entry(listed, listed', a, c, listed[a][c] + 1)
    BY <1>1, CreateTxnFacts
  <2>3. task' \in [Workers -> Busy \cup {Idle}]
    BY <2>1, NextTask
  <2>4. TypeOK'
    BY <2>1, <2>2, <2>3 DEF TypeOK
  <2>5. ASSUME NEW b \in registered PROVE listed'[b][b] >= 1
    <3>1. b \in Accounts /\ b \in Names /\ listed[b][b] \in Nat /\ listed[b][b] >= 1
      BY StoreAssumption DEF TypeOK, PlaceholderKept
    <3>2. CASE listed' = listed
      BY <3>1, <3>2
    <3>3. CASE Entry(listed, listed', a, c, listed[a][c] + 1)
      <4>1. CASE b = a /\ b = c
        BY <3>1, <3>3, <4>1 DEF Entry
      <4>2. CASE b # a \/ b # c
        BY <3>1, <3>3, <4>2 DEF Entry
      <4> QED
        BY <4>1, <4>2
    <3> QED
      BY <2>2, <3>2, <3>3
  <2> QED
    BY <2>1, <2>4, <2>5 DEF PlaceholderKept
<1>2. CASE RemoveDelete(w)
  <2>1. /\ Goto(w, Idle)
        /\ UNCHANGED <<registered, on, listed, cache, granted, uploads, noted, faults>>
    BY <1>2 DEF RemoveDelete
  <2>2. docs' \in [Accounts -> [Names -> Seq(Nat)]]
    BY <1>2, RemoveDeleteFacts
  <2>3. task' \in [Workers -> Busy \cup {Idle}]
    BY <2>1, NextTask
  <2> QED
    BY <2>1, <2>2, <2>3 DEF TypeOK, PlaceholderKept
<1>3. CASE EnterExpire(w) \/ EnterFill(w) \/ EnterTTL(w)
  <2> DEFINE a == task[w].a
  <2> DEFINE c == task[w].c
  <2>1. task[w].pc # "idle" /\ a \in Accounts /\ c \in Names /\ task[w].d \in Nat
    BY <1>3, BusyTask DEF EnterExpire, EnterFill, EnterTTL
  <2>2. UNCHANGED <<registered, on, listed, docs, granted, uploads, noted, faults>>
    BY <1>3 DEF EnterExpire, EnterFill, EnterTTL
  <2>3. \/ Goto(w, Idle) \/ Goto(w, [task[w] EXCEPT !.pc = "fill"])
        \/ Goto(w, [task[w] EXCEPT !.pc = "enterttl"])
    BY <1>3 DEF EnterExpire, EnterFill, EnterTTL
  <2>4. task' \in [Workers -> Busy \cup {Idle}]
    BY <2>1, <2>3, NextTask
  <2>5. cache[a][c] \in Hashes /\ (cache[a][c].ttl => cache[a][c].set)
    BY <2>1 DEF TypeOK, Hashes
  <2>6. PICK h \in {Expire(cache[a][c]), Hset(cache[a][c], task[w].d)} :
               cache' = [cache EXCEPT ![a][c] = h]
    BY <1>3 DEF EnterExpire, EnterFill, EnterTTL
  <2>7. h \in Hashes /\ (h.ttl => h.set)
    BY <2>1, <2>5, <2>6, HashFacts DEF Hashes
  <2>8. /\ cache' \in [Accounts -> [Names -> Hashes]]
        /\ \A b \in Accounts : \A e \in Names : cache'[b][e].ttl => cache'[b][e].set
    BY <2>1, <2>6, <2>7, CacheSet
  <2> QED
    BY <2>2, <2>4, <2>8 DEF TypeOK, Hashes, PlaceholderKept
<1> QED
  BY <1>1, <1>2, <1>3 DEF LoginStep

\* A pull of the game gateman keeps them.
LEMMA PullKeeps ==
  ASSUME AccountInv, NEW w \in Workers, NEW a \in Accounts, NEW c \in Names, NEW last \in BOOLEAN,
         Pull(w, a, c, last)
  PROVE  AccountInv'
<1> USE DEF AccountInv
<1> DEFINE n == uploads[a][c] + 1
<1> DEFINE t == Task(IF last THEN "lastpulled" ELSE "pulled", a, c, n)
<1>1. n \in Nat
  BY DEF TypeOK
<1>2. Goto(w, t) /\ UNCHANGED <<registered, on, listed, docs, cache, granted, noted, faults>>
  BY DEF Pull
<1>3. uploads' = [uploads EXCEPT ![a][c] = n]
  BY DEF Pull
<1> HIDE DEF n
<1>4. t \in Busy \cup {Idle}
  BY <1>1, NewTask
<1> HIDE DEF t
<1>5. task' \in [Workers -> Busy \cup {Idle}]
  BY <1>2, <1>4, GotoFacts
<1>6. uploads' \in [Accounts -> [Names -> Nat]]
  BY <1>1, <1>3, EntrySet DEF TypeOK
<1> QED
  BY <1>2, <1>5, <1>6 DEF TypeOK, PlaceholderKept

\* So does its HSET, whether or not it reaches Redis.
LEMMA UploadKeeps ==
  ASSUME AccountInv, NEW w \in Workers, UploadCache(w) \/ UploadCacheFails(w)
  PROVE  AccountInv'
<1> USE DEF AccountInv
<1> DEFINE a == task[w].a
<1> DEFINE c == task[w].c
<1> DEFINE d == task[w].d
<1>1. task[w].pc # "idle" /\ task[w] \in Busy /\ a \in Accounts /\ c \in Names /\ d \in Nat
  BY BusyTask DEF UploadCache, UploadCacheFails, Pulled
<1>2. UNCHANGED <<registered, on, listed, docs, granted, uploads>>
  BY DEF UploadCache, UploadCacheFails
<1>3. faults' \in 0..MaxFaults
  <2>1. faults \in 0..MaxFaults /\ (faults' = faults \/ (faults < MaxFaults /\ faults' = faults + 1))
    BY DEF UploadCache, UploadCacheFails, TypeOK
  <2> QED
    BY <2>1, StoreAssumption
<1>4. /\ overlap' = overlap \/ overlap' = overlap \cup {<<a, c>>}
      /\ spoilt' = spoilt \/ spoilt' = spoilt \cup {<<a, c>>}
  BY DEF UploadCache, UploadCacheFails, Overlaps
<1>5. overlap' \subseteq Accounts \X Names /\ spoilt' \subseteq Accounts \X Names
  BY <1>1, <1>4 DEF TypeOK
<1>6. \/ Goto(w, [task[w] EXCEPT !.pc = "lastttl"])
      \/ Goto(w, [task[w] EXCEPT !.pc = "upload"])
  BY <1>1 DEF UploadCache, UploadCacheFails, Cached, Busy
<1>7. task' \in [Workers -> Busy \cup {Idle}]
  BY <1>1, <1>6, NextTask
<1>8. written' \in [Accounts -> [Names -> Nat]]
  <2> DEFINE n == IF written[a][c] < d THEN d ELSE written[a][c]
  <2>1. n \in Nat
    BY <1>1 DEF TypeOK
  <2>2. written' = written \/ written' = [written EXCEPT ![a][c] = n]
    <3>1. CASE UploadCache(w)
      BY <3>1 DEF UploadCache
    <3>2. CASE UploadCacheFails(w)
      BY <3>2 DEF UploadCacheFails
    <3> QED
      BY <3>1, <3>2
  <2>3. written \in [Accounts -> [Names -> Nat]]
    BY DEF TypeOK
  <2> HIDE DEF n, a, c
  <2>4. CASE written' = [written EXCEPT ![a][c] = n]
    BY <1>1, <2>1, <2>3, <2>4, EntrySet
  <2> QED
    BY <2>2, <2>3, <2>4
<1>9. /\ cache' \in [Accounts -> [Names -> Hashes]]
      /\ \A b \in Accounts : \A e \in Names : cache'[b][e].ttl => cache'[b][e].set
  <2> DEFINE h == Hset(cache[a][c], d)
  <2>1. cache[a][c] \in Hashes /\ (cache[a][c].ttl => cache[a][c].set)
    BY <1>1 DEF TypeOK, Hashes
  <2>2. h \in Hashes /\ (h.ttl => h.set)
    BY <1>1, <2>1, HashFacts DEF Hashes
  <2>3. cache' = cache \/ cache' = [cache EXCEPT ![a][c] = h]
    BY DEF UploadCache, UploadCacheFails
  <2> HIDE DEF h, a, c
  <2>4. CASE cache' = cache
    BY <2>4 DEF TypeOK, Hashes
  <2>5. CASE cache' = [cache EXCEPT ![a][c] = h]
    BY <1>1, <2>2, <2>5, CacheSet
  <2> QED
    BY <2>3, <2>4, <2>5
<1> QED
  BY <1>2, <1>3, <1>5, <1>7, <1>8, <1>9 DEF TypeOK, Hashes, PlaceholderKept

\* The later calls of the game gateman's requests keep them.
LEMMA GameStepKeeps ==
  ASSUME AccountInv, NEW w \in Workers, GameStep(w)
  PROVE  AccountInv'
<1> USE DEF AccountInv
<1> DEFINE a == task[w].a
<1> DEFINE c == task[w].c
<1>0. CASE UploadCache(w) \/ UploadCacheFails(w)
  BY <1>0, UploadKeeps
<1>1. ASSUME LastTTL(w) \/ UpdateFind(w) \/ UpdateTxn(w)
      PROVE  task[w].pc # "idle" /\ task[w] \in Busy /\ a \in Accounts /\ c \in Names
  BY <1>1, BusyTask DEF LastTTL, UpdateFind, UpdateTxn
<1>2. CASE LastTTL(w)
  <2>0. task[w].pc # "idle" /\ a \in Accounts /\ c \in Names
    BY <1>1, <1>2
  <2>1. /\ Goto(w, [task[w] EXCEPT !.pc = "last"])
        /\ UNCHANGED <<registered, on, listed, docs, granted, uploads, noted, faults>>
    BY <1>2 DEF LastTTL
  <2>2. task' \in [Workers -> Busy \cup {Idle}]
    BY <2>0, <2>1, NextTask
  <2> DEFINE h == Expire(cache[a][c])
  <2>3. cache[a][c] \in Hashes /\ (cache[a][c].ttl => cache[a][c].set)
    BY <2>0 DEF TypeOK, Hashes
  <2>4. h \in Hashes /\ (h.ttl => h.set)
    BY <2>3, HashFacts DEF Hashes
  <2>5. cache' = [cache EXCEPT ![a][c] = h]
    BY <1>2 DEF LastTTL
  <2> HIDE DEF h
  <2>6. /\ cache' \in [Accounts -> [Names -> Hashes]]
        /\ \A b \in Accounts : \A e \in Names : cache'[b][e].ttl => cache'[b][e].set
    BY <2>0, <2>4, <2>5, CacheSet
  <2> QED
    BY <2>1, <2>2, <2>6 DEF TypeOK, Hashes, PlaceholderKept
<1>3. CASE UpdateFind(w)
  <2>1. UNCHANGED <<registered, on, listed, docs, cache, granted, uploads, noted, faults>>
    BY <1>3 DEF UpdateFind
  <2>2. \/ Goto(w, Idle) \/ Goto(w, [task[w] EXCEPT !.pc = "lastupdate"])
        \/ Goto(w, [task[w] EXCEPT !.pc = "update"])
    BY <1>1, <1>3 DEF UpdateFind, Busy
  <2>3. task' \in [Workers -> Busy \cup {Idle}]
    BY <1>1, <1>3, <2>2, NextTask
  <2> QED
    BY <2>1, <2>3 DEF TypeOK, PlaceholderKept
<1>4. CASE UpdateTxn(w)
  <2>1. Goto(w, Idle) /\ UNCHANGED <<registered, listed, cache, uploads, noted, faults>>
    BY <1>4 DEF UpdateTxn
  <2>2. docs' \in [Accounts -> [Names -> Seq(Nat)]]
    BY <1>4, UpdateTxnFacts
  <2>3. task' \in [Workers -> Busy \cup {Idle}]
    BY <2>1, NextTask
  <2>4. on' \subseteq Accounts /\ granted' \in [Accounts -> Nat]
    BY <1>1, <1>4 DEF UpdateTxn, TypeOK
  <2> QED
    BY <2>1, <2>2, <2>3, <2>4 DEF TypeOK, PlaceholderKept
<1> QED
  BY <1>0, <1>2, <1>3, <1>4 DEF GameStep

\* A hash that waits for its TTL is a character's.
LEMMA UnexpiringPairs ==
  ASSUME TypeOK, NEW W \in SUBSET Workers
  PROVE  Unexpiring(W) \subseteq Accounts \X Names
<1> SUFFICES ASSUME NEW w \in W, task[w].pc = "enterttl"
             PROVE  task[w].a \in Accounts /\ task[w].c \in Names
  BY DEF Unexpiring
<1> QED
  BY BusyTask

\* Errors, a crash of the server and the end of a TTL keep them.
LEMMA FailureKeeps ==
  ASSUME AccountInv,
         \/ \E w \in Workers : Fail(w) \/ RedisFails(w)
         \/ Crash
         \/ \E a \in Accounts : \E c \in Names : CacheExpires(a, c)
  PROVE  AccountInv'
<1> USE StoreAssumption DEF AccountInv
<1>1. ASSUME NEW w \in Workers, Fail(w) \/ RedisFails(w) PROVE AccountInv'
  <2>0. faults \in 0..MaxFaults /\ faults < MaxFaults /\ faults' = faults + 1
    BY <1>1 DEF Fail, RedisFails, TypeOK
  <2>1. /\ faults' \in 0..MaxFaults
        /\ UNCHANGED <<registered, on, listed, docs, cache, granted, uploads, written, overlap>>
        /\ spoilt' = spoilt \cup Unexpiring({w})
    BY <1>1, <2>0 DEF Fail, RedisFails
  <2>2. \/ Goto(w, Idle)
        \/ /\ task[w].pc # "idle"
           /\ \/ Goto(w, [task[w] EXCEPT !.pc = "enterttl"])
              \/ Goto(w, [task[w] EXCEPT !.pc = "last"])
    BY <1>1 DEF Fail, RedisFails
  <2>3. task' \in [Workers -> Busy \cup {Idle}]
    BY <2>2, NextTask
  <2>4. spoilt' \subseteq Accounts \X Names
    BY <2>1, UnexpiringPairs DEF TypeOK
  <2> QED
    BY <2>1, <2>3, <2>4 DEF TypeOK, PlaceholderKept
<1>2. CASE Crash
  <2>1. spoilt' \subseteq Accounts \X Names
    BY <1>2, UnexpiringPairs DEF Crash, TypeOK
  <2> QED
    BY <1>2, <2>1 DEF Crash, TypeOK, PlaceholderKept
<1>3. ASSUME NEW a \in Accounts, NEW c \in Names, CacheExpires(a, c) PROVE AccountInv'
  <2>1. /\ cache' = [cache EXCEPT ![a][c] = NoHash]
        /\ UNCHANGED <<registered, on, listed, docs, task, granted, uploads, noted, faults>>
    BY <1>3 DEF CacheExpires
  <2>2. NoHash \in Hashes /\ (NoHash.ttl => NoHash.set)
    BY DEF NoHash, Hashes
  <2>3. /\ cache' \in [Accounts -> [Names -> Hashes]]
        /\ \A b \in Accounts : \A e \in Names : cache'[b][e].ttl => cache'[b][e].set
    BY <2>1, <2>2, CacheSet
  <2> QED
    BY <2>1, <2>3 DEF TypeOK, Hashes, PlaceholderKept
<1> QED
  BY <1>1, <1>2, <1>3

\* Every characters array keeps the placeholder that getCharacterNum and the
\* getters of AccountOp count on, and the tables keep their shape, for any number
\* of accounts and reader threads.
THEOREM PlaceholdersStay == Spec => []AccountInv
<1>1. Init => AccountInv
  <2> SUFFICES ASSUME Init PROVE AccountInv
    OBVIOUS
  <2>1. /\ registered = {} /\ on = {} /\ overlap = {} /\ spoilt = {} /\ faults = 0
        /\ task = [w \in Workers |-> Idle]
    BY DEF Init
  <2>2. /\ listed \in [Accounts -> [Names -> Nat]] /\ granted \in [Accounts -> Nat]
        /\ uploads \in [Accounts -> [Names -> Nat]] /\ written \in [Accounts -> [Names -> Nat]]
    BY DEF Init
  <2>3. docs \in [Accounts -> [Names -> Seq(Nat)]]
    BY DEF Init
  <2>4. /\ cache \in [Accounts -> [Names -> [set : BOOLEAN, d : Nat, ttl : BOOLEAN]]]
        /\ \A a \in Accounts : \A c \in Names : cache[a][c] = NoHash
    BY DEF Init, NoHash
  <2>5. \A a \in Accounts : \A c \in Names : cache[a][c].ttl => cache[a][c].set
    BY <2>4 DEF NoHash
  <2>6. faults \in 0..MaxFaults
    BY <2>1, StoreAssumption
  <2> QED
    BY <2>1, <2>2, <2>3, <2>4, <2>5, <2>6 DEF AccountInv, TypeOK, PlaceholderKept
<1>2. AccountInv /\ [Next]_vars => AccountInv'
  <2> SUFFICES ASSUME AccountInv, [Next]_vars PROVE AccountInv'
    OBVIOUS
  <2>1. CASE UNCHANGED vars
    BY <2>1 DEF vars, AccountInv, TypeOK, PlaceholderKept
  <2>2. ASSUME NEW w \in LoginWorkers, NEW a \in Accounts, LoginRequest(w, a) PROVE AccountInv'
    <3>1. a \in Names
      BY StoreAssumption
    <3> QED
      BY <2>2, <3>1, LoginRequestKeeps
  <2>3. ASSUME NEW w \in LoginWorkers, NEW a \in Accounts, NEW c \in Names, CharacterRequest(w, a, c)
        PROVE  AccountInv'
    BY <2>3, LoginRequestKeeps
  <2>4. ASSUME NEW w \in LoginWorkers, LoginStep(w) PROVE AccountInv'
    BY <2>4, LoginStepKeeps DEF Workers
  <2>5. ASSUME NEW w \in GameWorkers, NEW p \in Played, NEW last \in BOOLEAN,
               Pull(w, p[1], p[2], last)
        PROVE  AccountInv'
    <3>1. p[1] \in Accounts /\ p[2] \in Names /\ w \in Workers
      BY StoreAssumption DEF Workers
    <3> QED
      BY <2>5, <3>1, PullKeeps
  <2>6. ASSUME NEW w \in GameWorkers, GameStep(w) PROVE AccountInv'
    BY <2>6, GameStepKeeps DEF Workers
  <2>7. CASE \/ \E w \in Workers : Fail(w) \/ RedisFails(w)
             \/ Crash
             \/ \E a \in Accounts : \E c \in Names : CacheExpires(a, c)
    BY <2>7, FailureKeeps
  <2> QED
    BY <2>1, <2>2, <2>3, <2>4, <2>5, <2>6, <2>7 DEF Next
<1> QED
  BY <1>1, <1>2, PTL DEF Spec

-----------------------------------------------------------------------------
(* Sessions *)

\* on_off and the logins granted change only where accountLogin switches one on and
\* where the transaction of a last upload switches it off.
LEMMA SessionStep ==
  ASSUME [Next]_vars
  PROVE  \/ UNCHANGED <<on, granted>>
         \/ \E w \in Workers : \E a \in Accounts : Login(w, a)
         \/ \E w \in Workers : UpdateTxn(w)
<1>1. CASE UNCHANGED vars
  BY <1>1 DEF vars
<1>2. ASSUME NEW w \in LoginWorkers, NEW a \in Accounts, LoginRequest(w, a)
      PROVE  UNCHANGED <<on, granted>> \/ Login(w, a)
  BY <1>2 DEF LoginRequest, Register
<1>3. ASSUME NEW w \in LoginWorkers, NEW a \in Accounts, NEW c \in Names, CharacterRequest(w, a, c)
      PROVE  UNCHANGED <<on, granted>>
  BY <1>3 DEF CharacterRequest, CreateFind, RemovePull, EnterFind
<1>4. ASSUME NEW w \in LoginWorkers, LoginStep(w) PROVE UNCHANGED <<on, granted>>
  BY <1>4 DEF LoginStep, CreateTxn, RemoveDelete, EnterExpire, EnterFill, EnterTTL
<1>5. ASSUME NEW w \in GameWorkers, NEW p \in Played, NEW last \in BOOLEAN,
             Pull(w, p[1], p[2], last)
      PROVE  UNCHANGED <<on, granted>>
  BY <1>5 DEF Pull
<1>6. ASSUME NEW w \in GameWorkers, GameStep(w)
      PROVE  UNCHANGED <<on, granted>> \/ UpdateTxn(w)
  BY <1>6 DEF GameStep, UploadCache, UploadCacheFails, LastTTL, UpdateFind
<1>7. ASSUME \/ \E w \in Workers : Fail(w) \/ RedisFails(w)
             \/ Crash
             \/ \E a \in Accounts : \E c \in Names : CacheExpires(a, c)
      PROVE  UNCHANGED <<on, granted>>
  BY <1>7 DEF Fail, RedisFails, Crash, CacheExpires
<1> QED
  BY <1>1, <1>2, <1>3, <1>4, <1>5, <1>6, <1>7 DEF Next, Workers

\* Between two logins that succeed there is a logout, however many reader threads
\* handle the requests of one account.
THEOREM SessionsExclude == Spec => []OneSession
<1>1. Init => OneSession
  BY DEF Init, OneSession
<1>2. AccountInv /\ OneSession /\ [Next]_vars => OneSession'
  <2> SUFFICES ASSUME AccountInv, OneSession, [Next]_vars, NEW b \in Accounts
               PROVE  granted'[b] <= 1 /\ (granted'[b] = 1 => b \in on')
    BY DEF OneSession
  <2>1. granted \in [Accounts -> Nat] /\ granted[b] <= 1 /\ (granted[b] = 1 => b \in on)
    BY DEF AccountInv, TypeOK, OneSession
  <2>2. CASE UNCHANGED <<on, granted>>
    BY <2>1, <2>2
  <2>3. ASSUME NEW w \in Workers, NEW a \in Accounts, Login(w, a)
        PROVE  granted'[b] <= 1 /\ (granted'[b] = 1 => b \in on')
    <3>1. /\ on' = on \cup {a}
          /\ granted'[b] = IF b = a /\ a \notin on THEN granted[b] + 1 ELSE granted[b]
      BY <2>1, <2>3 DEF Login
    <3> QED
      BY <2>1, <3>1
  <2>4. ASSUME NEW w \in Workers, UpdateTxn(w)
        PROVE  granted'[b] <= 1 /\ (granted'[b] = 1 => b \in on')
    <3>1. \/ on' = on /\ granted' = granted
          \/ /\ on' = on \ {task[w].a}
             /\ granted' = [granted EXCEPT ![task[w].a] = 0]
      BY <2>4 DEF UpdateTxn
    <3>2. task[w].a \in Accounts
      BY <2>4, BusyTask DEF UpdateTxn, AccountInv
    <3> QED
      BY <2>1, <3>1, <3>2
  <2> QED
    BY <2>2, <2>3, <2>4, SessionStep
<1> QED
  BY <1>1, <1>2, PlaceholdersStay, PTL DEF Spec

-----------------------------------------------------------------------------
(* Names *)

\* The accounts and their characters arrays change in three places only.
LEMMA ListStep ==
  ASSUME [Next]_vars
  PROVE  \/ UNCHANGED <<registered, listed>>
         \/ \E w \in Workers : \E a \in Accounts : Register(w, a)
         \/ \E w \in LoginWorkers : CreateTxn(w)
         \/ \E w \in LoginWorkers : \E a \in Accounts : \E c \in Names : RemovePull(w, a, c)
<1>1. CASE UNCHANGED vars
  BY <1>1 DEF vars
<1>2. ASSUME NEW w \in LoginWorkers, NEW a \in Accounts, LoginRequest(w, a)
      PROVE  UNCHANGED <<registered, listed>> \/ Register(w, a)
  BY <1>2 DEF LoginRequest, Login
<1>3. ASSUME NEW w \in LoginWorkers, NEW a \in Accounts, NEW c \in Names, CharacterRequest(w, a, c)
      PROVE  UNCHANGED <<registered, listed>> \/ RemovePull(w, a, c)
  BY <1>3 DEF CharacterRequest, CreateFind, EnterFind
<1>4. ASSUME NEW w \in LoginWorkers, LoginStep(w)
      PROVE  UNCHANGED <<registered, listed>> \/ CreateTxn(w)
  BY <1>4 DEF LoginStep, RemoveDelete, EnterExpire, EnterFill, EnterTTL
<1>5. ASSUME NEW w \in GameWorkers, NEW p \in Played, NEW last \in BOOLEAN,
             Pull(w, p[1], p[2], last)
      PROVE  UNCHANGED <<registered, listed>>
  BY <1>5 DEF Pull
<1>6. ASSUME NEW w \in GameWorkers, GameStep(w) PROVE UNCHANGED <<registered, listed>>
  BY <1>6 DEF GameStep, UploadCache, UploadCacheFails, LastTTL, UpdateFind, UpdateTxn
<1>7. ASSUME \/ \E w \in Workers : Fail(w) \/ RedisFails(w)
             \/ Crash
             \/ \E a \in Accounts : \E c \in Names : CacheExpires(a, c)
      PROVE  UNCHANGED <<registered, listed>>
  BY <1>7 DEF Fail, RedisFails, Crash, CacheExpires
<1> QED
  BY <1>1, <1>2, <1>3, <1>4, <1>5, <1>6, <1>7 DEF Next, Workers

\* A name belongs to one account: what the unique index on characters.character_name
\* gives, given that addNewAccount reserves the account's own name.
THEOREM NamesBelongToOne == Spec => []NameHasOneOwner
<1>1. Init => NameHasOneOwner
  BY DEF Init, NameHasOneOwner
<1>2. AccountInv /\ NameHasOneOwner /\ [Next]_vars => NameHasOneOwner'
  <2> SUFFICES ASSUME AccountInv, NameHasOneOwner, [Next]_vars PROVE NameHasOneOwner'
    OBVIOUS
  <2>1. /\ listed \in [Accounts -> [Names -> Nat]] /\ registered \subseteq Accounts
    BY DEF AccountInv, TypeOK
  <2>2. CASE UNCHANGED <<registered, listed>>
    BY <2>2 DEF NameHasOneOwner
  <2>3. ASSUME NEW w \in Workers, NEW a \in Accounts, Register(w, a) PROVE NameHasOneOwner'
    <3>1. /\ a \notin registered /\ ~TakenElsewhere(a, a) /\ registered' = registered \cup {a}
          /\ \A e \in Names : listed'[a][e] = IF e = a THEN 1 ELSE 0
          /\ \A b \in Accounts \ {a} : listed'[b] = listed[b]
      BY <2>1, <2>3 DEF Register
    <3>2. \A b \in registered : ~(listed[b][a] > 0)
      BY <2>1, <3>1 DEF TakenElsewhere
    <3>3. ASSUME NEW b \in registered', NEW e \in registered', NEW c \in Names,
                 listed'[b][c] > 0, listed'[e][c] > 0
          PROVE  b = e
      <4>1. CASE b = a /\ e # a
        <5>1. c = a /\ e \in registered /\ listed'[e] = listed[e]
          BY <2>1, <3>1, <3>3, <4>1
        <5> QED
          BY <3>2, <3>3, <5>1
      <4>2. CASE b # a /\ e = a
        <5>1. c = a /\ b \in registered /\ listed'[b] = listed[b]
          BY <2>1, <3>1, <3>3, <4>2
        <5> QED
          BY <3>2, <3>3, <5>1
      <4>3. CASE b # a /\ e # a
        <5>1. b \in registered /\ e \in registered /\ listed'[b] = listed[b] /\ listed'[e] = listed[e]
          BY <2>1, <3>1, <4>3
        <5> QED
          BY <3>3, <5>1 DEF NameHasOneOwner
      <4> QED
        BY <4>1, <4>2, <4>3
    <3> QED
      BY <3>3 DEF NameHasOneOwner
  <2>4. ASSUME NEW w \in LoginWorkers, CreateTxn(w) PROVE NameHasOneOwner'
    <3> DEFINE a == task[w].a
    <3> DEFINE c == task[w].c
    <3>1. /\ registered' = registered
          /\ a \in Accounts /\ c \in Names
          /\ \/ listed' = listed
             \/ /\ a \in registered /\ ~TakenElsewhere(a, c)
                /\ Entry(listed, listed', a, c, listed[a][c] + 1)
      BY <2>4, CreateTxnFacts DEF CreateTxn, Workers, AccountInv
    <3> HIDE DEF a, c
    <3>2. CASE listed' = listed
      BY <3>1, <3>2 DEF NameHasOneOwner
    <3>3. CASE /\ a \in registered /\ ~TakenElsewhere(a, c)
               /\ Entry(listed, listed', a, c, listed[a][c] + 1)
      <4>1. \A b \in registered \ {a} : ~(listed[b][c] > 0)
        BY <2>1, <3>3 DEF TakenElsewhere
      <4>2. ASSUME NEW b \in registered, NEW e \in registered, NEW n \in Names,
                   listed'[b][n] > 0, listed'[e][n] > 0
            PROVE  b = e
        <5>1. CASE n = c
          <6>1. ASSUME NEW d \in registered, d # a PROVE listed'[d][n] = listed[d][n]
            BY <2>1, <3>3, <6>1 DEF Entry
          <6> QED
            BY <4>1, <4>2, <5>1, <6>1
        <5>2. CASE n # c
          <6>1. listed'[b][n] = listed[b][n] /\ listed'[e][n] = listed[e][n]
            BY <2>1, <3>3, <5>2 DEF Entry
          <6> QED
            BY <4>2, <6>1 DEF NameHasOneOwner
        <5> QED
          BY <5>1, <5>2
      <4> QED
        BY <3>1, <4>2 DEF NameHasOneOwner
    <3> QED
      BY <3>1, <3>2, <3>3
  <2>5. ASSUME NEW w \in LoginWorkers, NEW a \in Accounts, NEW c \in Names, RemovePull(w, a, c)
        PROVE  NameHasOneOwner'
    <3>1. registered' = registered /\ listed' = [listed EXCEPT ![a][c] = 0]
      BY <2>5 DEF RemovePull
    <3>2. \A b \in Accounts : \A n \in Names : listed'[b][n] > 0 => listed[b][n] > 0
      BY <2>1, <3>1
    <3> QED
      BY <2>1, <3>1, <3>2 DEF NameHasOneOwner
  <2> QED
    BY <2>2, <2>3, <2>4, <2>5, ListStep
<1> QED
  BY <1>1, <1>2, PlaceholdersStay, PTL DEF Spec

-----------------------------------------------------------------------------
(* Documents of listed characters *)

\* A worker between the two writes of a delete: what Deleting counts.
DeletersKnown ==
  \A w \in Workers : task[w].pc = "delete" =>
    task[w] = Task("delete", task[w].a, task[w].c, 0) /\ task[w].a # task[w].c

\* No worker comes to the second half of a delete in this step.
NoNewDelete == \A v \in Workers : task'[v].pc = "delete" => task'[v] = task[v]

\* A worker goes anywhere but to the second half of a delete.
LEMMA NotToDelete ==
  ASSUME TypeOK, NEW w \in Workers,
         \/ \E t \in Busy \cup {Idle} : t.pc # "delete" /\ Goto(w, t)
         \/ Goto(w, Idle)
         \/ /\ task[w].pc # "idle"
            /\ \E p \in {"fill", "enterttl", "lastttl", "upload", "last", "update", "lastupdate"} :
                 Goto(w, [task[w] EXCEPT !.pc = p])
  PROVE  NoNewDelete
<1>1. ASSUME NEW t \in Busy \cup {Idle}, t.pc # "delete", Goto(w, t) PROVE NoNewDelete
  BY <1>1, GotoFacts DEF NoNewDelete
<1>2. Idle \in Busy \cup {Idle} /\ Idle.pc # "delete"
  BY DEF Idle
<1>3. ASSUME task[w].pc # "idle", NEW p \in {"fill", "enterttl", "lastttl", "upload", "last", "update", "lastupdate"},
             Goto(w, [task[w] EXCEPT !.pc = p])
      PROVE  NoNewDelete
  <2> DEFINE u == [task[w] EXCEPT !.pc = p]
  <2>1. task[w] \in Busy
    BY <1>3, BusyTask
  <2>2. u \in Busy /\ u.pc # "delete"
    BY <2>1, MovedTask
  <2>3. Goto(w, u)
    BY <1>3
  <2> HIDE DEF u
  <2> QED
    BY <1>1, <2>2, <2>3
<1> QED
  BY <1>1, <1>2, <1>3

\* Only a create, and the two writes of a delete, can bring the documents, the
\* arrays and the pending deletes closer to each other.
LEMMA DocumentStep ==
  ASSUME TypeOK, [Next]_vars
  PROVE  \/ /\ NoNewDelete
            /\ \A a \in Accounts : \A c \in Names :
                 /\ Len(docs'[a][c]) = Len(docs[a][c])
                 /\ a # c => listed'[a][c] <= listed[a][c]
         \/ \E w \in LoginWorkers : CreateTxn(w) \/ RemoveDelete(w)
         \/ \E w \in LoginWorkers : \E a \in Accounts : \E c \in Names : RemovePull(w, a, c)
<1> DEFINE Q == /\ NoNewDelete
                /\ \A a \in Accounts : \A c \in Names :
                     /\ Len(docs'[a][c]) = Len(docs[a][c])
                     /\ a # c => listed'[a][c] <= listed[a][c]
<1>0. /\ \A a \in Accounts : \A c \in Names : listed[a][c] <= listed[a][c]
      /\ \A w \in LoginWorkers : w \in Workers
      /\ \A w \in GameWorkers : w \in Workers
  BY DEF TypeOK, Workers
<1>1. CASE UNCHANGED vars
  BY <1>0, <1>1 DEF vars, NoNewDelete
<1>2. ASSUME NEW w \in LoginWorkers, NEW a \in Accounts, LoginRequest(w, a) PROVE Q
  <2>1. docs' = docs /\ task' = task
    BY <1>2 DEF LoginRequest, Register, Login
  <2>2. CASE Register(w, a)
    <3>1. \A b \in Accounts : \A c \in Names : b # c => listed'[b][c] <= listed[b][c]
      BY <2>2 DEF Register, TypeOK
    <3> QED
      BY <2>1, <3>1 DEF NoNewDelete
  <2>3. CASE Login(w, a)
    BY <1>0, <2>1, <2>3 DEF NoNewDelete, Login
  <2> QED
    BY <1>2, <2>2, <2>3 DEF LoginRequest
<1>3. ASSUME NEW w \in LoginWorkers, NEW a \in Accounts, NEW c \in Names,
             CreateFind(w, a, c) \/ EnterFind(w, a, c)
      PROVE  Q
  <2>1. docs' = docs /\ listed' = listed
    BY <1>3 DEF CreateFind, EnterFind
  <2>2. CASE CreateFind(w, a, c)
    <3> DEFINE t == Task("create", a, c, 0)
    <3>1. t \in Busy \cup {Idle} /\ t.pc # "delete"
      BY NewTask
    <3>2. Goto(w, t)
      BY <2>2 DEF CreateFind
    <3> HIDE DEF t
    <3>3. NoNewDelete
      BY <1>0, <3>1, <3>2, NotToDelete
    <3> QED
      BY <1>0, <2>1, <3>3
  <2>3. CASE EnterFind(w, a, c)
    <3> DEFINE t == Task("enter", a, c, Head(docs[a][c]))
    <3>1. docs[a][c] # <<>> /\ docs[a][c] \in Seq(Nat)
      BY <2>3 DEF EnterFind, TypeOK
    <3>2. Head(docs[a][c]) \in Nat
      BY <3>1, DocFacts
    <3>3. t \in Busy \cup {Idle} /\ t.pc # "delete"
      BY <3>2, NewTask
    <3>4. Goto(w, t)
      BY <2>3 DEF EnterFind
    <3> HIDE DEF t
    <3>5. NoNewDelete
      BY <1>0, <3>3, <3>4, NotToDelete
    <3> QED
      BY <1>0, <2>1, <3>5
  <2> QED
    BY <1>3, <2>2, <2>3
<1>4. ASSUME NEW w \in LoginWorkers, EnterExpire(w) \/ EnterFill(w) \/ EnterTTL(w) PROVE Q
  <2>1. docs' = docs /\ listed' = listed /\ task[w].pc # "idle"
    BY <1>4 DEF EnterExpire, EnterFill, EnterTTL
  <2>2. \/ Goto(w, Idle) \/ Goto(w, [task[w] EXCEPT !.pc = "fill"])
        \/ Goto(w, [task[w] EXCEPT !.pc = "enterttl"])
    BY <1>4 DEF EnterExpire, EnterFill, EnterTTL
  <2>3. NoNewDelete
    BY <1>0, <2>1, <2>2, NotToDelete
  <2> QED
    BY <1>0, <2>1, <2>3
<1>5. ASSUME NEW w \in GameWorkers, NEW p \in Played, NEW last \in BOOLEAN,
             Pull(w, p[1], p[2], last)
      PROVE  Q
  <2>1. docs' = docs /\ listed' = listed
    BY <1>5 DEF Pull
  <2>2. p[1] \in Accounts /\ p[2] \in Names
    BY StoreAssumption
  <2>3. uploads[p[1]][p[2]] + 1 \in Nat
    BY <2>2 DEF TypeOK
  <2> DEFINE t == Task(IF last THEN "lastpulled" ELSE "pulled", p[1], p[2], uploads[p[1]][p[2]] + 1)
  <2>4. t \in Busy \cup {Idle} /\ t.pc # "delete"
    BY <2>2, <2>3, NewTask
  <2>5. Goto(w, t)
    BY <1>5 DEF Pull
  <2> HIDE DEF t
  <2>6. NoNewDelete
    BY <1>0, <2>4, <2>5, NotToDelete
  <2> QED
    BY <1>0, <2>1, <2>6
<1>6. ASSUME NEW w \in GameWorkers, GameStep(w) PROVE Q
  <2>1. listed' = listed /\ task[w].pc # "idle"
    BY <1>6 DEF GameStep, UploadCache, UploadCacheFails, LastTTL, UpdateFind, UpdateTxn, Pulled
  <2>2. task[w] \in Busy
    BY <1>0, <2>1, BusyTask
  <2>3. \/ Goto(w, Idle) \/ Goto(w, [task[w] EXCEPT !.pc = "last"])
        \/ Goto(w, [task[w] EXCEPT !.pc = "lastupdate"])
        \/ Goto(w, [task[w] EXCEPT !.pc = "update"])
        \/ Goto(w, [task[w] EXCEPT !.pc = "lastttl"])
        \/ Goto(w, [task[w] EXCEPT !.pc = "upload"])
    <3>1. CASE UploadCache(w) \/ UploadCacheFails(w)
      BY <2>2, <3>1 DEF UploadCache, UploadCacheFails, Cached, Busy
    <3>2. CASE LastTTL(w) \/ UpdateFind(w) \/ UpdateTxn(w)
      BY <2>2, <3>2 DEF LastTTL, UpdateFind, UpdateTxn, Busy
    <3> QED
      BY <1>6, <3>1, <3>2 DEF GameStep
  <2>4. NoNewDelete
    BY <1>0, <2>1, <2>3, NotToDelete
  <2>5. ASSUME NEW b \in Accounts, NEW e \in Names PROVE Len(docs'[b][e]) = Len(docs[b][e])
    <3>1. CASE docs' = docs
      BY <3>1
    <3>2. CASE UpdateTxn(w)
      <4> DEFINE s == docs[b][e]
      <4>1. s \in Seq(Nat) /\ task[w].d \in Nat
        <5>1. s \in Seq(Nat)
          BY DEF TypeOK
        <5> QED
          BY <1>0, <2>1, <5>1, BusyTask
      <4> DEFINE a == task[w].a
      <4> DEFINE c == task[w].c
      <4>0. a = task[w].a /\ c = task[w].c
        OBVIOUS
      <4> HIDE DEF a, c
      <4>2. Entry(docs, docs', a, c,
                  IF docs[a][c] = <<>> THEN <<>> ELSE [docs[a][c] EXCEPT ![1] = task[w].d])
        BY <1>0, <3>2, <4>0, UpdateTxnFacts
      <4>3. \/ docs'[b][e] = s
            \/ docs'[b][e] = IF s = <<>> THEN <<>> ELSE [s EXCEPT ![1] = task[w].d]
        BY <4>2 DEF Entry
      <4>4. ASSUME s # <<>> PROVE Len([s EXCEPT ![1] = task[w].d]) = Len(s)
        <5> HIDE DEF s
        <5> QED
          BY <4>1, <4>4, DocFacts
      <4> QED
        BY <4>3, <4>4
    <3> QED
      BY <1>6, <3>1, <3>2 DEF GameStep, UploadCache, UploadCacheFails, LastTTL, UpdateFind
  <2> QED
    BY <1>0, <2>1, <2>4, <2>5
<1>7. ASSUME NEW w \in Workers, Fail(w) \/ RedisFails(w) PROVE Q
  <2>1. docs' = docs /\ listed' = listed
    BY <1>7 DEF Fail, RedisFails
  <2>2. \/ Goto(w, Idle)
        \/ /\ task[w].pc # "idle"
           /\ \/ Goto(w, [task[w] EXCEPT !.pc = "enterttl"])
              \/ Goto(w, [task[w] EXCEPT !.pc = "last"])
    BY <1>7 DEF Fail, RedisFails
  <2>3. NoNewDelete
    BY <2>2, NotToDelete
  <2> QED
    BY <1>0, <2>1, <2>3
<1>8. CASE Crash
  BY <1>0, <1>8 DEF Crash, NoNewDelete, Idle
<1>9. ASSUME NEW a \in Accounts, NEW c \in Names, CacheExpires(a, c) PROVE Q
  BY <1>0, <1>9 DEF CacheExpires, NoNewDelete
<1> QED
  BY <1>1, <1>2, <1>3, <1>4, <1>5, <1>6, <1>7, <1>8, <1>9
     DEF Next, CharacterRequest, LoginStep

\* Sets of deleting workers are finite, and a step changes their number by one.
LEMMA DeletingSize ==
  ASSUME NEW a, NEW c
  PROVE  /\ Cardinality(Deleting(a, c)) \in Nat
         /\ Deleting(a, c)' \subseteq Deleting(a, c)
              => Cardinality(Deleting(a, c)') \in Nat /\ Cardinality(Deleting(a, c)') <= Cardinality(Deleting(a, c))
         /\ \A w : Deleting(a, c)' \subseteq Deleting(a, c) \cup {w}
              => Cardinality(Deleting(a, c)') \in Nat /\ Cardinality(Deleting(a, c)') <= Cardinality(Deleting(a, c)) + 1
         /\ \A w \in Deleting(a, c) : Deleting(a, c)' \subseteq Deleting(a, c) \ {w}
              => Cardinality(Deleting(a, c)') \in Nat /\ Cardinality(Deleting(a, c)') <= Cardinality(Deleting(a, c)) - 1
<1> DEFINE D == Deleting(a, c)
<1> DEFINE E == Deleting(a, c)'
<1>1. IsFiniteSet(LoginWorkers)
  BY StoreAssumption
<1>2. D \subseteq LoginWorkers /\ E \subseteq LoginWorkers
  BY DEF Deleting
<1> HIDE DEF D, E
<1>3. IsFiniteSet(D) /\ IsFiniteSet(E)
  BY <1>1, <1>2, FS_Subset
<1>4. Cardinality(D) \in Nat /\ Cardinality(E) \in Nat
  BY <1>3, FS_CardinalityType
<1>5. E \subseteq D => Cardinality(E) <= Cardinality(D)
  BY <1>3, FS_Subset
<1>6. ASSUME NEW w, E \subseteq D \cup {w} PROVE Cardinality(E) <= Cardinality(D) + 1
  <2>1. /\ IsFiniteSet(D \cup {w})
        /\ Cardinality(D \cup {w}) = IF w \in D THEN Cardinality(D) ELSE Cardinality(D) + 1
    BY <1>3, FS_AddElement
  <2>2. Cardinality(E) <= Cardinality(D \cup {w})
    BY <1>6, <2>1, FS_Subset
  <2> QED
    BY <1>4, <2>1, <2>2
<1>7. ASSUME NEW w \in D, E \subseteq D \ {w} PROVE Cardinality(E) <= Cardinality(D) - 1
  <2>1. IsFiniteSet(D \ {w}) /\ Cardinality(D \ {w}) = Cardinality(D) - 1
    BY <1>3, FS_RemoveElement
  <2>2. Cardinality(E) <= Cardinality(D \ {w})
    BY <1>7, <2>1, FS_Subset
  <2> QED
    BY <1>4, <2>1, <2>2
<1> QED
  BY <1>4, <1>5, <1>6, <1>7 DEF D, E

\* The strengthening that makes ListedHasDocument inductive.
DocumentsInv == DeletersKnown /\ ListedHasDocument

\* A step that adds no pending delete and takes neither a document nor an array's room.
LEMMA QuietDocuments ==
  ASSUME TypeOK, DocumentsInv, NoNewDelete,
         \A a \in Accounts : \A c \in Names :
           /\ Len(docs'[a][c]) = Len(docs[a][c])
           /\ a # c => listed'[a][c] <= listed[a][c],
         \A a \in Accounts : \A c \in Names : listed'[a][c] \in Nat
  PROVE  DocumentsInv'
<1>1. DeletersKnown'
  BY DEF DocumentsInv, DeletersKnown, NoNewDelete
<1>2. ASSUME NEW a \in Accounts, NEW c \in Names \ {a}
      PROVE  Len(docs'[a][c]) >= listed'[a][c] + Cardinality(Deleting(a, c)')
  <2>1. \A w \in LoginWorkers : task'[w] = Task("delete", a, c, 0) => task[w] = Task("delete", a, c, 0)
    <3>1. Task("delete", a, c, 0).pc = "delete"
      BY DEF Task
    <3> QED
      BY <3>1 DEF NoNewDelete, Workers
  <2>2. Deleting(a, c)' \subseteq Deleting(a, c)
    BY <2>1 DEF Deleting
  <2> DEFINE m == Cardinality(Deleting(a, c))
  <2> DEFINE n == Cardinality(Deleting(a, c)')
  <2>3. m \in Nat /\ n \in Nat /\ n <= m
    BY <2>2, DeletingSize
  <2>4. Len(docs[a][c]) >= listed[a][c] + m
    BY DEF DocumentsInv, ListedHasDocument
  <2>5. Len(docs[a][c]) \in Nat /\ listed[a][c] \in Nat
    BY DEF TypeOK
  <2>6. Len(docs'[a][c]) = Len(docs[a][c]) /\ listed'[a][c] <= listed[a][c] /\ listed'[a][c] \in Nat
    OBVIOUS
  <2> HIDE DEF m, n
  <2>7. Len(docs'[a][c]) >= listed'[a][c] + n
    BY <2>3, <2>4, <2>5, <2>6
  <2> QED
    BY <2>7 DEF n
<1> QED
  BY <1>1, <1>2 DEF DocumentsInv, ListedHasDocument

\* The transaction of a create adds a document with the element it adds.
LEMMA CreateDocuments ==
  ASSUME TypeOK, TypeOK', DocumentsInv, NEW w \in LoginWorkers, CreateTxn(w)
  PROVE  DocumentsInv'
<1> DEFINE x == task[w].a
<1> DEFINE y == task[w].c
<1>1. x = task[w].a /\ y = task[w].c /\ w \in Workers
  BY DEF Workers
<1> HIDE DEF x, y
<1>2. /\ x \in Accounts /\ y \in Names
      /\ \/ listed' = listed /\ docs' = docs
         \/ /\ Entry(docs, docs', x, y, Append(docs[x][y], 0))
            /\ listed' = listed \/ Entry(listed, listed', x, y, listed[x][y] + 1)
  BY <1>1, CreateTxnFacts
<1>3. NoNewDelete
  BY <1>1, NotToDelete DEF CreateTxn
<1>4. DeletersKnown'
  BY <1>3 DEF DocumentsInv, DeletersKnown, NoNewDelete
<1>5. ASSUME NEW a \in Accounts, NEW c \in Names \ {a}
      PROVE  Len(docs'[a][c]) >= listed'[a][c] + Cardinality(Deleting(a, c)')
  <2>1. Task("delete", a, c, 0).pc = "delete"
    BY DEF Task
  <2>2. Deleting(a, c)' \subseteq Deleting(a, c)
    BY <1>3, <2>1 DEF Deleting, NoNewDelete, Workers
  <2> DEFINE m == Cardinality(Deleting(a, c))
  <2> DEFINE n == Cardinality(Deleting(a, c)')
  <2>3. m \in Nat /\ n \in Nat /\ n <= m
    BY <2>2, DeletingSize
  <2>4. Len(docs[a][c]) >= listed[a][c] + m
    BY DEF DocumentsInv, ListedHasDocument
  <2>5. Len(docs[a][c]) \in Nat /\ listed[a][c] \in Nat /\ docs[a][c] \in Seq(Nat)
    BY DEF TypeOK
  <2>6. Len(Append(docs[a][c], 0)) = Len(docs[a][c]) + 1
    BY <2>5, DocFacts
  <2>7. \/ listed'[a][c] = listed[a][c] /\ Len(docs'[a][c]) = Len(docs[a][c])
        \/ /\ listed'[a][c] = listed[a][c] \/ listed'[a][c] = listed[a][c] + 1
           /\ Len(docs'[a][c]) = Len(docs[a][c]) + 1
    <3>1. CASE listed' = listed /\ docs' = docs
      BY <3>1
    <3>2. CASE /\ Entry(docs, docs', x, y, Append(docs[x][y], 0))
               /\ listed' = listed \/ Entry(listed, listed', x, y, listed[x][y] + 1)
      <4>1. CASE a = x /\ c = y
        BY <2>6, <3>2, <4>1 DEF Entry
      <4>2. CASE a # x \/ c # y
        BY <3>2, <4>2 DEF Entry
      <4> QED
        BY <4>1, <4>2
    <3> QED
      BY <1>2, <3>1, <3>2
  <2> HIDE DEF m, n
  <2>8. Len(docs'[a][c]) >= listed'[a][c] + n
    <3>1. \A i, j, k, l, p, q \in Nat :
            i >= j + p /\ q <= p /\ ((k = i /\ l = j) \/ (k = i + 1 /\ (l = j \/ l = j + 1))) => k >= l + q
      OBVIOUS
    <3>2. Len(docs'[a][c]) \in Nat /\ listed'[a][c] \in Nat
      BY <2>5, <2>7
    <3> QED
      BY <2>3, <2>4, <2>5, <2>7, <3>1, <3>2
  <2> QED
    BY <2>8 DEF n
<1> QED
  BY <1>4, <1>5 DEF DocumentsInv, ListedHasDocument

\* The first write of a delete: the elements it takes outnumber the worker it adds.
LEMMA PullDocuments ==
  ASSUME TypeOK, DocumentsInv, NEW w \in LoginWorkers, NEW x \in Accounts, NEW y \in Names,
         RemovePull(w, x, y)
  PROVE  DocumentsInv'
<1>1. /\ x # y /\ task[w] = Idle /\ listed[x][y] > 0
      /\ listed' = [listed EXCEPT ![x][y] = 0] /\ docs' = docs
      /\ Goto(w, Task("delete", x, y, 0)) /\ w \in Workers
  BY DEF RemovePull, Free, HasCharacter, Workers
<1> DEFINE t == Task("delete", x, y, 0)
<1>2. t \in Busy /\ t.pc = "delete" /\ t.a = x /\ t.c = y
  BY NewTask
<1>3. t = Task("delete", t.a, t.c, 0)
  BY <1>2
<1> HIDE DEF t
<1>4. task'[w] = t /\ \A v \in Workers \ {w} : task'[v] = task[v]
  BY <1>1, <1>2, GotoFacts DEF t
<1>5. DeletersKnown'
  BY <1>1, <1>2, <1>3, <1>4 DEF DocumentsInv, DeletersKnown
<1>6. ASSUME NEW a \in Accounts, NEW c \in Names \ {a}
      PROVE  Len(docs'[a][c]) >= listed'[a][c] + Cardinality(Deleting(a, c)')
  <2> DEFINE m == Cardinality(Deleting(a, c))
  <2> DEFINE n == Cardinality(Deleting(a, c)')
  <2>1. Len(docs[a][c]) >= listed[a][c] + m
    BY DEF DocumentsInv, ListedHasDocument
  <2>2. Len(docs[a][c]) \in Nat /\ listed[a][c] \in Nat
    BY DEF TypeOK
  <2>3. CASE a = x /\ c = y
    <3>1. listed'[a][c] = 0 /\ listed[a][c] >= 1
      BY <1>1, <2>2, <2>3 DEF TypeOK
    <3>2. Deleting(a, c)' \subseteq Deleting(a, c) \cup {w}
      BY <1>4 DEF Deleting, Workers
    <3>3. m \in Nat /\ n \in Nat /\ n <= m + 1
      BY <3>2, DeletingSize
    <3> HIDE DEF m, n
    <3>4. Len(docs'[a][c]) >= listed'[a][c] + n
      BY <1>1, <2>1, <2>2, <3>1, <3>3
    <3> QED
      BY <3>4 DEF n
  <2>4. CASE a # x \/ c # y
    <3>1. listed'[a][c] = listed[a][c]
      BY <1>1, <2>4 DEF TypeOK
    <3>2. t # Task("delete", a, c, 0)
      BY <1>2, <2>4 DEF Task
    <3>3. Deleting(a, c)' \subseteq Deleting(a, c)
      BY <1>4, <3>2 DEF Deleting, Workers
    <3>4. m \in Nat /\ n \in Nat /\ n <= m
      BY <3>3, DeletingSize
    <3> HIDE DEF m, n
    <3>5. Len(docs'[a][c]) >= listed'[a][c] + n
      BY <1>1, <2>1, <2>2, <3>1, <3>4
    <3> QED
      BY <3>5 DEF n
  <2> QED
    BY <2>3, <2>4
<1> QED
  BY <1>5, <1>6 DEF DocumentsInv, ListedHasDocument

\* The second write of a delete: the document goes with the worker that was counted.
LEMMA DeleteDocuments ==
  ASSUME TypeOK, DocumentsInv, NEW w \in LoginWorkers, RemoveDelete(w)
  PROVE  DocumentsInv'
<1> DEFINE x == task[w].a
<1> DEFINE y == task[w].c
<1>1. /\ x = task[w].a /\ y = task[w].c /\ w \in Workers
      /\ task[w].pc = "delete" /\ Goto(w, Idle) /\ listed' = listed
  BY DEF Workers, RemoveDelete
<1>2. task[w] = Task("delete", x, y, 0)
  BY <1>1 DEF DocumentsInv, DeletersKnown
<1> HIDE DEF x, y
<1>3. /\ x \in Accounts /\ y \in Names
      /\ Entry(docs, docs', x, y, IF docs[x][y] = <<>> THEN <<>> ELSE Tail(docs[x][y]))
  BY <1>1, RemoveDeleteFacts
<1>4. NoNewDelete
  BY <1>1, NotToDelete
<1>5. DeletersKnown'
  BY <1>4 DEF DocumentsInv, DeletersKnown, NoNewDelete
<1>6. task'[w] = Idle
  BY <1>1, GotoFacts
<1>7. ASSUME NEW a \in Accounts, NEW c \in Names \ {a}
      PROVE  Len(docs'[a][c]) >= listed'[a][c] + Cardinality(Deleting(a, c)')
  <2> DEFINE m == Cardinality(Deleting(a, c))
  <2> DEFINE n == Cardinality(Deleting(a, c)')
  <2>1. Len(docs[a][c]) >= listed[a][c] + m
    BY DEF DocumentsInv, ListedHasDocument
  <2>2. Len(docs[a][c]) \in Nat /\ listed[a][c] \in Nat /\ docs[a][c] \in Seq(Nat)
    BY DEF TypeOK
  <2>3. Task("delete", a, c, 0).pc = "delete"
    BY DEF Task
  <2>4. Deleting(a, c)' \subseteq Deleting(a, c)
    BY <1>4, <2>3 DEF Deleting, NoNewDelete, Workers
  <2>5. CASE a = x /\ c = y
    <3>1. w \in Deleting(a, c)
      BY <1>2, <2>5 DEF Deleting
    <3>2. w \notin Deleting(a, c)'
      BY <1>6, <2>3 DEF Deleting, Idle
    <3>3. Deleting(a, c)' \subseteq Deleting(a, c) \ {w}
      BY <2>4, <3>2
    <3>4. m \in Nat /\ n \in Nat /\ n <= m - 1
      BY <3>1, <3>3, DeletingSize
    <3>5. docs[a][c] # <<>>
      <4> HIDE DEF m
      <4>1. Len(docs[a][c]) >= 1
        BY <2>1, <2>2, <3>4
      <4> QED
        BY <4>1
    <3>6. docs'[a][c] = Tail(docs[a][c])
      BY <1>3, <2>5, <3>5 DEF Entry
    <3>7. Len(Tail(docs[a][c])) = Len(docs[a][c]) - 1
      BY <2>2, <3>5, DocFacts
    <3>8. listed'[a][c] = listed[a][c]
      BY <1>1
    <3>9. Len(docs'[a][c]) = Len(docs[a][c]) - 1 /\ Len(docs[a][c]) \in Nat /\ listed[a][c] \in Nat
      BY <2>2, <3>6, <3>7
    <3> HIDE DEF m, n
    <3>10. \A i, j, k, l, p, q \in Nat :
            i >= j + p /\ q <= p - 1 /\ k = i - 1 /\ l = j => k >= l + q
      OBVIOUS
    <3>11. Len(docs'[a][c]) \in Nat /\ listed'[a][c] \in Nat
      BY <3>5, <3>8, <3>9, <2>2
    <3>12. Len(docs'[a][c]) >= listed'[a][c] + n
      BY <2>1, <3>4, <3>8, <3>9, <3>10, <3>11
    <3> QED
      BY <3>12 DEF n
  <2>6. CASE a # x \/ c # y
    <3>1. docs'[a][c] = docs[a][c]
      BY <1>3, <2>6 DEF Entry
    <3>2. m \in Nat /\ n \in Nat /\ n <= m
      BY <2>4, DeletingSize
    <3> HIDE DEF m, n
    <3>3. Len(docs'[a][c]) >= listed'[a][c] + n
      BY <1>1, <2>1, <2>2, <3>1, <3>2
    <3> QED
      BY <3>3 DEF n
  <2> QED
    BY <2>5, <2>6
<1> QED
  BY <1>5, <1>7 DEF DocumentsInv, ListedHasDocument

\* A character an account lists has a document, although the two writes of
\* removeCharacter are not one transaction: a pending delete still owns one of
\* the documents, and the others are enough for the elements.
THEOREM ListedCharactersExist == Spec => []ListedHasDocument
<1>1. Init => DocumentsInv
  <2> SUFFICES ASSUME Init PROVE DocumentsInv
    OBVIOUS
  <2>1. \A w \in Workers : task[w] = Idle
    BY DEF Init
  <2>2. DeletersKnown
    BY <2>1 DEF DeletersKnown, Idle
  <2>3. ASSUME NEW a \in Accounts, NEW c \in Names \ {a}
        PROVE  Len(docs[a][c]) >= listed[a][c] + Cardinality(Deleting(a, c))
    <3>1. Deleting(a, c) = {}
      BY <2>1 DEF Deleting, Workers, Idle, Task
    <3>2. Cardinality({}) = 0
      BY FS_EmptySet
    <3>3. docs[a][c] = <<>> /\ listed[a][c] = 0
      BY DEF Init
    <3> QED
      BY <3>1, <3>2, <3>3
  <2> QED
    BY <2>2, <2>3 DEF DocumentsInv, ListedHasDocument
<1>2. AccountInv /\ AccountInv' /\ DocumentsInv /\ [Next]_vars => DocumentsInv'
  <2> SUFFICES ASSUME AccountInv, AccountInv', DocumentsInv, [Next]_vars PROVE DocumentsInv'
    OBVIOUS
  <2>1. TypeOK /\ TypeOK'
    BY DEF AccountInv
  <2>2. \A a \in Accounts : \A c \in Names : listed'[a][c] \in Nat
    BY <2>1 DEF TypeOK
  <2> QED
    BY <2>1, <2>2, DocumentStep, QuietDocuments, CreateDocuments, PullDocuments, DeleteDocuments
<1>3. DocumentsInv => ListedHasDocument
  BY DEF DocumentsInv
<1> QED
  BY <1>1, <1>2, <1>3, PlaceholdersStay, PTL DEF Spec

-----------------------------------------------------------------------------
(* The cache is not older than the document *)

\* A worker is at one of these places with character c of a.
At(w, pcs, a, c) == task[w].pc \in pcs /\ task[w].a = a /\ task[w].c = c

\* While entering and uploading do not overlap: what a worker read to fill the
\* cache with is not older than the document, and no upload under way is newer
\* than the hash.
Newer(a, c) ==
  /\ cache[a][c].set /\ docs[a][c] # <<>> => cache[a][c].d >= Head(docs[a][c])
  /\ \A w \in Workers :
       At(w, Entering, a, c) /\ docs[a][c] # <<>> => task[w].d >= Head(docs[a][c])
  /\ \A w \in Workers : At(w, Uploading, a, c) /\ cache[a][c].set => cache[a][c].d >= task[w].d
  /\ \A w, v \in Workers : ~(At(w, Entering, a, c) /\ At(v, Uploading, a, c))

\* No document and no upload under way is ahead of the latest upload that the
\* cache was given.
Counted(a, c) ==
  /\ docs[a][c] # <<>> => Head(docs[a][c]) <= written[a][c]
  /\ \A w \in Workers : At(w, Uploading, a, c) => task[w].d <= written[a][c]

\* A hash that will not expire holds that upload.
Current(a, c) ==
  cache[a][c].set /\ ~cache[a][c].ttl /\ <<a, c>> \notin Unexpiring(Workers)
    => cache[a][c].d = written[a][c]

\* The inductive invariant of one character: only its oldest document is ever
\* written, and the rest while its uploads reach the cache in order.
PairInv(a, c) ==
  /\ \A i \in 2..Len(docs[a][c]) : docs[a][c][i] = 0
  /\ <<a, c>> \notin spoilt =>
       /\ Counted(a, c)
       /\ Current(a, c)
       /\ <<a, c>> \notin overlap => Newer(a, c)

\* No worker begins to enter with, or to upload, the character in this step.
Fades(a, c) ==
  \A v \in Workers :
    /\ At(v, Entering, a, c)' => At(v, Entering, a, c) /\ task'[v].d = task[v].d
    /\ At(v, Uploading, a, c)' => At(v, Uploading, a, c) /\ task'[v].d = task[v].d

\* A filled hash without a TTL does not lose the worker that is to give it one,
\* unless it has the TTL then, or is gone, or it is noted.
Marked(a, c) ==
  <<a, c>> \in Unexpiring(Workers) =>
    \/ <<a, c>> \in Unexpiring(Workers)'
    \/ <<a, c>> \in spoilt'
    \/ ~cache'[a][c].set
    \/ cache'[a][c].ttl

\* A worker with a character has a task, with a number.
LEMMA AtBusy ==
  ASSUME TypeOK, NEW w \in Workers, NEW a, NEW c,
         At(w, Entering, a, c) \/ At(w, Uploading, a, c)
  PROVE  task[w] \in Busy /\ task[w].d \in Nat
<1>1. task[w].pc # "idle"
  BY DEF At, Entering, Uploading
<1> QED
  BY <1>1, BusyTask

\* The document, the count and the tasks of the character stay; the hash stays,
\* goes or gets a TTL.
LEMMA PairStays ==
  ASSUME NEW a \in Accounts, NEW c \in Names, PairInv(a, c), Fades(a, c), Marked(a, c),
         docs'[a][c] = docs[a][c], written'[a][c] = written[a][c],
         cache'[a][c].set => /\ cache[a][c].set /\ cache'[a][c].d = cache[a][c].d
                             /\ cache[a][c].ttl => cache'[a][c].ttl,
         <<a, c>> \notin overlap' => <<a, c>> \notin overlap,
         <<a, c>> \notin spoilt' => <<a, c>> \notin spoilt
  PROVE  PairInv(a, c)'
<1>1. ASSUME <<a, c>> \notin spoilt'
      PROVE  Counted(a, c)' /\ Current(a, c)' /\ (<<a, c>> \notin overlap' => Newer(a, c)')
  <2>1. Counted(a, c) /\ Current(a, c) /\ (<<a, c>> \notin overlap => Newer(a, c))
    BY <1>1 DEF PairInv
  <2>2. Counted(a, c)'
    BY <2>1 DEF Counted, Fades
  <2>3. Current(a, c)'
    BY <1>1, <2>1 DEF Current, Marked
  <2>4. ASSUME <<a, c>> \notin overlap' PROVE Newer(a, c)'
    <3>1. Newer(a, c)
      BY <2>1, <2>4
    <3> QED
      BY <3>1 DEF Newer, Fades
  <2> QED
    BY <2>2, <2>3, <2>4
<1>2. \A i \in 2..Len(docs'[a][c]) : docs'[a][c][i] = 0
  BY DEF PairInv
<1> QED
  BY <1>1, <1>2 DEF PairInv

\* The documents of the character change, and the first is new, as it was, or the
\* data of an upload under way.
LEMMA PairWritten ==
  ASSUME TypeOK, NEW a \in Accounts, NEW c \in Names, PairInv(a, c), Fades(a, c), Marked(a, c),
         UNCHANGED <<cache, written, overlap, spoilt>>,
         docs'[a][c] \in Seq(Nat),
         \A i \in 2..Len(docs'[a][c]) : docs'[a][c][i] = 0,
         docs'[a][c] # <<>> =>
           \/ Head(docs'[a][c]) = 0
           \/ docs[a][c] # <<>> /\ Head(docs'[a][c]) = Head(docs[a][c])
           \/ \E w \in Workers : At(w, Uploading, a, c) /\ Head(docs'[a][c]) = task[w].d
  PROVE  PairInv(a, c)'
<1>1. written[a][c] \in Nat /\ cache[a][c].d \in Nat
  BY DEF TypeOK
<1>2. ASSUME <<a, c>> \notin spoilt' PROVE Counted(a, c)' /\ Current(a, c)'
  <2>1. Counted(a, c) /\ Current(a, c)
    BY <1>2 DEF PairInv
  <2>2. docs'[a][c] # <<>> => Head(docs'[a][c]) <= written[a][c]
    BY <1>1, <2>1 DEF Counted
  <2>3. Counted(a, c)'
    BY <2>1, <2>2 DEF Counted, Fades
  <2>4. Current(a, c)'
    BY <1>2, <2>1 DEF Current, Marked
  <2> QED
    BY <2>3, <2>4
<1>3. ASSUME <<a, c>> \notin spoilt', <<a, c>> \notin overlap' PROVE Newer(a, c)'
  <2>1. Newer(a, c)
    BY <1>3 DEF PairInv
  <2>2. ASSUME cache[a][c].set, docs'[a][c] # <<>> PROVE cache[a][c].d >= Head(docs'[a][c])
    BY <1>1, <2>1, <2>2 DEF Newer
  <2>3. ASSUME NEW v \in Workers, At(v, Entering, a, c)', docs'[a][c] # <<>>
        PROVE  task'[v].d >= Head(docs'[a][c])
    <3>1. At(v, Entering, a, c) /\ task'[v].d = task[v].d
      BY <2>3 DEF Fades
    <3>2. task[v].d \in Nat
      BY <3>1, AtBusy
    <3> QED
      BY <2>1, <2>3, <3>1, <3>2 DEF Newer
  <2>4. /\ \A v \in Workers : At(v, Uploading, a, c)' /\ cache[a][c].set => cache[a][c].d >= task'[v].d
        /\ \A w, v \in Workers : ~(At(w, Entering, a, c)' /\ At(v, Uploading, a, c)')
    BY <2>1 DEF Newer, Fades
  <2> QED
    BY <2>2, <2>3, <2>4 DEF Newer
<1> QED
  BY <1>2, <1>3 DEF PairInv

\* One worker's step loses no mark but its own.
LEMMA MarkedGoto ==
  ASSUME TypeOK, NEW w \in Workers, NEW t, Goto(w, t), NEW a, NEW c,
         At(w, {"enterttl"}, a, c) =>
           <<a, c>> \in spoilt' \/ ~cache'[a][c].set \/ cache'[a][c].ttl
  PROVE  Marked(a, c)
<1> SUFFICES ASSUME NEW v \in Workers, At(v, {"enterttl"}, a, c), v # w
             PROVE  <<a, c>> \in Unexpiring(Workers)'
  BY DEF Marked, Unexpiring, At
<1>1. task'[v] = task[v]
  BY DEF Goto, TypeOK
<1> QED
  BY <1>1 DEF Unexpiring, At

\* A worker goes to a place that is no new entering and no new upload of the character.
LEMMA FadesGoto ==
  ASSUME TypeOK, NEW w \in Workers, NEW t \in Busy \cup {Idle}, Goto(w, t), NEW a, NEW c,
         t.pc \in Entering \cup Uploading /\ t.a = a /\ t.c = c =>
           /\ task[w].a = a /\ task[w].c = c /\ t.d = task[w].d
           /\ t.pc \in Entering => task[w].pc \in Entering
           /\ t.pc \in Uploading => task[w].pc \in Uploading
  PROVE  Fades(a, c)
<1>1. task'[w] = t /\ \A v \in Workers \ {w} : task'[v] = task[v]
  BY GotoFacts
<1> QED
  BY <1>1 DEF Fades, At

\* A worker is done, or its task moves on.
LEMMA FadesOn ==
  ASSUME TypeOK, NEW w \in Workers, NEW a, NEW c,
         \/ Goto(w, Idle)
         \/ task[w].pc = "enter" /\ Goto(w, [task[w] EXCEPT !.pc = "fill"])
         \/ task[w].pc = "fill" /\ Goto(w, [task[w] EXCEPT !.pc = "enterttl"])
         \/ task[w].pc = "lastttl" /\ Goto(w, [task[w] EXCEPT !.pc = "last"])
         \/ task[w].pc = "last" /\ Goto(w, [task[w] EXCEPT !.pc = "lastupdate"])
         \/ task[w].pc = "upload" /\ Goto(w, [task[w] EXCEPT !.pc = "update"])
  PROVE  Fades(a, c)
<1>1. CASE Goto(w, Idle)
  <2>1. Idle \in Busy \cup {Idle} /\ Idle.pc \notin Entering \cup Uploading
    BY DEF Idle, Entering, Uploading
  <2> QED
    BY <1>1, <2>1, FadesGoto
<1>2. ASSUME task[w].pc # "idle", NEW p \in {"fill", "enterttl", "last", "update", "lastupdate"},
             Goto(w, [task[w] EXCEPT !.pc = p]),
             p \in Entering => task[w].pc \in Entering,
             p \in Uploading => task[w].pc \in Uploading
      PROVE  Fades(a, c)
  <2> DEFINE u == [task[w] EXCEPT !.pc = p]
  <2>1. task[w] \in Busy
    BY <1>2, BusyTask
  <2>2. u \in Busy /\ u.pc = p /\ u.a = task[w].a /\ u.c = task[w].c /\ u.d = task[w].d
    BY <2>1, MovedTask
  <2>3. Goto(w, u)
    BY <1>2
  <2> HIDE DEF u
  <2> QED
    BY <1>2, <2>2, <2>3, FadesGoto
<1> QED
  BY <1>1, <1>2 DEF Entering, Uploading

\* A worker begins with something else.
LEMMA FadesOther ==
  ASSUME TypeOK, NEW w \in Workers, NEW x \in Accounts, NEW y \in Names, NEW d \in Nat,
         NEW p \in {"create", "delete", "enter", "lastpulled", "pulled"}, Goto(w, Task(p, x, y, d)),
         NEW a, NEW c, p # "enter" \/ x # a \/ y # c
  PROVE  Fades(a, c)
<1> DEFINE t == Task(p, x, y, d)
<1>1. t \in Busy /\ t.pc = p /\ t.a = x /\ t.c = y
  BY NewTask
<1>2. Goto(w, t)
  OBVIOUS
<1>3. p # "enter" => p \notin Entering \cup Uploading
  BY DEF Entering, Uploading
<1> HIDE DEF t
<1> QED
  BY <1>1, <1>2, <1>3, FadesGoto

\* Entering reads the document (EnterFind): if no upload is under way, what it
\* read is as new as the document.
LEMMA PairEntered ==
  ASSUME TypeOK, NEW w \in Workers, NEW a \in Accounts, NEW c \in Names, PairInv(a, c),
         EnterFind(w, a, c)
  PROVE  PairInv(a, c)'
<1>1. /\ docs[a][c] # <<>> /\ docs[a][c] \in Seq(Nat) /\ task[w] = Idle
      /\ UNCHANGED <<docs, cache, written, spoilt>>
  BY DEF EnterFind, Free, TypeOK
<1> DEFINE d == Head(docs[a][c])
<1> DEFINE t == Task("enter", a, c, d)
<1>2. d \in Nat
  BY <1>1, DocFacts
<1>3. t \in Busy /\ t.pc = "enter" /\ t.a = a /\ t.c = c /\ t.d = d
  BY <1>2, NewTask
<1>4. Goto(w, t)
  BY DEF EnterFind
<1> HIDE DEF t
<1>5. task'[w] = t /\ \A v \in Workers \ {w} : task'[v] = task[v]
  BY <1>3, <1>4, GotoFacts
<1>6. \A v \in Workers : At(v, Uploading, a, c)' => v # w /\ At(v, Uploading, a, c) /\ task'[v] = task[v]
  BY <1>3, <1>5 DEF At, Uploading
<1>7. \A v \in Workers : At(v, Entering, a, c)' =>
        task'[v].d = d \/ (At(v, Entering, a, c) /\ task'[v] = task[v])
  BY <1>3, <1>5 DEF At
<1>8. Marked(a, c)
  <2>1. ~At(w, {"enterttl"}, a, c)
    BY <1>1 DEF At, Idle
  <2> QED
    BY <1>4, <2>1, MarkedGoto
<1>9. ASSUME <<a, c>> \notin spoilt' PROVE Counted(a, c)' /\ Current(a, c)'
  <2>1. Counted(a, c) /\ Current(a, c)
    BY <1>1, <1>9 DEF PairInv
  <2>2. Counted(a, c)'
    BY <1>1, <1>6, <2>1 DEF Counted
  <2>3. Current(a, c)'
    BY <1>1, <1>8, <1>9, <2>1 DEF Current, Marked
  <2> QED
    BY <2>2, <2>3
<1>10. ASSUME <<a, c>> \notin spoilt', <<a, c>> \notin overlap' PROVE Newer(a, c)'
  <2>1. <<a, c>> \notin overlap /\ \A v \in Workers : ~At(v, Uploading, a, c)
    BY <1>10 DEF EnterFind, Overlaps, At
  <2>2. Newer(a, c)
    BY <1>1, <1>10, <2>1 DEF PairInv
  <2>3. \A v \in Workers : ~At(v, Uploading, a, c)'
    BY <1>6, <2>1
  <2>4. \A v \in Workers : At(v, Entering, a, c)' => task'[v].d >= d
    BY <1>1, <1>2, <1>7, <2>2 DEF Newer
  <2> QED
    BY <1>1, <2>2, <2>3, <2>4 DEF Newer
<1> QED
  BY <1>1, <1>9, <1>10 DEF PairInv

\* Where a worker is after the HSET of its upload.
LEMMA CachedFacts ==
  ASSUME TypeOK, NEW w \in Workers, task[w].pc \in Pulled, Cached(w)
  PROVE  \E t \in Busy :
           /\ Goto(w, t) /\ t.pc \in Uploading /\ t.pc \notin Entering
           /\ t.a = task[w].a /\ t.c = task[w].c /\ t.d = task[w].d
<1>1. task[w] \in Busy
  BY BusyTask DEF Pulled
<1>2. PICK p \in {"lastttl", "upload"} : Goto(w, [task[w] EXCEPT !.pc = p])
  BY <1>1 DEF Cached, Busy
<1> DEFINE u == [task[w] EXCEPT !.pc = p]
<1>3. /\ u \in Busy /\ u.pc = p
      /\ u.a = task[w].a /\ u.c = task[w].c /\ u.d = task[w].d
  BY <1>1, MovedTask
<1>4. Goto(w, u)
  BY <1>2
<1>5. p \in Uploading /\ p \notin Entering
  BY DEF Uploading, Entering
<1> HIDE DEF u
<1> QED
  BY <1>3, <1>4, <1>5

\* The HSET of an upload (UploadCache): if the cache has seen no later one, it has
\* the latest now.
LEMMA PairUploaded ==
  ASSUME TypeOK, NEW w \in Workers, NEW a \in Accounts, NEW c \in Names,
         a = task[w].a, c = task[w].c, PairInv(a, c), UploadCache(w)
  PROVE  PairInv(a, c)'
<1> DEFINE d == task[w].d
<1>1. task[w].pc \in Pulled /\ Cached(w) /\ docs' = docs
  BY DEF UploadCache
<1>2. d \in Nat /\ written[a][c] \in Nat /\ docs[a][c] \in Seq(Nat)
  <2>1. task[w].pc # "idle"
    BY <1>1 DEF Pulled
  <2>2. d \in Nat
    BY <2>1, BusyTask
  <2> QED
    BY <2>2 DEF TypeOK
<1>3. docs[a][c] # <<>> => Head(docs[a][c]) \in Nat
  BY <1>2, DocFacts
<1>4. PICK t \in Busy :
        /\ Goto(w, t) /\ t.pc \in Uploading /\ t.pc \notin Entering
        /\ t.a = a /\ t.c = c /\ t.d = d
  BY <1>1, CachedFacts
<1>5. task'[w] = t /\ \A v \in Workers \ {w} : task'[v] = task[v]
  BY <1>4, GotoFacts
<1>6. /\ cache' = [cache EXCEPT ![a][c] = Hset(cache[a][c], d)]
      /\ written' = [written EXCEPT ![a][c] = IF written[a][c] < d THEN d ELSE written[a][c]]
      /\ Overlaps(Entering, a, c)
      /\ spoilt' = IF d < written[a][c] THEN spoilt \cup {<<a, c>>} ELSE spoilt
  BY DEF UploadCache
<1>7. cache'[a][c].set /\ cache'[a][c].d = d
  <2> DEFINE h == Hset(cache[a][c], d)
  <2>1. cache[a][c] \in Hashes /\ (cache[a][c].ttl => cache[a][c].set)
    BY DEF TypeOK, Hashes
  <2>2. h \in Hashes /\ h.set /\ h.d = d
    BY <1>2, <2>1, HashFacts DEF Hashes
  <2>3. cache' = [cache EXCEPT ![a][c] = h]
    BY <1>6
  <2> HIDE DEF h
  <2>4. cache'[a][c] = h
    BY <2>3 DEF TypeOK
  <2> QED
    BY <2>2, <2>4
<1>8. written'[a][c] = IF written[a][c] < d THEN d ELSE written[a][c]
  BY <1>6 DEF TypeOK
<1> HIDE DEF d
<1>9. \A v \in Workers : At(v, Uploading, a, c)' =>
        task'[v].d = d \/ (At(v, Uploading, a, c) /\ task'[v].d = task[v].d)
  BY <1>4, <1>5 DEF At
<1>10. ASSUME <<a, c>> \notin spoilt'
       PROVE  Counted(a, c)' /\ Current(a, c)' /\ (<<a, c>> \notin overlap' => Newer(a, c)')
  <2>1. <<a, c>> \notin spoilt /\ ~(d < written[a][c])
    BY <1>6, <1>10
  <2>2. written'[a][c] = d /\ written[a][c] <= d
    BY <1>2, <1>8, <2>1
  <2>3. Counted(a, c)
    BY <2>1 DEF PairInv
  <2>4. docs[a][c] # <<>> => Head(docs[a][c]) <= d
    BY <1>2, <1>3, <2>2, <2>3 DEF Counted
  <2>5. ASSUME NEW v \in Workers, At(v, Uploading, a, c)' PROVE task'[v].d <= d /\ d >= task'[v].d
    <3>1. CASE task'[v].d = d
      BY <1>2, <3>1
    <3>2. CASE At(v, Uploading, a, c) /\ task'[v].d = task[v].d
      <4>1. task[v].d \in Nat
        BY <3>2, AtBusy
      <4> QED
        BY <1>2, <2>2, <2>3, <3>2, <4>1 DEF Counted
    <3> QED
      BY <1>9, <2>5, <3>1, <3>2
  <2>6. Counted(a, c)'
    BY <1>1, <2>2, <2>4, <2>5 DEF Counted
  <2>7. Current(a, c)'
    BY <1>7, <2>2 DEF Current
  <2>8. ASSUME <<a, c>> \notin overlap' PROVE Newer(a, c)'
    <3>1. \A v \in Workers : ~At(v, Entering, a, c)
      BY <1>6, <2>8 DEF Overlaps, At
    <3>2. \A v \in Workers : ~At(v, Entering, a, c)'
      BY <1>4, <1>5, <3>1 DEF At
    <3>3. docs[a][c] # <<>> => d >= Head(docs[a][c])
      BY <1>2, <1>3, <2>4
    <3> QED
      BY <1>1, <1>7, <2>5, <3>2, <3>3 DEF Newer
  <2> QED
    BY <2>6, <2>7, <2>8
<1> QED
  BY <1>1, <1>10 DEF PairInv

\* Entering fills the cache with what it read (EnterFill).
LEMMA PairFilled ==
  ASSUME TypeOK, NEW w \in Workers, NEW a \in Accounts, NEW c \in Names,
         a = task[w].a, c = task[w].c, PairInv(a, c), EnterFill(w)
  PROVE  PairInv(a, c)'
<1>1. /\ task[w].pc = "fill" /\ Goto(w, [task[w] EXCEPT !.pc = "enterttl"])
      /\ cache' = [cache EXCEPT ![a][c] = Hset(cache[a][c], task[w].d)]
      /\ UNCHANGED <<docs, written, overlap, spoilt>>
  BY DEF EnterFill
<1>2. Fades(a, c)
  BY <1>1, FadesOn
<1>3. At(w, Entering, a, c)
  BY <1>1 DEF At, Entering
<1>4. task[w].d \in Nat /\ task[w] \in Busy
  BY <1>3, AtBusy
<1> DEFINE h == Hset(cache[a][c], task[w].d)
<1>5. cache[a][c] \in Hashes /\ (cache[a][c].ttl => cache[a][c].set)
  BY DEF TypeOK, Hashes
<1>6. h \in Hashes /\ h.set /\ h.d = task[w].d /\ (h.ttl => h.set)
  BY <1>4, <1>5, HashFacts DEF Hashes
<1>7. cache' = [cache EXCEPT ![a][c] = h]
  BY <1>1
<1> HIDE DEF h
<1>8. cache'[a][c].d = task[w].d
  <2>1. cache'[a][c] = h
    BY <1>6, <1>7, CacheSet DEF Entry
  <2> QED
    BY <1>6, <2>1
<1>9. <<a, c>> \in Unexpiring(Workers)'
  <2> DEFINE u == [task[w] EXCEPT !.pc = "enterttl"]
  <2>1. u \in Busy /\ u.pc = "enterttl" /\ u.a = a /\ u.c = c
    BY <1>4, MovedTask
  <2>2. Goto(w, u)
    BY <1>1
  <2> HIDE DEF u
  <2>3. task'[w] = u
    BY <2>1, <2>2, GotoFacts
  <2> QED
    BY <2>1, <2>3 DEF Unexpiring
<1>10. ASSUME <<a, c>> \notin spoilt' PROVE Counted(a, c)' /\ Current(a, c)'
  <2>1. Counted(a, c)
    BY <1>1, <1>10 DEF PairInv
  <2> QED
    BY <1>1, <1>2, <1>9, <2>1 DEF Counted, Current, Fades
<1>11. ASSUME <<a, c>> \notin spoilt', <<a, c>> \notin overlap' PROVE Newer(a, c)'
  <2>1. Newer(a, c)
    BY <1>1, <1>11 DEF PairInv
  <2>2. \A v \in Workers : ~At(v, Uploading, a, c)
    BY <1>3, <2>1 DEF Newer
  <2>3. docs[a][c] # <<>> => task[w].d >= Head(docs[a][c])
    BY <1>3, <2>1 DEF Newer
  <2> QED
    BY <1>1, <1>2, <1>8, <2>1, <2>2, <2>3 DEF Newer, Fades
<1> QED
  BY <1>1, <1>10, <1>11 DEF PairInv

\* Every step keeps the invariant of every character.
LEMMA PairStep ==
  ASSUME TypeOK, TypeOK', [Next]_vars, NEW a \in Accounts, NEW c \in Names, PairInv(a, c)
  PROVE  PairInv(a, c)'
<1>0. /\ \A w \in LoginWorkers : w \in Workers
      /\ \A w \in GameWorkers : w \in Workers
      /\ docs[a][c] \in Seq(Nat) /\ docs'[a][c] \in Seq(Nat)
  BY DEF TypeOK, Workers
<1>1. CASE UNCHANGED vars
  <2>1. UNCHANGED <<docs, cache, task, written, overlap, spoilt>>
    BY <1>1 DEF vars
  <2>2. Fades(a, c) /\ Marked(a, c)
    BY <2>1 DEF Fades, Marked, At, Unexpiring
  <2> QED
    BY <2>1, <2>2, PairStays
<1>2. ASSUME NEW w \in LoginWorkers, NEW b \in Accounts, LoginRequest(w, b) PROVE PairInv(a, c)'
  <2>1. UNCHANGED <<docs, cache, task, written, overlap, spoilt>>
    BY <1>2 DEF LoginRequest, Register, Login
  <2>2. Fades(a, c) /\ Marked(a, c)
    BY <2>1 DEF Fades, Marked, At, Unexpiring
  <2> QED
    BY <2>1, <2>2, PairStays
<1>3. ASSUME NEW w \in LoginWorkers, NEW b \in Accounts, NEW e \in Names,
             CreateFind(w, b, e) \/ RemovePull(w, b, e)
      PROVE  PairInv(a, c)'
  <2>1. task[w] = Idle /\ UNCHANGED <<docs, cache, written, overlap, spoilt>>
    BY <1>3 DEF CreateFind, RemovePull, Free
  <2>2. \E p \in {"create", "delete"} : Goto(w, Task(p, b, e, 0))
    BY <1>3 DEF CreateFind, RemovePull
  <2>3. Fades(a, c)
    BY <1>0, <2>2, FadesOther
  <2>4. ~At(w, {"enterttl"}, a, c)
    BY <2>1 DEF At, Idle
  <2>5. Marked(a, c)
    BY <1>0, <2>2, <2>4, MarkedGoto
  <2> QED
    BY <2>1, <2>3, <2>5, PairStays
<1>4. ASSUME NEW w \in LoginWorkers, NEW b \in Accounts, NEW e \in Names, EnterFind(w, b, e)
      PROVE  PairInv(a, c)'
  <2>1. CASE b = a /\ e = c
    BY <1>0, <1>4, <2>1, PairEntered
  <2>2. CASE b # a \/ e # c
    <3>1. /\ task[w] = Idle /\ UNCHANGED <<docs, cache, written, spoilt>>
          /\ overlap \subseteq overlap'
      BY <1>4 DEF EnterFind, Overlaps, Free
    <3>2. docs[b][e] \in Seq(Nat) /\ docs[b][e] # <<>>
      BY <1>4 DEF TypeOK, EnterFind
    <3>3. Head(docs[b][e]) \in Nat
      BY <3>2, DocFacts
    <3>4. Goto(w, Task("enter", b, e, Head(docs[b][e])))
      BY <1>4 DEF EnterFind
    <3>5. Fades(a, c)
      BY <1>0, <2>2, <3>3, <3>4, FadesOther
    <3>6. ~At(w, {"enterttl"}, a, c)
      BY <3>1 DEF At, Idle
    <3>7. Marked(a, c)
      BY <1>0, <3>4, <3>6, MarkedGoto
    <3> QED
      BY <3>1, <3>5, <3>7, PairStays
  <2> QED
    BY <2>1, <2>2
<1>5. ASSUME NEW w \in LoginWorkers, CreateTxn(w) PROVE PairInv(a, c)'
  <2> DEFINE x == task[w].a
  <2> DEFINE y == task[w].c
  <2>1. /\ x = task[w].a /\ y = task[w].c /\ Goto(w, Idle) /\ task[w].pc = "create"
        /\ UNCHANGED <<cache, written, overlap, spoilt>>
    BY <1>5 DEF CreateTxn
  <2> HIDE DEF x, y
  <2>2. docs' = docs \/ Entry(docs, docs', x, y, Append(docs[x][y], 0))
    BY <1>0, <1>5, <2>1, CreateTxnFacts
  <2>3. Fades(a, c)
    BY <1>0, <2>1, FadesOn
  <2>4. Marked(a, c)
    <3>1. ~At(w, {"enterttl"}, a, c)
      BY <2>1 DEF At, Uploading
    <3> QED
      BY <1>0, <2>1, <3>1, MarkedGoto
  <2>5. CASE docs'[a][c] = docs[a][c]
    BY <2>1, <2>3, <2>4, <2>5, PairStays
  <2>6. CASE docs'[a][c] = Append(docs[a][c], 0)
    <3> DEFINE s == docs[a][c]
    <3> DEFINE r == docs'[a][c]
    <3>1. /\ r = Append(s, 0) /\ s \in Seq(Nat)
          /\ \A i \in 2..Len(s) : s[i] = 0
      BY <1>0, <2>6 DEF PairInv
    <3> HIDE DEF s, r
    <3>2. /\ Len(r) = Len(s) + 1 /\ Head(r) = (IF s = <<>> THEN 0 ELSE Head(s))
          /\ r[Len(s) + 1] = 0 /\ \A i \in 1..Len(s) : r[i] = s[i]
      BY <3>1, DocFacts
    <3>3. \A i \in 2..Len(r) : r[i] = 0
      BY <3>1, <3>2
    <3>4. r # <<>> => Head(r) = 0 \/ (s # <<>> /\ Head(r) = Head(s))
      BY <3>2
    <3> QED
      BY <1>0, <2>1, <2>3, <2>4, <3>3, <3>4, PairWritten DEF s, r
  <2> QED
    BY <2>2, <2>5, <2>6 DEF Entry
<1>6. ASSUME NEW w \in LoginWorkers, RemoveDelete(w) PROVE PairInv(a, c)'
  <2> DEFINE x == task[w].a
  <2> DEFINE y == task[w].c
  <2>1. /\ x = task[w].a /\ y = task[w].c /\ Goto(w, Idle) /\ task[w].pc = "delete"
        /\ UNCHANGED <<cache, written, overlap, spoilt>>
    BY <1>6 DEF RemoveDelete
  <2> HIDE DEF x, y
  <2>2. Entry(docs, docs', x, y, IF docs[x][y] = <<>> THEN <<>> ELSE Tail(docs[x][y]))
    BY <1>0, <1>6, <2>1, RemoveDeleteFacts
  <2>3. Fades(a, c)
    BY <1>0, <2>1, FadesOn
  <2>4. Marked(a, c)
    <3>1. ~At(w, {"enterttl"}, a, c)
      BY <2>1 DEF At, Uploading
    <3> QED
      BY <1>0, <2>1, <3>1, MarkedGoto
  <2>5. CASE docs'[a][c] = docs[a][c]
    BY <2>1, <2>3, <2>4, <2>5, PairStays
  <2>6. CASE docs[a][c] # <<>> /\ docs'[a][c] = Tail(docs[a][c])
    <3> DEFINE s == docs[a][c]
    <3> DEFINE r == docs'[a][c]
    <3>1. /\ s # <<>> /\ r = Tail(s) /\ s \in Seq(Nat)
          /\ \A i \in 2..Len(s) : s[i] = 0
      BY <1>0, <2>6 DEF PairInv
    <3> HIDE DEF s, r
    <3>2. /\ Len(s) \in Nat \ {0} /\ Len(r) = Len(s) - 1
          /\ \A i \in 1..Len(s) - 1 : r[i] = s[i + 1]
          /\ r # <<>> => Len(s) >= 2 /\ Head(r) = s[2]
      BY <3>1, DocFacts
    <3>3. \A i \in 2..Len(r) : r[i] = 0
      BY <3>1, <3>2
    <3>4. r # <<>> => Head(r) = 0
      BY <3>1, <3>2
    <3> QED
      BY <1>0, <2>1, <2>3, <2>4, <3>3, <3>4, PairWritten DEF s, r
  <2> QED
    BY <2>2, <2>5, <2>6 DEF Entry
<1>7. ASSUME NEW w \in Workers, EnterExpire(w) \/ EnterTTL(w) \/ LastTTL(w) PROVE PairInv(a, c)'
  <2> DEFINE x == task[w].a
  <2> DEFINE y == task[w].c
  <2>0. x = task[w].a /\ y = task[w].c
    OBVIOUS
  <2>1. /\ task[w].pc # "idle" /\ UNCHANGED <<docs, written, overlap, spoilt>>
        /\ cache' = [cache EXCEPT ![x][y] = Expire(cache[x][y])]
    BY <1>7 DEF EnterExpire, EnterTTL, LastTTL
  <2>2. x \in Accounts /\ y \in Names
    BY <2>1, BusyTask
  <2> HIDE DEF x, y
  <2>3. \/ Goto(w, Idle)
        \/ task[w].pc = "enter" /\ Goto(w, [task[w] EXCEPT !.pc = "fill"])
        \/ task[w].pc = "lastttl" /\ Goto(w, [task[w] EXCEPT !.pc = "last"])
    BY <1>7 DEF EnterExpire, EnterTTL, LastTTL
  <2>4. Fades(a, c)
    BY <2>3, FadesOn
  <2> DEFINE h == Expire(cache[x][y])
  <2>5. cache[x][y] \in Hashes /\ (cache[x][y].ttl => cache[x][y].set)
    BY <2>2 DEF TypeOK, Hashes
  <2>6. /\ h \in Hashes /\ h.set = cache[x][y].set /\ h.d = cache[x][y].d
        /\ (h.ttl => h.set) /\ (h.set => h.ttl)
    BY <2>5 DEF Expire, Hashes
  <2>7. cache' = [cache EXCEPT ![x][y] = h]
    BY <2>1
  <2> HIDE DEF h
  <2>8. Entry(cache, cache', x, y, h)
    BY <2>2, <2>6, <2>7, CacheSet
  <2>9. cache'[a][c].set => /\ cache[a][c].set /\ cache'[a][c].d = cache[a][c].d
                            /\ cache[a][c].ttl => cache'[a][c].ttl
    BY <2>6, <2>8 DEF Entry
  <2>10. At(w, {"enterttl"}, a, c) => ~cache'[a][c].set \/ cache'[a][c].ttl
    <3>1. At(w, {"enterttl"}, a, c) => a = x /\ c = y
      BY <2>0 DEF At
    <3> QED
      BY <2>6, <2>8, <3>1 DEF Entry
  <2>11. Marked(a, c)
    <3>1. \E t : Goto(w, t)
      BY <2>3
    <3> QED
      BY <2>10, <3>1, MarkedGoto
  <2> QED
    BY <2>1, <2>4, <2>9, <2>11, PairStays
<1>8. ASSUME NEW w \in LoginWorkers, EnterFill(w) PROVE PairInv(a, c)'
  <2> DEFINE x == task[w].a
  <2> DEFINE y == task[w].c
  <2>0. x = task[w].a /\ y = task[w].c
    OBVIOUS
  <2>1. /\ task[w].pc = "fill" /\ UNCHANGED <<docs, written, overlap, spoilt>>
        /\ Goto(w, [task[w] EXCEPT !.pc = "enterttl"])
        /\ cache' = [cache EXCEPT ![x][y] = Hset(cache[x][y], task[w].d)]
    BY <1>8 DEF EnterFill
  <2>2. x \in Accounts /\ y \in Names
    BY <1>0, <2>1, BusyTask
  <2> HIDE DEF x, y
  <2>3. CASE a = x /\ c = y
    BY <1>0, <1>8, <2>0, <2>2, <2>3, PairFilled
  <2>4. CASE a # x \/ c # y
    <3>1. cache'[a][c] = cache[a][c]
      BY <2>1, <2>2, <2>4 DEF TypeOK
    <3>2. Fades(a, c)
      BY <1>0, <2>1, FadesOn
    <3>3. ~At(w, {"enterttl"}, a, c)
      BY <2>1 DEF At
    <3>4. Marked(a, c)
      BY <1>0, <2>1, <3>3, MarkedGoto
    <3> QED
      BY <2>1, <3>1, <3>2, <3>4, PairStays
  <2> QED
    BY <2>3, <2>4
<1>9. ASSUME NEW w \in GameWorkers, NEW p \in Played, NEW last \in BOOLEAN, Pull(w, p[1], p[2], last)
      PROVE  PairInv(a, c)'
  <2> DEFINE x == p[1]
  <2> DEFINE y == p[2]
  <2> DEFINE q == IF last THEN "lastpulled" ELSE "pulled"
  <2> DEFINE n == uploads[x][y] + 1
  <2>1. x \in Accounts /\ y \in Names
    BY StoreAssumption
  <2>2. n \in Nat
    <3>1. uploads \in [Accounts -> [Names -> Nat]]
      BY DEF TypeOK
    <3> HIDE DEF x, y
    <3> QED
      BY <2>1, <3>1
  <2>3. /\ task[w] = Idle /\ Goto(w, Task(q, x, y, n))
        /\ UNCHANGED <<docs, cache, written, overlap, spoilt>>
    BY <1>9 DEF Pull, Free
  <2>4. q \in {"lastpulled", "pulled"}
    OBVIOUS
  <2> HIDE DEF x, y, q, n
  <2>5. Fades(a, c)
    BY <1>0, <2>1, <2>2, <2>3, <2>4, FadesOther
  <2>6. ~At(w, {"enterttl"}, a, c)
    BY <2>3 DEF At, Idle
  <2>7. Marked(a, c)
    BY <1>0, <2>3, <2>6, MarkedGoto
  <2> QED
    BY <2>3, <2>5, <2>7, PairStays
<1>15. ASSUME NEW w \in GameWorkers, UploadCache(w) \/ UploadCacheFails(w) PROVE PairInv(a, c)'
  <2> DEFINE x == task[w].a
  <2> DEFINE y == task[w].c
  <2>0. x = task[w].a /\ y = task[w].c
    OBVIOUS
  <2>1. task[w].pc \in Pulled /\ Cached(w) /\ UNCHANGED docs
    BY <1>15 DEF UploadCache, UploadCacheFails
  <2>2. task[w].pc # "idle"
    BY <2>1 DEF Pulled
  <2>3. x \in Accounts /\ y \in Names /\ task[w].d \in Nat
    BY <1>0, <2>2, BusyTask
  <2>4. PICK t \in Busy : Goto(w, t) /\ t.a = x /\ t.c = y /\ t.pc \in Uploading
    BY <1>0, <2>1, CachedFacts
  <2>5. Marked(a, c)
    <3>1. ~At(w, {"enterttl"}, a, c)
      BY <2>1 DEF At, Pulled
    <3> QED
      BY <1>0, <2>4, <3>1, MarkedGoto
  <2>6. CASE a = x /\ c = y
    <3>1. CASE UploadCache(w)
      BY <1>0, <2>0, <2>6, <3>1, PairUploaded
    <3>2. CASE UploadCacheFails(w)
      <4>1. <<a, c>> \in spoilt'
        BY <2>6, <3>2 DEF UploadCacheFails
      <4> QED
        BY <2>1, <4>1 DEF PairInv
    <3> QED
      BY <1>15, <3>1, <3>2
  <2>7. CASE a # x \/ c # y
    <3>1. Fades(a, c)
      BY <1>0, <2>4, <2>7, FadesGoto
    <3>2. /\ overlap' = overlap \/ overlap' = overlap \cup {<<x, y>>}
          /\ spoilt' = spoilt \/ spoilt' = spoilt \cup {<<x, y>>}
      BY <1>15 DEF UploadCache, UploadCacheFails, Overlaps
    <3>3. <<a, c>> # <<x, y>>
      BY <2>7
    <3>4. written'[a][c] = written[a][c]
      <4>1. PICK n : written' = written \/ written' = [written EXCEPT ![x][y] = n]
        <5>1. CASE UploadCache(w)
          BY <5>1 DEF UploadCache
        <5>2. CASE UploadCacheFails(w)
          BY <5>2 DEF UploadCacheFails
        <5> QED
          BY <1>15, <5>1, <5>2
      <4>2. written \in [Accounts -> [Names -> Nat]]
        BY DEF TypeOK
      <4> HIDE DEF x, y
      <4> QED
        BY <2>3, <2>7, <4>1, <4>2
    <3>5. cache'[a][c] = cache[a][c]
      <4>1. PICK h : cache' = cache \/ cache' = [cache EXCEPT ![x][y] = h]
        <5>1. CASE UploadCache(w)
          BY <5>1 DEF UploadCache
        <5>2. CASE UploadCacheFails(w)
          BY <5>2 DEF UploadCacheFails
        <5> QED
          BY <1>15, <5>1, <5>2
      <4>2. cache \in [Accounts -> [Names -> Hashes]]
        BY DEF TypeOK, Hashes
      <4> HIDE DEF x, y
      <4> QED
        BY <2>3, <2>7, <4>1, <4>2
    <3> HIDE DEF x, y
    <3>6. <<a, c>> \notin overlap' => <<a, c>> \notin overlap
      BY <3>2
    <3>7. <<a, c>> \notin spoilt' => <<a, c>> \notin spoilt
      BY <3>2
    <3> QED
      BY <2>1, <2>5, <3>1, <3>4, <3>5, <3>6, <3>7, PairStays
  <2> QED
    BY <2>6, <2>7
<1>10. ASSUME NEW w \in GameWorkers, UpdateFind(w) PROVE PairInv(a, c)'
  <2>1. UNCHANGED <<docs, cache, written, overlap, spoilt>> /\ task[w].pc \in {"upload", "last"}
    BY <1>10 DEF UpdateFind
  <2>2. task[w] \in Busy
    BY <1>0, <2>1, BusyTask
  <2>3. \/ Goto(w, Idle)
        \/ task[w].pc = "last" /\ Goto(w, [task[w] EXCEPT !.pc = "lastupdate"])
        \/ task[w].pc = "upload" /\ Goto(w, [task[w] EXCEPT !.pc = "update"])
    BY <1>10, <2>1, <2>2 DEF UpdateFind, Busy
  <2>4. Fades(a, c)
    BY <1>0, <2>3, FadesOn
  <2>5. Marked(a, c)
    <3>1. ~At(w, {"enterttl"}, a, c) /\ \E t : Goto(w, t)
      BY <2>1, <2>3 DEF At
    <3> QED
      BY <1>0, <3>1, MarkedGoto
  <2> QED
    BY <2>1, <2>4, <2>5, PairStays
<1>11. ASSUME NEW w \in GameWorkers, UpdateTxn(w) PROVE PairInv(a, c)'
  <2> DEFINE x == task[w].a
  <2> DEFINE y == task[w].c
  <2>1. /\ x = task[w].a /\ y = task[w].c /\ Goto(w, Idle) /\ task[w].pc \in Uploading
        /\ UNCHANGED <<cache, written, overlap, spoilt>>
    BY <1>11 DEF UpdateTxn, Uploading
  <2> HIDE DEF x, y
  <2>2. /\ task[w].d \in Nat
        /\ Entry(docs, docs', x, y,
                 IF docs[x][y] = <<>> THEN <<>> ELSE [docs[x][y] EXCEPT ![1] = task[w].d])
    BY <1>0, <1>11, <2>1, UpdateTxnFacts
  <2>3. Fades(a, c)
    BY <1>0, <2>1, FadesOn
  <2>4. Marked(a, c)
    <3>1. ~At(w, {"enterttl"}, a, c)
      BY <2>1 DEF At, Uploading
    <3> QED
      BY <1>0, <2>1, <3>1, MarkedGoto
  <2>5. CASE docs'[a][c] = docs[a][c]
    BY <2>1, <2>3, <2>4, <2>5, PairStays
  <2>6. CASE /\ a = x /\ c = y /\ docs[a][c] # <<>>
             /\ docs'[a][c] = [docs[a][c] EXCEPT ![1] = task[w].d]
    <3> DEFINE s == docs[a][c]
    <3> DEFINE r == docs'[a][c]
    <3>1. /\ s # <<>> /\ r = [s EXCEPT ![1] = task[w].d] /\ s \in Seq(Nat)
          /\ \A i \in 2..Len(s) : s[i] = 0
      BY <1>0, <2>6 DEF PairInv
    <3> HIDE DEF s, r
    <3>2. /\ Len(r) = Len(s) /\ Head(r) = task[w].d
          /\ \A i \in 2..Len(s) : r[i] = s[i]
      BY <2>2, <3>1, DocFacts
    <3>3. \A i \in 2..Len(r) : r[i] = 0
      BY <3>1, <3>2
    <3>4. At(w, Uploading, a, c)
      BY <2>1, <2>6 DEF At
    <3> QED
      BY <1>0, <2>1, <2>3, <2>4, <3>2, <3>3, <3>4, PairWritten DEF s, r
  <2> QED
    BY <2>2, <2>5, <2>6 DEF Entry
<1>12. ASSUME NEW w \in Workers, Fail(w) \/ RedisFails(w) PROVE PairInv(a, c)'
  <2>1. /\ UNCHANGED <<docs, cache, written, overlap>>
        /\ spoilt' = spoilt \cup Unexpiring({w})
    BY <1>12 DEF Fail, RedisFails
  <2>2. \/ Goto(w, Idle)
        \/ task[w].pc = "fill" /\ Goto(w, [task[w] EXCEPT !.pc = "enterttl"])
        \/ task[w].pc = "lastttl" /\ Goto(w, [task[w] EXCEPT !.pc = "last"])
    BY <1>12 DEF Fail, RedisFails
  <2>3. Fades(a, c)
    BY <2>2, FadesOn
  <2>4. At(w, {"enterttl"}, a, c) => <<a, c>> \in spoilt'
    BY <2>1 DEF At, Unexpiring
  <2>5. Marked(a, c)
    <3>1. \E t : Goto(w, t)
      BY <2>2
    <3> QED
      BY <2>4, <3>1, MarkedGoto
  <2> QED
    BY <2>1, <2>3, <2>5, PairStays
<1>13. CASE Crash
  <2>1. /\ UNCHANGED <<docs, cache, written, overlap>> /\ \A w \in Workers : task'[w] = Idle
        /\ spoilt' = spoilt \cup Unexpiring(Workers)
    BY <1>13 DEF Crash
  <2>2. Fades(a, c)
    BY <2>1 DEF Fades, At, Idle, Entering, Uploading
  <2>3. Marked(a, c)
    BY <2>1 DEF Marked
  <2> QED
    BY <2>1, <2>2, <2>3, PairStays
<1>14. ASSUME NEW b \in Accounts, NEW e \in Names, CacheExpires(b, e) PROVE PairInv(a, c)'
  <2>1. UNCHANGED <<docs, task, written, overlap, spoilt>> /\ cache' = [cache EXCEPT ![b][e] = NoHash]
    BY <1>14 DEF CacheExpires
  <2>2. Fades(a, c) /\ Marked(a, c)
    BY <2>1 DEF Fades, Marked, At, Unexpiring
  <2>3. cache'[a][c] = cache[a][c] \/ cache'[a][c] = NoHash
    BY <2>1 DEF TypeOK
  <2>4. cache'[a][c].set => /\ cache[a][c].set /\ cache'[a][c].d = cache[a][c].d
                            /\ cache[a][c].ttl => cache'[a][c].ttl
    BY <2>3 DEF NoHash
  <2> QED
    BY <2>1, <2>2, <2>4, PairStays
<1> QED
  BY <1>0, <1>1, <1>2, <1>3, <1>4, <1>5, <1>6, <1>7, <1>8, <1>9, <1>10, <1>11, <1>12, <1>13, <1>14,
     <1>15
     DEF Next, CharacterRequest, LoginStep, GameStep

\* The hash a character is loaded from is older than its document only if entering
\* and an upload of the character overlapped, and then it expires: for any number of
\* reader threads and uploads, while the uploads reach the cache in the order of the
\* stream and neither their HSET nor the EXPIRE of a filled hash fails.
THEOREM CacheStaysCurrent == Spec => []CacheNotOlder
<1> DEFINE CacheInv == \A a \in Accounts : \A c \in Names : PairInv(a, c)
<1>1. Init => CacheInv
  <2> SUFFICES ASSUME Init, NEW a \in Accounts, NEW c \in Names PROVE PairInv(a, c)
    OBVIOUS
  <2>1. docs[a][c] = <<>> /\ cache[a][c] = NoHash /\ written[a][c] = 0 /\ \A w \in Workers : task[w] = Idle
    BY DEF Init
  <2>2. \A w \in Workers : ~At(w, Entering, a, c) /\ ~At(w, Uploading, a, c)
    BY <2>1 DEF At, Idle, Entering, Uploading
  <2> QED
    BY <2>1, <2>2 DEF PairInv, Counted, Current, Newer, NoHash
<1>2. AccountInv /\ AccountInv' /\ CacheInv /\ [Next]_vars => CacheInv'
  BY PairStep DEF AccountInv
<1>3. AccountInv /\ CacheInv => CacheNotOlder
  <2> SUFFICES ASSUME AccountInv, CacheInv, NEW a \in Accounts, NEW c \in Names,
                      cache[a][c].set, docs[a][c] # <<>>, cache[a][c].d < Head(docs[a][c]),
                      <<a, c>> \notin spoilt
               PROVE  <<a, c>> \in overlap /\ (cache[a][c].ttl \/ <<a, c>> \in Unexpiring(Workers))
    BY DEF CacheNotOlder
  <2>1. docs[a][c] \in Seq(Nat) /\ cache[a][c].d \in Nat /\ written[a][c] \in Nat
    BY DEF AccountInv, TypeOK
  <2>2. Head(docs[a][c]) \in Nat
    BY <2>1, DocFacts
  <2>3. Counted(a, c) /\ Current(a, c) /\ (<<a, c>> \notin overlap => Newer(a, c))
    BY DEF PairInv
  <2>4. <<a, c>> \in overlap
    BY <2>1, <2>2, <2>3 DEF Newer
  <2>5. cache[a][c].d # written[a][c]
    BY <2>1, <2>2, <2>3 DEF Counted
  <2> QED
    BY <2>3, <2>4, <2>5 DEF Current
<1> QED
  BY <1>1, <1>2, <1>3, PlaceholdersStay, PTL DEF Spec
=============================================================================

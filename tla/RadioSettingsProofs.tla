------------------------- MODULE RadioSettingsProofs -------------------------
(***************************************************************************)
(* Proofs about RadioSettings, for any threads, settings and bounds: its   *)
(* types, that it implements SettingsView, that is, what a session shows   *)
(* of a setting never goes back, and that what it shows was stored.  The   *)
(* argument: whoever reads the database for a load owns waitCh, whoever    *)
(* saves owns settingsMu, never both at once; so what a load has read is   *)
(* at least as recent as memory, and what an update is about to commit is  *)
(* as well.  An update that gets settingsMu finds the settings loaded, or  *)
(* a read has failed; so it never commits a default as loaded.             *)
(***************************************************************************)
EXTENDS RadioSettings, TLAPS

USE SettingsAssumption

\* One load at a time, one saver at a time, and never both.
Exclusive ==
  /\ \A t \in Threads : (th[t].pc \in {"read", "failed"}) <=> (waitCh = t)
  /\ \A t \in Threads : (th[t].pc \in {"save", "saved"}) <=> (mutex = t)
  /\ mutex # NoThread => waitCh = NoThread
  /\ \A t \in Threads : /\ th[t].pc = "save" => th[t].op \in {"update", "delete"}
                        /\ th[t].pc = "saved" => th[t].op = "update"

\* Memory is ahead of the store only while a deletion saves.
ClearedWhileSaving ==
  \A f \in Fields : mem[f] = Cleared =>
    f = Autojoin /\ \E t \in Threads : th[t].pc = "save" /\ th[t].op = "delete"

\* What the session shows was stored.
ShownIsStored ==
  \A f \in Fields : Shown[f] \in Nat /\ Shown[f] <= store[f] /\ store[f] <= writes

\* A load has read nothing older than memory.
ReadIsRecent ==
  \A t \in Threads : th[t].pc = "read" =>
    \A k \in 1..Len(th[t].got) :
      th[t].got[k] <= store[Keys[k]] /\ Shown[Keys[k]] <= th[t].got[k]

\* The copy of an update is what is shown, with the writes it has saved.
CopyIsRecent ==
  \A t \in Threads : \A f \in Fields :
    /\ th[t].pc = "save" /\ th[t].op = "delete" /\ f # Autojoin => th[t].local[f] = mem[f]
    /\ th[t].pc = "save" /\ th[t].op = "delete" => th[t].local[f] = Shown[f]
    /\ th[t].pc = "save" /\ th[t].op = "update" => th[t].local[f] = mem[f]
    /\ th[t].pc = "saved" => Shown[f] <= th[t].local[f] /\ th[t].local[f] <= store[f]

IInv == TypeOK /\ Exclusive /\ ClearedWhileSaving /\ ShownIsStored /\ ReadIsRecent /\ CopyIsRecent

-----------------------------------------------------------------------------
ThreadType == [pc : PCs, op : Ops, force : BOOLEAN, on : Threads \cup {NoThread},
               got : Seq(Nat \ {0}), set : SUBSET Fields, local : [Fields -> Nat], mine : Nat]

LEMMA IdleType == Idle \in ThreadType /\ Idle.pc = "idle" /\ Len(Idle.got) = 0
BY DEF Idle, ThreadType, PCs, Ops

\* A thread that returns from a load neither loads nor saves.
LEMMA ReturnedType ==
  ASSUME NEW r \in ThreadType
  PROVE  /\ Returned(r) \in ThreadType
         /\ Returned(r).pc \in {"idle", "load", "lock"}
         /\ Len(Returned(r).got) = 0
<1>1. CASE r.op = "update"
  <2>1. r.set \in SUBSET Fields
    BY DEF ThreadType
  <2>2. Returned(r) = [Idle EXCEPT !.pc = "lock", !.op = "update", !.set = r.set]
    BY <1>1 DEF Returned
  <2> QED BY <2>1, <2>2, IdleType DEF ThreadType, PCs, Ops
<1>2. CASE r.op = "setup" /\ ~r.force
  <2>1. r.mine \in Nat
    BY DEF ThreadType
  <2>2. Returned(r) = [Idle EXCEPT !.pc = "load", !.op = "setup", !.force = TRUE, !.mine = r.mine]
    BY <1>2 DEF Returned
  <2> QED BY <2>1, <2>2, IdleType DEF ThreadType, PCs, Ops
<1>3. CASE ~(r.op = "update") /\ ~(r.op = "setup" /\ ~r.force)
  BY <1>3, IdleType DEF Returned
<1> QED BY <1>1, <1>2, <1>3

\* Closing a channel leaves whoever loads or saves alone.
LEMMA ClosingType ==
  ASSUME TypeOK, NEW t \in Threads, NEW r \in ThreadType, Len(r.got) <= Len(Keys)
  PROVE  /\ Closing(t, r) \in [Threads -> ThreadType]
         /\ Closing(t, r)[t] = r
         /\ \A u \in Threads : Len(Closing(t, r)[u].got) <= Len(Keys)
         /\ \A u \in Threads \ {t} :
              \/ Closing(t, r)[u] = th[u]
              \/ /\ th[u].pc \in {"wait", "waitLock"}
                 /\ Closing(t, r)[u].pc \in {"woken", "lock"}
<1> DEFINE woken(u) == [th[u] EXCEPT !.pc = "woken", !.on = NoThread]
<1> DEFINE freed(u) == [th[u] EXCEPT !.pc = "lock", !.on = NoThread]
<1>1. \A u \in Threads : th[u] \in ThreadType /\ Len(th[u].got) <= Len(Keys)
  BY DEF TypeOK, ThreadType
<1>2. \A u \in Threads : /\ woken(u) \in ThreadType /\ woken(u).got = th[u].got
                         /\ woken(u).pc = "woken"
  BY <1>1 DEF ThreadType, PCs
<1>3. \A u \in Threads : /\ freed(u) \in ThreadType /\ freed(u).got = th[u].got
                         /\ freed(u).pc = "lock"
  BY <1>1 DEF ThreadType, PCs
<1>4. \A u \in Threads \ {t} : \/ Closing(t, r)[u] = th[u]
                               \/ th[u].pc = "wait" /\ Closing(t, r)[u] = woken(u)
                               \/ th[u].pc = "waitLock" /\ Closing(t, r)[u] = freed(u)
  BY DEF Closing
<1>5. Closing(t, r)[t] = r /\ Closing(t, r) = [u \in Threads |-> Closing(t, r)[u]]
  BY DEF Closing
<1> HIDE DEF woken, freed
<1>6. \A u \in Threads : /\ Closing(t, r)[u] \in ThreadType
                         /\ Len(Closing(t, r)[u].got) <= Len(Keys)
  BY <1>1, <1>2, <1>3, <1>4, <1>5
<1> QED BY <1>2, <1>3, <1>4, <1>5, <1>6

LEMMA KeysCover ==
  /\ \A k \in DOMAIN Keys : Keys[k] \in Fields
  /\ \A f \in Fields : \E k \in DOMAIN Keys : Keys[k] = f
  /\ DOMAIN Keys = 1..Len(Keys)
BY DEF Range, Fields

\* The invariant holds after a step that only moves threads between points
\* where they neither load nor save.
LEMMA MovesKeepInvariant ==
  ASSUME IInv, UNCHANGED <<store, mem, waitCh, mutex, writes>>,
         loaded' \in BOOLEAN, err' \in BOOLEAN, fatal' \in BOOLEAN, errors' \in 0..MaxErrors,
         th' \in [Threads -> ThreadType],
         \A u \in Threads : Len(th'[u].got) <= Len(Keys),
         \A u \in Threads : \/ th'[u] = th[u]
                            \/ /\ th[u].pc \notin {"read", "failed", "save", "saved"}
                               /\ th'[u].pc \notin {"read", "failed", "save", "saved"}
  PROVE  IInv' /\ Shown' = Shown
<1>1. TypeOK'
  BY DEF IInv, TypeOK, ThreadType
<1>2. Exclusive'
  BY DEF IInv, Exclusive
<1>3. \A t \in Threads : th[t].pc = "save" => th'[t] = th[t]
  OBVIOUS
<1>4. ClearedWhileSaving'
  BY <1>3 DEF IInv, ClearedWhileSaving
<1>5. Shown' = Shown
  <2>1. \A f \in Fields : mem[f] = Cleared => mutex \in Threads /\ th[mutex].pc = "save"
    BY DEF IInv, ClearedWhileSaving, Exclusive, TypeOK
  <2>2. \A f \in Fields : mem[f] = Cleared => th'[mutex].local = th[mutex].local
    BY <2>1, <1>3
  <2> QED BY <2>2 DEF Shown
<1>6. ShownIsStored'
  BY <1>5 DEF IInv, ShownIsStored
<1>7. ReadIsRecent'
  BY <1>5 DEF IInv, ReadIsRecent
<1>8. CopyIsRecent'
  BY <1>5 DEF IInv, CopyIsRecent
<1> QED BY <1>1, <1>2, <1>4, <1>5, <1>6, <1>7, <1>8 DEF IInv

-----------------------------------------------------------------------------
(* The steps.                                                              *)

\* A thread that moves.
LEMMA OneMoves ==
  ASSUME IInv, NEW t \in Threads, NEW r \in ThreadType, Len(r.got) <= Len(Keys),
         th' = [th EXCEPT ![t] = r],
         th[t].pc \notin {"read", "failed", "save", "saved"},
         r.pc \notin {"read", "failed", "save", "saved"},
         UNCHANGED <<store, mem, waitCh, mutex, writes>>,
         loaded' \in BOOLEAN, err' \in BOOLEAN, fatal' \in BOOLEAN, errors' \in 0..MaxErrors
  PROVE  IInv' /\ UNCHANGED View!vars
<1>1. /\ th' \in [Threads -> ThreadType]
      /\ \A u \in Threads : Len(th'[u].got) <= Len(Keys)
      /\ th'[t] = r /\ \A u \in Threads \ {t} : th'[u] = th[u]
  BY DEF IInv, TypeOK, ThreadType
<1> QED BY <1>1, MovesKeepInvariant DEF View!vars

LEMMA MovesStep ==
  ASSUME IInv, NEW t \in Threads,
         \/ Use(t) \/ (\E D \in SUBSET Fields : Update(t, D)) \/ ChannelDeleted(t)
         \/ AlreadyLoaded(t) \/ WaitForLoad(t) \/ WaitCancelled(t) \/ AfterWait(t)
         \/ WaitToLock(t)
  PROVE  IInv' /\ UNCHANGED View!vars
<1>0. th[t] \in ThreadType /\ Len(th[t].got) <= Len(Keys) /\ Len(Keys) \in Nat
      /\ loaded \in BOOLEAN /\ err \in BOOLEAN /\ fatal \in BOOLEAN /\ errors \in 0..MaxErrors
      /\ waitCh \in Threads \cup {NoThread}
  BY DEF IInv, TypeOK, ThreadType
<1> DEFINE back == Returned(th[t])
<1>b. /\ back \in ThreadType /\ Len(back.got) <= Len(Keys)
      /\ back.pc \notin {"read", "failed", "save", "saved"}
  BY <1>0, ReturnedType
<1>i. /\ Idle \in ThreadType /\ Len(Idle.got) <= Len(Keys)
      /\ Idle.pc \notin {"read", "failed", "save", "saved"}
  BY <1>0, IdleType
<1>1. CASE Use(t)
  <2> DEFINE r == [Idle EXCEPT !.pc = "load", !.op = "use"]
  <2>1. r \in ThreadType /\ r.pc = "load"
    BY IdleType DEF ThreadType, PCs, Ops
  <2>3. r.got = <<>>
    BY DEF Idle
  <2>2. th' = [th EXCEPT ![t] = r]
    BY <1>1 DEF Use
  <2>4. Len(r.got) <= Len(Keys)
    BY <1>0, <2>3
  <2> HIDE DEF r
  <2> QED BY <1>0, <1>1, <2>1, <2>4, <2>2, OneMoves DEF Use
<1>2. ASSUME NEW D \in SUBSET Fields, Update(t, D) PROVE IInv' /\ UNCHANGED View!vars
  <2> DEFINE r == [Idle EXCEPT !.pc = "load", !.op = "update", !.set = D]
  <2>1. r \in ThreadType /\ r.pc = "load"
    BY IdleType DEF ThreadType, PCs, Ops
  <2>3. r.got = <<>>
    BY DEF Idle
  <2>2. th' = [th EXCEPT ![t] = r]
    BY <1>2 DEF Update
  <2>4. Len(r.got) <= Len(Keys)
    BY <1>0, <2>3
  <2> HIDE DEF r
  <2> QED BY <1>0, <1>2, <2>1, <2>4, <2>2, OneMoves DEF Update
<1>3. CASE ChannelDeleted(t)
  <2> DEFINE r == [Idle EXCEPT !.pc = "lock", !.op = "delete"]
  <2>1. r \in ThreadType /\ r.pc = "lock"
    BY IdleType DEF ThreadType, PCs, Ops
  <2>3. r.got = <<>>
    BY DEF Idle
  <2>2. th' = [th EXCEPT ![t] = r]
    BY <1>3 DEF ChannelDeleted
  <2>4. Len(r.got) <= Len(Keys)
    BY <1>0, <2>3
  <2> HIDE DEF r
  <2> QED BY <1>0, <1>3, <2>1, <2>4, <2>2, OneMoves DEF ChannelDeleted
<1>4. CASE AlreadyLoaded(t)
  <2>1. th' = [th EXCEPT ![t] = back]
    BY <1>4 DEF AlreadyLoaded
  <2> HIDE DEF back
  <2> QED BY <1>0, <1>b, <1>4, <2>1, OneMoves DEF AlreadyLoaded
<1>5. CASE WaitForLoad(t)
  <2>1. [th[t] EXCEPT !.pc = "wait", !.on = waitCh] \in ThreadType
    BY <1>0 DEF ThreadType, PCs, Ops
  <2>2. th' = [th EXCEPT ![t] = [th[t] EXCEPT !.pc = "wait", !.on = waitCh]]
    BY <1>5 DEF WaitForLoad
  <2> QED BY <1>0, <1>5, <2>1, <2>2, OneMoves DEF WaitForLoad, ThreadType
<1>6. CASE WaitCancelled(t)
  <2>1. CASE th[t].pc = "wait"
    <3>1. th' = [th EXCEPT ![t] = back]
      BY <1>6, <2>1 DEF WaitCancelled
    <3> HIDE DEF back
    <3> QED BY <1>0, <1>b, <1>6, <3>1, OneMoves DEF WaitCancelled
  <2>2. CASE th[t].pc # "wait"
    <3>1. th' = [th EXCEPT ![t] = Idle]
      BY <1>6, <2>2 DEF WaitCancelled
    <3> QED BY <1>0, <1>i, <1>6, <3>1, OneMoves DEF WaitCancelled
  <2> QED BY <2>1, <2>2
<1>7. CASE AfterWait(t)
  <2>1. CASE ~th[t].force \/ loaded
    <3>1. th' = [th EXCEPT ![t] = back]
      BY <1>7, <2>1 DEF AfterWait
    <3> HIDE DEF back
    <3> QED BY <1>0, <1>b, <1>7, <3>1, OneMoves DEF AfterWait
  <2>2. /\ [th[t] EXCEPT !.pc = "load"] \in ThreadType
        /\ [th[t] EXCEPT !.pc = "unheld"] \in ThreadType
    BY <1>0 DEF ThreadType, PCs, Ops
  <2>3. CASE ~(~th[t].force \/ loaded) /\ err
    <3> DEFINE r == [th[t] EXCEPT !.pc = "load"]
    <3>1. th' = [th EXCEPT ![t] = r]
      BY <1>7, <2>3 DEF AfterWait
    <3>2. r \in ThreadType /\ r.pc = "load" /\ Len(r.got) <= Len(Keys)
      BY <1>0, <2>2 DEF ThreadType
    <3> HIDE DEF r
    <3> QED BY <1>0, <1>7, <3>1, <3>2, OneMoves DEF AfterWait
  <2>4. CASE ~(~th[t].force \/ loaded) /\ ~err
    <3> DEFINE r == [th[t] EXCEPT !.pc = "unheld"]
    <3>1. th' = [th EXCEPT ![t] = r]
      BY <1>7, <2>4 DEF AfterWait
    <3>2. r \in ThreadType /\ r.pc = "unheld" /\ Len(r.got) <= Len(Keys)
      BY <1>0, <2>2 DEF ThreadType
    <3> HIDE DEF r
    <3> QED BY <1>0, <1>7, <3>1, <3>2, OneMoves DEF AfterWait
  <2> QED BY <2>1, <2>3, <2>4
<1>8. CASE WaitToLock(t)
  <2>1. [th[t] EXCEPT !.pc = "waitLock", !.on = waitCh] \in ThreadType
    BY <1>0 DEF ThreadType, PCs, Ops
  <2>2. th' = [th EXCEPT ![t] = [th[t] EXCEPT !.pc = "waitLock", !.on = waitCh]]
    BY <1>8 DEF WaitToLock
  <2> QED BY <1>0, <1>8, <2>1, <2>2, OneMoves DEF WaitToLock, ThreadType
<1> QED BY <1>1, <1>2, <1>3, <1>4, <1>5, <1>6, <1>7, <1>8

\* The process ends.
LEMMA UnlockStep ==
  ASSUME IInv, NEW t \in Threads, UnlockUnheld(t)
  PROVE  IInv' /\ UNCHANGED View!vars
<1>1. /\ th' = th /\ th \in [Threads -> ThreadType]
      /\ \A u \in Threads : Len(th[u].got) <= Len(Keys)
  BY DEF IInv, TypeOK, ThreadType, UnlockUnheld
<1> QED BY <1>1, MovesKeepInvariant DEF UnlockUnheld, View!vars, IInv, TypeOK

\* While nobody keeps settingsMu, memory holds what is shown.
LEMMA FreeShown ==
  ASSUME IInv, mutex = NoThread
  PROVE  /\ \A f \in Fields : mem[f] \in Nat /\ Shown[f] = mem[f]
         /\ \A u \in Threads : th[u].pc \notin {"save", "saved"}
<1>1. \A u \in Threads : th[u].pc \notin {"save", "saved"}
  BY DEF IInv, Exclusive
<1>2. \A f \in Fields : mem[f] # Cleared
  BY <1>1 DEF IInv, ClearedWhileSaving
<1> QED BY <1>1, <1>2 DEF IInv, TypeOK, Shown

LEMMA SetupStep ==
  ASSUME IInv, NEW t \in Threads, Setup(t)
  PROVE  IInv' /\ View!Put
<1>0. writes \in Nat /\ Len(Keys) \in Nat /\ th \in [Threads -> ThreadType]
      /\ store \in [Fields -> Nat \ {0}] /\ \A u \in Threads : Len(th[u].got) <= Len(Keys)
  BY DEF IInv, TypeOK, ThreadType
<1> DEFINE r == [Idle EXCEPT !.pc = "load", !.op = "setup", !.mine = writes + 1]
<1>a. r \in ThreadType /\ r.pc = "load"
  <2>1. writes + 1 \in Nat
    BY <1>0
  <2>2. ASSUME NEW n \in Nat
        PROVE  LET q == [Idle EXCEPT !.pc = "load", !.op = "setup", !.mine = n]
               IN  q \in ThreadType /\ q.pc = "load"
    BY IdleType DEF ThreadType, PCs, Ops
  <2> QED BY <2>1, <2>2
<1>c. /\ th' = [th EXCEPT ![t] = r] /\ th[t].pc = "idle"
      /\ UNCHANGED <<mem, loaded, err, waitCh, mutex, errors, fatal>>
  BY DEF Setup
<1>1. /\ r \in ThreadType /\ r.pc = "load" /\ th' = [th EXCEPT ![t] = r]
      /\ th[t].pc = "idle"
  BY <1>a, <1>c
<1>2. r.got = <<>>
  BY DEF Idle
<1> HIDE DEF r
<1>3. /\ th' \in [Threads -> ThreadType] /\ th'[t] = r
      /\ \A u \in Threads \ {t} : th'[u] = th[u]
      /\ \A u \in Threads : Len(th'[u].got) <= Len(Keys)
  BY <1>0, <1>1, <1>2
<1>4. /\ store' \in [Fields -> Nat \ {0}] /\ writes' = writes + 1
      /\ \A f \in Fields : store'[f] = writes + 1 /\ store[f] <= store'[f]
  BY <1>0 DEF Setup, Write, IInv, ShownIsStored
<1>5. Shown' = Shown
  <2>1. \A f \in Fields : mem[f] = Cleared => mutex \in Threads /\ th[mutex].pc = "save"
    BY DEF IInv, ClearedWhileSaving, Exclusive, TypeOK
  <2>2. \A f \in Fields : mem[f] = Cleared => th'[mutex].local = th[mutex].local
    BY <2>1, <1>1, <1>3
  <2> QED BY <2>2 DEF Shown, Setup
<1>6. TypeOK'
  <2>1. writes' \in Nat \ {0}
    BY <1>0, <1>4
  <2> QED BY <1>c, <1>3, <1>4, <2>1 DEF IInv, TypeOK, ThreadType
<1>7. Exclusive'
  BY <1>1, <1>3 DEF Setup, IInv, Exclusive
<1>8. ClearedWhileSaving'
  BY <1>1, <1>3 DEF Setup, IInv, ClearedWhileSaving
<1>9. ShownIsStored'
  BY <1>0, <1>4, <1>5 DEF IInv, ShownIsStored
<1>10. ReadIsRecent'
  <2> SUFFICES ASSUME NEW u \in Threads, th'[u].pc = "read", NEW k \in 1..Len(th'[u].got)
               PROVE  /\ th'[u].got[k] <= store'[Keys[k]]
                      /\ Shown'[Keys[k]] <= th'[u].got[k]
    BY DEF ReadIsRecent
  <2>1. u # t /\ th'[u] = th[u]
    BY <1>1, <1>3
  <2>2. Keys[k] \in Fields /\ th[u].got[k] \in Nat
    BY <1>0, <1>3, <2>1, KeysCover DEF ThreadType
  <2>3. th[u].got[k] <= store[Keys[k]] /\ Shown[Keys[k]] <= th[u].got[k]
    BY <2>1 DEF IInv, ReadIsRecent
  <2> QED BY <1>0, <1>4, <1>5, <2>1, <2>2, <2>3
<1>11. CopyIsRecent'
  <2>1. \A u \in Threads : th'[u].pc \in {"save", "saved"} => th'[u] = th[u]
    BY <1>1, <1>3
  <2>2. \A u \in Threads : \A f \in Fields : th[u].local[f] \in Nat /\ store[f] \in Nat
    BY <1>0 DEF ThreadType
  <2>3. \A f \in Fields : store[f] <= store'[f] /\ store'[f] \in Nat
    BY <1>4
  <2> QED BY <1>c, <1>5, <2>1, <2>2, <2>3 DEF IInv, CopyIsRecent
<1> QED BY <1>4, <1>5, <1>6, <1>7, <1>8, <1>9, <1>10, <1>11 DEF IInv, View!Put

-----------------------------------------------------------------------------
(* Loads.                                                                  *)

\* What every step of a load has in common: only the thread, or the waiters of
\* its channel, and the load state change.
LEMMA LoadType ==
  ASSUME IInv, NEW t \in Threads
  PROVE  /\ th \in [Threads -> ThreadType] /\ th[t] \in ThreadType
         /\ th[t].got \in Seq(Nat \ {0}) /\ Len(th[t].got) \in Nat /\ Len(Keys) \in Nat
         /\ \A u \in Threads : Len(th[u].got) <= Len(Keys)
         /\ store \in [Fields -> Nat \ {0}] /\ writes \in Nat
  BY DEF IInv, TypeOK, ThreadType

\* If memory, the store and the savers stay as they are, so does what is shown.
LEMMA ShownStays ==
  ASSUME IInv, UNCHANGED <<mem, mutex>>,
         \A u \in Threads : th[u].pc \in {"save", "saved"} => th'[u] = th[u]
  PROVE  Shown' = Shown
<1>1. \A f \in Fields : mem[f] = Cleared => mutex \in Threads /\ th[mutex].pc = "save"
  BY DEF IInv, ClearedWhileSaving, Exclusive, TypeOK
<1>2. \A f \in Fields : mem[f] = Cleared => th'[mutex].local = th[mutex].local
  BY <1>1
<1> QED BY <1>2 DEF Shown

\* Steps of a load that leave the settings alone.
LEMMA LoadKeeps ==
  ASSUME IInv, NEW t \in Threads, UNCHANGED <<store, mem, mutex, writes>>,
         loaded' \in BOOLEAN, err' \in BOOLEAN, fatal' \in BOOLEAN, errors' \in 0..MaxErrors,
         waitCh' \in Threads \cup {NoThread},
         th' \in [Threads -> ThreadType],
         \A u \in Threads : Len(th'[u].got) <= Len(Keys),
         th[t].pc \notin {"save", "saved"}, th'[t].pc \notin {"save", "saved"},
         \A u \in Threads \ {t} :
           \/ th'[u] = th[u]
           \/ /\ th[u].pc \in {"wait", "waitLock"}
              /\ th'[u].pc \in {"woken", "lock"},
         Exclusive',
         th'[t].pc = "read" => \A k \in 1..Len(th'[t].got) :
            th'[t].got[k] <= store[Keys[k]] /\ Shown[Keys[k]] <= th'[t].got[k]
  PROVE  IInv' /\ UNCHANGED View!vars
<1>1. \A u \in Threads : th[u].pc \in {"save", "saved"} => th'[u] = th[u]
  OBVIOUS
<1>2. \A u \in Threads : th'[u].pc \in {"save", "saved"} => th'[u] = th[u]
  OBVIOUS
<1>3. Shown' = Shown
  BY <1>1, ShownStays
<1>4. TypeOK'
  BY DEF IInv, TypeOK, ThreadType
<1>5. ClearedWhileSaving'
  BY <1>1 DEF IInv, ClearedWhileSaving
<1>6. ShownIsStored'
  BY <1>3 DEF IInv, ShownIsStored
<1>7. ReadIsRecent'
  <2>1. \A u \in Threads \ {t} : th'[u].pc = "read" => th'[u] = th[u]
    OBVIOUS
  <2> QED BY <1>3, <2>1 DEF IInv, ReadIsRecent
<1>8. CopyIsRecent'
  BY <1>2, <1>3 DEF IInv, CopyIsRecent
<1> QED BY <1>3, <1>4, <1>5, <1>6, <1>7, <1>8 DEF IInv, View!vars

LEMMA BeginLoadStep ==
  ASSUME IInv, NEW t \in Threads, BeginLoad(t)
  PROVE  IInv' /\ UNCHANGED View!vars
<1> DEFINE r == [th[t] EXCEPT !.pc = "read", !.got = <<>>]
<1>1. /\ th' = [th EXCEPT ![t] = r] /\ th[t].pc = "load" /\ waitCh = NoThread /\ mutex = NoThread
      /\ waitCh' = t /\ UNCHANGED <<store, mem, mutex, writes>>
  BY DEF BeginLoad, Loading, Free
<1>2. r \in ThreadType /\ r.pc = "read" /\ r.got = <<>> /\ Len(r.got) <= Len(Keys)
  <2>1. <<>> \in Seq(Nat \ {0}) /\ Len(<<>>) <= Len(Keys)
    BY LoadType
  <2>2. ASSUME NEW g \in Seq(Nat \ {0})
        PROVE  LET q == [th[t] EXCEPT !.pc = "read", !.got = g]
               IN  q \in ThreadType /\ q.pc = "read" /\ q.got = g
    BY LoadType DEF ThreadType, PCs
  <2> QED BY <2>1, <2>2
<1> HIDE DEF r
<1>3. /\ th' \in [Threads -> ThreadType] /\ th'[t] = r
      /\ \A u \in Threads \ {t} : th'[u] = th[u]
      /\ \A u \in Threads : Len(th'[u].got) <= Len(Keys)
  BY <1>1, <1>2, LoadType
<1>4. Exclusive'
  BY <1>1, <1>2, <1>3 DEF IInv, Exclusive
<1>5. loaded' \in BOOLEAN /\ err' \in BOOLEAN /\ fatal' \in BOOLEAN /\ errors' \in 0..MaxErrors
  BY DEF BeginLoad, IInv, TypeOK
<1>6. waitCh' \in Threads \cup {NoThread} /\ 1..Len(r.got) = {}
  BY <1>1, <1>2
<1> QED BY <1>1, <1>2, <1>3, <1>4, <1>5, <1>6, LoadKeeps

LEMMA ReadFieldStep ==
  ASSUME IInv, NEW t \in Threads, ReadField(t)
  PROVE  IInv' /\ UNCHANGED View!vars
<1> DEFINE g == th[t].got
           n == Len(g) + 1
           r == [th[t] EXCEPT !.got = Append(g, store[Keys[n]])]
<1>0. /\ g \in Seq(Nat \ {0}) /\ Len(g) \in Nat /\ Len(g) < Len(Keys) /\ n \in 1..Len(Keys)
      /\ Keys[n] \in Fields /\ store[Keys[n]] \in Nat \ {0}
  BY LoadType, KeysCover DEF ReadField
<1>1. /\ th' = [th EXCEPT ![t] = r] /\ th[t].pc = "read"
      /\ UNCHANGED <<store, mem, mutex, writes, waitCh>>
  BY DEF ReadField
<1>2. /\ r \in ThreadType /\ r.pc = "read" /\ r.op = th[t].op
      /\ r.got = Append(g, store[Keys[n]])
  <2>1. Append(g, store[Keys[n]]) \in Seq(Nat \ {0})
    BY <1>0
  <2>2. ASSUME NEW h \in Seq(Nat \ {0})
        PROVE  LET q == [th[t] EXCEPT !.got = h]
               IN  q \in ThreadType /\ q.pc = th[t].pc /\ q.op = th[t].op /\ q.got = h
    BY LoadType DEF ThreadType, PCs
  <2> QED BY <1>1, <2>1, <2>2
<1>3. /\ Len(r.got) = n /\ n <= Len(Keys) /\ r.got[n] = store[Keys[n]]
      /\ \A k \in 1..Len(g) : r.got[k] = g[k]
  BY <1>0, <1>2
<1>4. \A k \in 1..n : r.got[k] <= store[Keys[k]] /\ Shown[Keys[k]] <= r.got[k]
  <2>1. \A k \in 1..Len(g) : g[k] <= store[Keys[k]] /\ Shown[Keys[k]] <= g[k]
    BY <1>1 DEF IInv, ReadIsRecent
  <2>2. Shown[Keys[n]] <= store[Keys[n]]
    BY <1>0 DEF IInv, ShownIsStored
  <2>3. \A k \in 1..n : k \in 1..Len(g) \/ k = n
    BY <1>0
  <2>4. store[Keys[n]] <= store[Keys[n]]
    BY <1>0
  <2> QED BY <1>3, <2>1, <2>2, <2>3, <2>4
<1> HIDE DEF g, n, r
<1>5. /\ th' \in [Threads -> ThreadType] /\ th'[t] = r
      /\ \A u \in Threads \ {t} : th'[u] = th[u]
      /\ \A u \in Threads : Len(th'[u].got) <= Len(Keys)
  BY <1>1, <1>2, <1>3, LoadType
<1>6. Exclusive'
  BY <1>1, <1>2, <1>5 DEF IInv, Exclusive
<1>7. /\ loaded' \in BOOLEAN /\ err' \in BOOLEAN /\ fatal' \in BOOLEAN /\ errors' \in 0..MaxErrors
      /\ waitCh' \in Threads \cup {NoThread}
  BY DEF ReadField, IInv, TypeOK
<1> QED BY <1>1, <1>2, <1>3, <1>4, <1>5, <1>6, <1>7, LoadKeeps

LEMMA ReadFailsStep ==
  ASSUME IInv, NEW t \in Threads, ReadFails(t)
  PROVE  IInv' /\ UNCHANGED View!vars
<1> DEFINE r == [th[t] EXCEPT !.pc = "failed"]
<1>1. /\ th' = [th EXCEPT ![t] = r] /\ th[t].pc = "read"
      /\ UNCHANGED <<store, mem, mutex, writes, waitCh>>
  BY DEF ReadFails, Goto
<1>2. r \in ThreadType /\ r.pc = "failed" /\ Len(r.got) <= Len(Keys)
  BY LoadType DEF ThreadType, PCs
<1> HIDE DEF r
<1>3. /\ th' \in [Threads -> ThreadType] /\ th'[t] = r
      /\ \A u \in Threads \ {t} : th'[u] = th[u]
      /\ \A u \in Threads : Len(th'[u].got) <= Len(Keys)
  BY <1>1, <1>2, LoadType
<1>4. Exclusive'
  BY <1>1, <1>2, <1>3 DEF IInv, Exclusive
<1>5. errors' \in 0..MaxErrors
  BY DEF ReadFails, Fails, IInv, TypeOK
<1>6. /\ loaded' \in BOOLEAN /\ err' \in BOOLEAN /\ fatal' \in BOOLEAN
      /\ waitCh' \in Threads \cup {NoThread}
  BY DEF ReadFails, IInv, TypeOK
<1> QED BY <1>1, <1>2, <1>3, <1>4, <1>5, <1>6, LoadKeeps

LEMMA LoadFailedStep ==
  ASSUME IInv, NEW t \in Threads, LoadFailed(t)
  PROVE  IInv' /\ UNCHANGED View!vars
<1> DEFINE r == Returned(th[t])
<1>1. /\ th' = Closing(t, r) /\ th[t].pc = "failed" /\ waitCh' = NoThread
      /\ UNCHANGED <<store, mem, mutex, writes>>
  BY DEF LoadFailed
<1>2. /\ r \in ThreadType /\ r.pc \in {"idle", "load", "lock"} /\ Len(r.got) <= Len(Keys)
  BY LoadType, ReturnedType
<1> HIDE DEF r
<1>3. /\ th' \in [Threads -> ThreadType] /\ th'[t] = r
      /\ \A u \in Threads : Len(th'[u].got) <= Len(Keys)
      /\ \A u \in Threads \ {t} : \/ th'[u] = th[u]
                                 \/ /\ th[u].pc \in {"wait", "waitLock"}
                                    /\ th'[u].pc \in {"woken", "lock"}
  BY <1>1, <1>2, ClosingType DEF IInv
<1>4. Exclusive'
  BY <1>1, <1>2, <1>3 DEF IInv, Exclusive
<1>5. /\ loaded' \in BOOLEAN /\ err' \in BOOLEAN /\ fatal' \in BOOLEAN /\ errors' \in 0..MaxErrors
      /\ waitCh' \in Threads \cup {NoThread}
  BY DEF LoadFailed, IInv, TypeOK
<1> QED BY <1>1, <1>2, <1>3, <1>4, <1>5, LoadKeeps

LEMMA LoadSucceededStep ==
  ASSUME IInv, NEW t \in Threads, LoadSucceeded(t)
  PROVE  IInv' /\ View!Show
<1> DEFINE r == Returned(th[t])
<1>1. /\ th' = Closing(t, r) /\ th[t].pc = "read" /\ waitCh = t /\ waitCh' = NoThread
      /\ mutex = NoThread /\ UNCHANGED <<store, mutex, writes>>
      /\ Len(th[t].got) = Len(Keys) /\ mem' = Read(t)
  BY DEF LoadSucceeded, Free, IInv, Exclusive
<1>2. /\ r \in ThreadType /\ r.pc \in {"idle", "load", "lock"} /\ Len(r.got) <= Len(Keys)
  BY LoadType, ReturnedType
<1> HIDE DEF r
<1>3. /\ th' \in [Threads -> ThreadType] /\ th'[t] = r
      /\ \A u \in Threads : Len(th'[u].got) <= Len(Keys)
      /\ \A u \in Threads \ {t} : \/ th'[u] = th[u]
                                 \/ /\ th[u].pc \in {"wait", "waitLock"}
                                    /\ th'[u].pc \in {"woken", "lock"}
  BY <1>1, <1>2, ClosingType DEF IInv
<1>4. \A f \in Fields : /\ Read(t)[f] \in Nat
                         /\ Shown[f] <= Read(t)[f] /\ Read(t)[f] <= store[f]
  <2> SUFFICES ASSUME NEW f \in Fields
               PROVE  /\ Read(t)[f] \in Nat
                      /\ Shown[f] <= Read(t)[f] /\ Read(t)[f] <= store[f]
    OBVIOUS
  <2> DEFINE k == CHOOSE k \in DOMAIN Keys : Keys[k] = f
  <2>1. k \in DOMAIN Keys /\ Keys[k] = f
    BY KeysCover
  <2>2. Read(t)[f] = th[t].got[k]
    BY DEF Read
  <2> HIDE DEF k
  <2>3. k \in 1..Len(th[t].got)
    BY <1>1, <2>1, KeysCover
  <2>4. th[t].got[k] \in Nat
    BY <2>3, LoadType
  <2>5. th[t].got[k] <= store[Keys[k]] /\ Shown[Keys[k]] <= th[t].got[k]
    BY <1>1, <2>3 DEF IInv, ReadIsRecent
  <2> QED BY <2>1, <2>2, <2>4, <2>5
<1>5. /\ mem' \in [Fields -> Nat] /\ \A f \in Fields : mem'[f] = Read(t)[f] /\ mem'[f] # Cleared
  BY <1>1, <1>4 DEF Read
<1>6. Shown' = [f \in Fields |-> Read(t)[f]]
  BY <1>5 DEF Shown
<1>7. \A u \in Threads : th'[u].pc \notin {"save", "saved", "read", "failed"}
  <2>1. \A u \in Threads : th[u].pc \notin {"save", "saved"}
    BY <1>1, FreeShown
  <2>2. \A u \in Threads \ {t} : th[u].pc \notin {"read", "failed"}
    BY <1>1 DEF IInv, Exclusive
  <2> QED BY <1>2, <1>3, <2>1, <2>2
<1>8. TypeOK'
  <2>1. /\ loaded' \in BOOLEAN /\ err' \in BOOLEAN /\ fatal' \in BOOLEAN /\ errors' \in 0..MaxErrors
        /\ waitCh' \in Threads \cup {NoThread} /\ mutex' \in Threads \cup {NoThread}
    BY DEF LoadSucceeded, IInv, TypeOK
  <2>2. mem' \in [Fields -> Nat \cup {Cleared}]
    BY <1>5
  <2> QED BY <1>1, <1>3, <2>1, <2>2 DEF IInv, TypeOK, ThreadType
<1>9. Exclusive'
  BY <1>1, <1>7 DEF Exclusive
<1>10. ClearedWhileSaving'
  BY <1>5 DEF ClearedWhileSaving
<1>11. ShownIsStored'
  BY <1>1, <1>4, <1>6 DEF IInv, ShownIsStored
<1>12. ReadIsRecent' /\ CopyIsRecent'
  BY <1>7 DEF ReadIsRecent, CopyIsRecent
<1>13. View!Show
  BY <1>1, <1>4, <1>6 DEF View!Show
<1> QED BY <1>8, <1>9, <1>10, <1>11, <1>12, <1>13 DEF IInv

-----------------------------------------------------------------------------
(* Updates and deletions.                                                  *)

LEMMA LockUpdateStep ==
  ASSUME IInv, NEW t \in Threads, LockUpdate(t)
  PROVE  IInv' /\ UNCHANGED View!vars
<1>1. /\ mutex = NoThread /\ waitCh = NoThread /\ mutex' = t /\ th[t].op = "update"
      /\ th[t].pc = "lock" /\ UNCHANGED <<store, mem, writes, waitCh>>
      /\ th' = [th EXCEPT ![t].pc = "save", ![t].local = mem]
  BY DEF LockUpdate, Loading, Free
<1>2. mem \in [Fields -> Nat] /\ \A f \in Fields : mem[f] # Cleared
  BY <1>1, FreeShown DEF IInv, TypeOK
<1> DEFINE r == [th[t] EXCEPT !.pc = "save", !.local = mem]
<1>3. /\ r \in ThreadType /\ r.pc = "save" /\ r.op = "update" /\ r.local = mem
      /\ Len(r.got) <= Len(Keys)
  BY <1>1, <1>2, LoadType DEF ThreadType, PCs
<1>4. th' = [th EXCEPT ![t] = r]
  BY <1>1
<1> HIDE DEF r
<1>5. /\ th' \in [Threads -> ThreadType] /\ th'[t] = r
      /\ \A u \in Threads \ {t} : th'[u] = th[u]
      /\ \A u \in Threads : Len(th'[u].got) <= Len(Keys)
  BY <1>3, <1>4, LoadType
<1>6. \A u \in Threads : th[u].pc \notin {"save", "saved", "read", "failed"}
  BY <1>1, FreeShown DEF IInv, Exclusive
<1>7. Shown' = Shown
  BY <1>1, <1>2 DEF Shown
<1>8. TypeOK'
  <2>1. /\ loaded' \in BOOLEAN /\ err' \in BOOLEAN /\ fatal' \in BOOLEAN /\ errors' \in 0..MaxErrors
        /\ waitCh' \in Threads \cup {NoThread} /\ mutex' \in Threads \cup {NoThread}
    BY DEF LockUpdate, IInv, TypeOK
  <2> QED BY <1>1, <1>5, <2>1 DEF IInv, TypeOK, ThreadType
<1>9. Exclusive'
  BY <1>1, <1>3, <1>5, <1>6 DEF IInv, Exclusive
<1>10. ClearedWhileSaving'
  BY <1>1, <1>2 DEF ClearedWhileSaving
<1>11. ShownIsStored'
  BY <1>1, <1>7 DEF IInv, ShownIsStored
<1>12. ReadIsRecent'
  BY <1>3, <1>5, <1>6 DEF ReadIsRecent
<1>13. CopyIsRecent'
  BY <1>1, <1>3, <1>5, <1>6 DEF CopyIsRecent
<1> QED BY <1>1, <1>7, <1>8, <1>9, <1>10, <1>11, <1>12, <1>13 DEF IInv, View!vars

\* The saver t is done: it is idle, nobody saves and memory is m.
LEMMA SaverEnds ==
  ASSUME IInv, NEW t \in Threads, th[t].pc \in {"save", "saved"},
         th' = [th EXCEPT ![t] = Idle], mutex' = NoThread, UNCHANGED waitCh,
         mem' \in [Fields -> Nat], store' \in [Fields -> Nat \ {0}], writes' \in Nat \ {0},
         loaded' \in BOOLEAN, err' \in BOOLEAN, fatal' \in BOOLEAN, errors' \in 0..MaxErrors,
         \A f \in Fields : mem'[f] <= store'[f] /\ store'[f] <= writes'
  PROVE  IInv' /\ Shown' = mem'
<1>1. /\ th' \in [Threads -> ThreadType] /\ th'[t] = Idle /\ Idle.pc = "idle"
      /\ \A u \in Threads \ {t} : th'[u] = th[u]
      /\ \A u \in Threads : Len(th'[u].got) <= Len(Keys)
  BY IdleType, LoadType
<1>2. mutex = t /\ waitCh = NoThread
  BY DEF IInv, Exclusive
<1>3. \A u \in Threads : th'[u].pc \notin {"save", "saved", "read", "failed"}
  BY <1>1, <1>2 DEF IInv, Exclusive
<1>4. \A f \in Fields : mem'[f] # Cleared
  OBVIOUS
<1>5. Shown' = mem'
  BY <1>4 DEF Shown
<1>6. TypeOK'
  <2>1. /\ waitCh' \in Threads \cup {NoThread} /\ mutex' \in Threads \cup {NoThread}
        /\ mem' \in [Fields -> Nat \cup {Cleared}]
    BY DEF IInv, TypeOK
  <2> QED BY <1>1, <2>1 DEF TypeOK, ThreadType
<1>7. Exclusive'
  BY <1>2, <1>3 DEF Exclusive
<1>8. ClearedWhileSaving'
  BY <1>4 DEF ClearedWhileSaving
<1>9. ShownIsStored'
  BY <1>5 DEF ShownIsStored
<1>10. ReadIsRecent' /\ CopyIsRecent'
  BY <1>3 DEF ReadIsRecent, CopyIsRecent
<1> QED BY <1>5, <1>6, <1>7, <1>8, <1>9, <1>10 DEF IInv

\* While an update saves, memory is what is shown.
LEMMA UpdateShown ==
  ASSUME IInv, NEW t \in Threads, th[t].pc \in {"save", "saved"}, th[t].op = "update"
  PROVE  mem \in [Fields -> Nat] /\ Shown = mem /\ mutex = t
<1>1. \A u \in Threads : th[u].pc \in {"save", "saved"} => u = t
  BY DEF IInv, Exclusive
<1>2. \A f \in Fields : mem[f] # Cleared
  BY <1>1 DEF IInv, ClearedWhileSaving
<1>3. mem \in [Fields -> Nat]
  BY <1>2 DEF IInv, TypeOK
<1>4. mutex = t
  BY DEF IInv, Exclusive
<1> QED BY <1>2, <1>3, <1>4 DEF Shown

LEMMA UpdateRefusedStep ==
  ASSUME IInv, NEW t \in Threads, UpdateRefused(t)
  PROVE  IInv' /\ UNCHANGED View!vars
<1>1. /\ th[t].pc = "save" /\ th[t].op = "update" /\ mutex' = NoThread
      /\ th' = [th EXCEPT ![t] = Idle] /\ UNCHANGED <<store, mem, loaded, err, waitCh, writes, fatal>>
  BY DEF UpdateRefused
<1>2. mem \in [Fields -> Nat] /\ Shown = mem
  BY <1>1, UpdateShown
<1>3. errors' \in 0..MaxErrors
  <2>1. errors \in 0..MaxErrors /\ MaxErrors \in Nat
    BY SettingsAssumption DEF SettingsAssumption, IInv, TypeOK
  <2>2. errors' = errors \/ (errors < MaxErrors /\ errors' = errors + 1)
    BY DEF UpdateRefused, Fails
  <2> QED BY <2>1, <2>2
<1>4. loaded' \in BOOLEAN /\ err' \in BOOLEAN /\ fatal' \in BOOLEAN
  BY <1>1 DEF IInv, TypeOK
<1>5. /\ store' \in [Fields -> Nat \ {0}] /\ writes' \in Nat \ {0}
      /\ \A f \in Fields : mem'[f] <= store'[f] /\ store'[f] <= writes'
  BY <1>1, <1>2 DEF IInv, TypeOK, ShownIsStored
<1>6. IInv' /\ Shown' = mem'
  BY <1>1, <1>2, <1>3, <1>4, <1>5, SaverEnds
<1> QED BY <1>1, <1>2, <1>6 DEF View!vars

LEMMA CommitUpdateStep ==
  ASSUME IInv, NEW t \in Threads, CommitUpdate(t)
  PROVE  IInv' /\ View!Show
<1>1. /\ th[t].pc = "saved" /\ mutex' = NoThread /\ mem' = th[t].local
      /\ loaded' = TRUE /\ err' = FALSE
      /\ th' = [th EXCEPT ![t] = Idle] /\ UNCHANGED <<store, waitCh, writes, errors, fatal>>
  BY DEF CommitUpdate
<1>2. th[t].op = "update" /\ th[t].local \in [Fields -> Nat]
  BY <1>1, LoadType DEF IInv, Exclusive, ThreadType
<1>3. \A f \in Fields : Shown[f] <= mem'[f] /\ mem'[f] <= store[f]
  BY <1>1 DEF IInv, CopyIsRecent
<1>4. loaded' \in BOOLEAN /\ err' \in BOOLEAN /\ fatal' \in BOOLEAN /\ errors' \in 0..MaxErrors
  BY <1>1 DEF IInv, TypeOK
<1>5. /\ store' \in [Fields -> Nat \ {0}] /\ writes' \in Nat \ {0}
      /\ \A f \in Fields : store'[f] <= writes'
  BY <1>1 DEF IInv, TypeOK, ShownIsStored
<1>6. IInv' /\ Shown' = mem'
  BY <1>1, <1>2, <1>3, <1>4, <1>5, SaverEnds
<1> QED BY <1>1, <1>2, <1>3, <1>6 DEF View!Show

LEMMA SaveUpdateStep ==
  ASSUME IInv, NEW t \in Threads, SaveUpdate(t)
  PROVE  IInv' /\ View!Put
<1> DEFINE new == [f \in Fields |-> IF th[t].set # {} /\ f \in th[t].set
                                    THEN writes + 1 ELSE th[t].local[f]]
           r == [th[t] EXCEPT !.pc = "saved", !.local = new]
<1>0. th[t].local \in [Fields -> Nat] /\ writes \in Nat /\ store \in [Fields -> Nat \ {0}]
      /\ th[t].set \in SUBSET Fields
  BY LoadType DEF ThreadType
<1>1. /\ th[t].pc = "save" /\ th[t].op = "update"
      /\ UNCHANGED <<mem, loaded, err, waitCh, mutex, errors, fatal>>
  BY DEF SaveUpdate
<1>2. th' = [th EXCEPT ![t] = r]
  <2>1. CASE th[t].set = {}
    <3>1. th' = [th EXCEPT ![t].pc = "saved"] /\ new = th[t].local
      BY <2>1, <1>0 DEF SaveUpdate, Goto
    <3>2. [th[t] EXCEPT !.pc = "saved"] = r
      BY <3>1, LoadType DEF ThreadType
    <3> QED BY <3>1, <3>2
  <2>2. CASE th[t].set # {}
    BY <2>2 DEF SaveUpdate
  <2> QED BY <2>1, <2>2
<1>3. /\ store' \in [Fields -> Nat \ {0}] /\ writes' \in Nat \ {0}
      /\ \A f \in Fields : /\ store[f] <= store'[f] /\ store'[f] <= writes'
                           /\ th[t].set # {} /\ f \in th[t].set => store'[f] = writes + 1
  <2>1. \A f \in Fields : store[f] <= writes
    BY DEF IInv, ShownIsStored
  <2>2. CASE th[t].set = {}
    BY <2>1, <2>2, <1>0 DEF SaveUpdate, IInv, TypeOK
  <2>3. CASE th[t].set # {}
    <3>1. /\ writes' = writes + 1
          /\ store' = [f \in Fields |-> IF f \in th[t].set THEN writes + 1 ELSE store[f]]
      BY <2>3 DEF SaveUpdate, Write
    <3> QED BY <3>1, <2>1, <1>0
  <2> QED BY <2>2, <2>3
<1>4. new \in [Fields -> Nat]
  BY <1>0
<1>5. /\ \A f \in Fields : Shown[f] = mem[f] /\ th[t].local[f] = mem[f] /\ mem[f] \in Nat
      /\ mutex = t /\ waitCh = NoThread /\ mem \in [Fields -> Nat] /\ Shown = mem
  BY <1>1, UpdateShown DEF IInv, CopyIsRecent, Exclusive
<1>6. \A f \in Fields : mem[f] <= new[f] /\ new[f] <= store'[f]
  <2>1. \A f \in Fields : mem[f] <= store[f] /\ store[f] <= writes
    BY <1>5 DEF IInv, ShownIsStored
  <2> SUFFICES ASSUME NEW f \in Fields PROVE mem[f] <= new[f] /\ new[f] <= store'[f]
    OBVIOUS
  <2>2. /\ store[f] \in Nat /\ store'[f] \in Nat /\ mem[f] \in Nat
        /\ mem[f] <= store[f] /\ store[f] <= writes /\ store[f] <= store'[f]
    BY <1>0, <1>3, <1>5, <2>1
  <2>3. CASE th[t].set # {} /\ f \in th[t].set
    <3>1. new[f] = writes + 1 /\ store'[f] = writes + 1
      BY <1>3, <2>3
    <3> QED BY <1>0, <2>2, <3>1
  <2>4. CASE ~(th[t].set # {} /\ f \in th[t].set)
    <3>1. new[f] = mem[f]
      BY <1>5, <2>4
    <3> QED BY <2>2, <3>1
  <2> QED BY <2>3, <2>4
<1>7. /\ r \in ThreadType /\ r.pc = "saved" /\ r.op = "update" /\ r.local = new
      /\ Len(r.got) <= Len(Keys)
  <2>1. ASSUME NEW l \in [Fields -> Nat]
        PROVE  LET q == [th[t] EXCEPT !.pc = "saved", !.local = l]
               IN  /\ q \in ThreadType /\ q.pc = "saved" /\ q.op = th[t].op /\ q.local = l
                   /\ q.got = th[t].got
    BY LoadType DEF ThreadType, PCs
  <2> QED BY <1>1, <1>4, <2>1, LoadType
<1> HIDE DEF new, r
<1>8. /\ th' \in [Threads -> ThreadType] /\ th'[t] = r
      /\ \A u \in Threads \ {t} : th'[u] = th[u]
      /\ \A u \in Threads : Len(th'[u].got) <= Len(Keys)
  BY <1>2, <1>7, LoadType
<1>9. \A u \in Threads \ {t} : th[u].pc \notin {"save", "saved", "read", "failed"}
  BY <1>5 DEF IInv, Exclusive
<1>10. Shown' = mem /\ \A f \in Fields : mem'[f] # Cleared
  BY <1>1, <1>5 DEF Shown
<1>11. TypeOK'
  BY <1>1, <1>3, <1>8 DEF IInv, TypeOK, ThreadType
<1>12. Exclusive'
  BY <1>1, <1>5, <1>7, <1>8, <1>9 DEF IInv, Exclusive
<1>13. ClearedWhileSaving'
  BY <1>10 DEF ClearedWhileSaving
<1>14. ShownIsStored'
  <2>1. \A f \in Fields : mem[f] <= store[f] /\ store[f] \in Nat /\ store'[f] \in Nat
    BY <1>0, <1>3, <1>5 DEF IInv, ShownIsStored
  <2> QED BY <1>3, <1>5, <1>10, <2>1 DEF ShownIsStored
<1>15. ReadIsRecent'
  BY <1>7, <1>8, <1>9 DEF ReadIsRecent
<1>16. CopyIsRecent'
  BY <1>6, <1>7, <1>8, <1>9, <1>10 DEF CopyIsRecent
<1>17. View!Put
  BY <1>3, <1>5, <1>10 DEF View!Put
<1> QED BY <1>11, <1>12, <1>13, <1>14, <1>15, <1>16, <1>17 DEF IInv

LEMMA LockDeleteStep ==
  ASSUME IInv, NEW t \in Threads, LockDelete(t)
  PROVE  IInv' /\ UNCHANGED View!vars
<1>1. /\ mutex = NoThread /\ waitCh = NoThread /\ th[t].op = "delete" /\ th[t].pc = "lock"
      /\ UNCHANGED <<store, loaded, err, waitCh, writes, errors, fatal>>
  BY DEF LockDelete, Loading, Free
<1>2. mem \in [Fields -> Nat] /\ Shown = mem /\ \A f \in Fields : mem[f] # Cleared
  BY <1>1, FreeShown DEF IInv, TypeOK, Shown
<1>3. CASE th' = [th EXCEPT ![t] = Idle] /\ UNCHANGED <<mem, mutex>>
  <2>1. Idle \in ThreadType /\ Len(Idle.got) <= Len(Keys)
    BY IdleType, LoadType
  <2>2. loaded' \in BOOLEAN /\ err' \in BOOLEAN /\ fatal' \in BOOLEAN /\ errors' \in 0..MaxErrors
    BY <1>1 DEF IInv, TypeOK
  <2> QED BY <1>1, <1>3, <2>1, <2>2, IdleType, OneMoves
<1>4. CASE /\ mutex' = t /\ mem' = [mem EXCEPT ![Autojoin] = Cleared]
           /\ th' = [th EXCEPT ![t].pc = "save", ![t].local = mem]
  <2> DEFINE r == [th[t] EXCEPT !.pc = "save", !.local = mem]
  <2>1. /\ r \in ThreadType /\ r.pc = "save" /\ r.op = "delete" /\ r.local = mem
        /\ Len(r.got) <= Len(Keys)
    BY <1>1, <1>2, LoadType DEF ThreadType, PCs
  <2>2. th' = [th EXCEPT ![t] = r]
    BY <1>4
  <2> HIDE DEF r
  <2>3. /\ th' \in [Threads -> ThreadType] /\ th'[t] = r
        /\ \A u \in Threads \ {t} : th'[u] = th[u]
        /\ \A u \in Threads : Len(th'[u].got) <= Len(Keys)
    BY <2>1, <2>2, LoadType
  <2>4. \A u \in Threads : th[u].pc \notin {"save", "saved", "read", "failed"}
    BY <1>1, FreeShown DEF IInv, Exclusive
  <2>5. /\ mem' \in [Fields -> Nat \cup {Cleared}] /\ mem'[Autojoin] = Cleared
        /\ \A f \in Fields \ {Autojoin} : mem'[f] = mem[f] /\ mem'[f] # Cleared
    BY <1>2, <1>4
  <2>6. Shown' = mem
    BY <1>2, <1>4, <2>1, <2>3, <2>5 DEF Shown
  <2>7. TypeOK'
    BY <1>1, <1>4, <2>3, <2>5 DEF IInv, TypeOK, ThreadType
  <2>8. Exclusive'
    BY <1>1, <1>4, <2>1, <2>3, <2>4 DEF IInv, Exclusive
  <2>9. ClearedWhileSaving'
    BY <2>1, <2>3, <2>5 DEF ClearedWhileSaving
  <2>10. ShownIsStored'
    BY <1>1, <1>2, <2>6 DEF IInv, ShownIsStored
  <2>11. ReadIsRecent'
    BY <2>1, <2>3, <2>4 DEF ReadIsRecent
  <2>12. CopyIsRecent'
    BY <2>1, <2>3, <2>4, <2>5, <2>6 DEF CopyIsRecent
  <2> QED BY <1>1, <1>2, <2>6, <2>7, <2>8, <2>9, <2>10, <2>11, <2>12 DEF IInv, View!vars
<1> QED BY <1>3, <1>4 DEF LockDelete

\* While a deletion saves, only the autojoin channel is shown from its copy.
LEMMA DeleteShown ==
  ASSUME IInv, NEW t \in Threads, th[t].pc = "save", th[t].op = "delete"
  PROVE  /\ \A f \in Fields : Shown[f] = th[t].local[f] /\ th[t].local[f] \in Nat
         /\ \A f \in Fields \ {Autojoin} : mem[f] = th[t].local[f]
BY LoadType DEF IInv, CopyIsRecent, ThreadType

LEMMA SaveDeleteStep ==
  ASSUME IInv, NEW t \in Threads, SaveDelete(t)
  PROVE  IInv' /\ View!PutAndShow
<1>1. /\ th[t].pc = "save" /\ th[t].op = "delete" /\ mutex' = NoThread
      /\ mem' = [mem EXCEPT ![Autojoin] = writes + 1] /\ writes' = writes + 1
      /\ store' = [f \in Fields |-> IF f \in {Autojoin} THEN writes + 1 ELSE store[f]]
      /\ th' = [th EXCEPT ![t] = Idle] /\ UNCHANGED <<loaded, err, waitCh, errors, fatal>>
  BY DEF SaveDelete, Write
<1>2. writes \in Nat /\ store \in [Fields -> Nat \ {0}]
  BY LoadType
<1>3. \A f \in Fields : Shown[f] \in Nat /\ Shown[f] <= store[f] /\ store[f] <= writes
  BY DEF IInv, ShownIsStored
<1>4. \A f \in Fields : mem'[f] = IF f = Autojoin THEN writes + 1 ELSE Shown[f]
  BY <1>1, DeleteShown DEF IInv, TypeOK
<1>5. /\ mem' \in [Fields -> Nat] /\ store' \in [Fields -> Nat \ {0}] /\ writes' \in Nat \ {0}
  <2>1. mem' = [f \in Fields |-> mem'[f]]
    BY <1>1 DEF IInv, TypeOK
  <2>2. \A f \in Fields : mem'[f] \in Nat
    BY <1>2, <1>3, <1>4
  <2>3. writes + 1 \in Nat \ {0}
    BY <1>2
  <2>4. store' \in [Fields -> Nat \ {0}]
    BY <1>1, <1>2, <2>3
  <2> QED BY <1>1, <2>1, <2>2, <2>3, <2>4
<1>6. \A f \in Fields : /\ store[f] <= store'[f] /\ Shown[f] <= mem'[f]
                         /\ mem'[f] <= store'[f] /\ store'[f] <= writes'
  BY <1>1, <1>2, <1>3, <1>4
<1>7. loaded' \in BOOLEAN /\ err' \in BOOLEAN /\ fatal' \in BOOLEAN /\ errors' \in 0..MaxErrors
  BY <1>1 DEF IInv, TypeOK
<1>8. IInv' /\ Shown' = mem'
  BY <1>1, <1>5, <1>6, <1>7, SaverEnds
<1> QED BY <1>5, <1>6, <1>8 DEF View!PutAndShow

LEMMA DeleteFailsStep ==
  ASSUME IInv, NEW t \in Threads, DeleteFails(t)
  PROVE  IInv' /\ UNCHANGED View!vars
<1>1. /\ th[t].pc = "save" /\ th[t].op = "delete" /\ mutex' = NoThread
      /\ mem' = [mem EXCEPT ![Autojoin] = th[t].local[Autojoin]]
      /\ th' = [th EXCEPT ![t] = Idle] /\ UNCHANGED <<store, loaded, err, waitCh, writes, fatal>>
  BY DEF DeleteFails
<1>2. \A f \in Fields : mem'[f] = Shown[f] /\ Shown[f] \in Nat
  BY <1>1, DeleteShown DEF IInv, TypeOK
<1>3. mem' \in [Fields -> Nat] /\ mem' = Shown
  <2>1. mem' = [f \in Fields |-> mem'[f]]
    BY <1>1 DEF IInv, TypeOK
  <2>2. Shown = [f \in Fields |-> Shown[f]]
    BY DEF Shown
  <2> QED BY <1>2, <2>1, <2>2
<1>4. /\ store' \in [Fields -> Nat \ {0}] /\ writes' \in Nat \ {0}
      /\ \A f \in Fields : mem'[f] <= store'[f] /\ store'[f] <= writes'
  BY <1>1, <1>2 DEF IInv, TypeOK, ShownIsStored
<1>5. errors' \in 0..MaxErrors
  BY DEF DeleteFails, Fails, IInv, TypeOK
<1>6. loaded' \in BOOLEAN /\ err' \in BOOLEAN /\ fatal' \in BOOLEAN
  BY <1>1 DEF IInv, TypeOK
<1>7. IInv' /\ Shown' = mem'
  BY <1>1, <1>3, <1>4, <1>5, <1>6, SaverEnds
<1> QED BY <1>1, <1>3, <1>7 DEF View!vars

-----------------------------------------------------------------------------
LEMMA InitHolds == ASSUME Init PROVE IInv /\ View!Init
<1>1. TypeOK
  <2>1. th \in [Threads -> ThreadType] /\ \A t \in Threads : Len(th[t].got) <= Len(Keys)
    BY IdleType DEF Init
  <2>2. /\ store \in [Fields -> Nat \ {0}] /\ mem \in [Fields -> Nat \cup {Cleared}]
        /\ writes \in Nat \ {0} /\ errors \in 0..MaxErrors
    BY DEF Init
  <2>3. /\ loaded \in BOOLEAN /\ err \in BOOLEAN /\ fatal \in BOOLEAN
        /\ waitCh \in Threads \cup {NoThread} /\ mutex \in Threads \cup {NoThread}
    BY DEF Init
  <2> QED BY <2>1, <2>2, <2>3 DEF TypeOK, ThreadType
<1>2. Shown = [f \in Fields |-> 0]
  BY DEF Init, Shown
<1>3. \A t \in Threads : th[t].pc = "idle"
  BY IdleType DEF Init
<1>4. Exclusive
  BY <1>3 DEF Init, Exclusive
<1>5. ClearedWhileSaving
  BY DEF Init, ClearedWhileSaving
<1>6. ShownIsStored
  BY <1>2 DEF Init, ShownIsStored
<1>7. ReadIsRecent /\ CopyIsRecent
  BY <1>3 DEF ReadIsRecent, CopyIsRecent
<1> QED BY <1>1, <1>2, <1>4, <1>5, <1>6, <1>7 DEF IInv, Init, View!Init

LEMMA StepHolds ==
  ASSUME IInv, [Next]_vars
  PROVE  IInv' /\ [View!Next]_(View!vars)
<1>1. ASSUME NEW t \in Threads, Begin(t) \/ Step(t) \/ WaitCancelled(t)
      PROVE  IInv' /\ [View!Next]_(View!vars)
  BY <1>1, MovesStep, UnlockStep, SetupStep, BeginLoadStep, ReadFieldStep, ReadFailsStep,
     LoadFailedStep, LoadSucceededStep, LockUpdateStep, UpdateRefusedStep, SaveUpdateStep,
     CommitUpdateStep, LockDeleteStep, SaveDeleteStep, DeleteFailsStep
     DEF Begin, Step, View!Next
<1>2. CASE UNCHANGED vars
  <2>1. th' = th /\ th \in [Threads -> ThreadType] /\ \A u \in Threads : Len(th[u].got) <= Len(Keys)
    BY <1>2, LoadType DEF vars, IInv, TypeOK, ThreadType
  <2>2. IInv' /\ Shown' = Shown
    BY <1>2, <2>1, MovesKeepInvariant DEF vars, IInv, TypeOK
  <2> QED BY <1>2, <2>2 DEF vars, View!vars
<1> QED BY <1>1, <1>2 DEF Next

\* Type correctness (settings.go, recovery.go:880-962): for any threads,
\* settings and bounds, every variable keeps its type.
THEOREM TypeCorrect == Spec => []TypeOK
<1>1. Init => IInv
  BY InitHolds
<1>2. IInv /\ [Next]_vars => IInv'
  BY StepHolds
<1>3. IInv => TypeOK
  BY DEF IInv
<1> QED BY <1>1, <1>2, <1>3, PTL DEF Spec

\* The settings implement SettingsView: however loads, updates, clean-ups and
\* the dashboard's own writes overlap, what a session shows of a setting was
\* stored and never goes back to an older write (settings.go:196-243).
THEOREM SettingsNeverGoBack == Spec => ImplementsView
<1>1. Init => IInv /\ View!Init
  BY InitHolds
<1>2. IInv /\ [Next]_vars => IInv' /\ [View!Next]_(View!vars)
  BY StepHolds
<1> QED BY <1>1, <1>2, PTL DEF Spec, ImplementsView, View!Spec

-----------------------------------------------------------------------------
(* What a session shows for its settings is what the database holds or     *)
(* held: defaults only after a failed read, and a refresh shows the write  *)
(* it was made for.                                                        *)

\* What a thread has done so far.  A thread that failed to read has counted the error;
\* an update behind its load found the settings loaded, or failed, or a load still under
\* way, so its copy has no default in it; setup's write is in the store, and a load it
\* has begun since reads it or a later one.
Sound(t) ==
  /\ th[t].pc = "failed" => errors > 0
  /\ th[t].op = "update" /\ th[t].pc \notin {"idle", "load", "save", "saved"}
       => loaded \/ errors > 0 \/ Loading
  /\ th[t].op = "update" /\ th[t].pc \in {"save", "saved"}
       => errors > 0 \/ \A f \in Fields : th[t].local[f] # 0
  /\ \A f \in Fields : th[t].mine <= store[f]
  /\ th[t].pc = "read" => \A k \in 1..Len(th[t].got) : th[t].mine <= th[t].got[k]

StoredInv == IInv /\ DefaultsOnlyAfterError /\ \A t \in Threads : Sound(t)

LEMMA StoredTypes ==
  ASSUME StoredInv
  PROVE  /\ th \in [Threads -> ThreadType] /\ errors \in Nat /\ writes \in Nat
         /\ store \in [Fields -> Nat \ {0}] /\ mem \in [Fields -> Nat \cup {Cleared}]
         /\ \A f \in Fields : store[f] <= writes
         /\ loaded \in BOOLEAN
BY DEF StoredInv, IInv, TypeOK, ThreadType, ShownIsStored

\* What no step takes back.
Forward ==
  /\ errors' >= errors /\ (loaded => loaded')
  /\ \A f \in Fields : store[f] <= store'[f]
  /\ Loading => Loading' \/ loaded' \/ errors' > 0

\* A thread that a closed channel woke.
Woken(u) ==
  /\ th[u].pc \in {"wait", "waitLock"} /\ th'[u].pc \in {"woken", "lock"}
  /\ th'[u].op = th[u].op /\ th'[u].mine = th[u].mine

LEMMA OthersSound ==
  ASSUME StoredInv, store' \in [Fields -> Nat \ {0}], errors' \in Nat, Forward,
         NEW u \in Threads, th'[u] = th[u] \/ Woken(u)
  PROVE  Sound(u)'
<1>1. Sound(u) /\ th[u] \in ThreadType /\ errors \in Nat /\ store \in [Fields -> Nat \ {0}]
  BY StoredTypes DEF StoredInv
<1>2. th[u].mine \in Nat
  BY <1>1 DEF ThreadType
<1>3. \A f \in Fields : th[u].mine <= store'[f]
  BY <1>1, <1>2 DEF Sound, Forward
<1>4. CASE th'[u] = th[u]
  BY <1>1, <1>3, <1>4 DEF Sound, Forward
<1>5. CASE Woken(u)
  BY <1>1, <1>3, <1>5 DEF Sound, Forward, Woken
<1> QED
  BY <1>4, <1>5

\* A step of t.
LEMMA StoredStep ==
  ASSUME StoredInv, IInv', Forward, NEW t \in Threads, Sound(t)',
         \A u \in Threads \ {t} : th'[u] = th[u] \/ Woken(u),
         DefaultsOnlyAfterError'
  PROVE  StoredInv'
<1>1. store' \in [Fields -> Nat \ {0}] /\ errors' \in Nat
  BY DEF IInv, TypeOK
<1>2. \A u \in Threads : Sound(u)'
  BY <1>1, OthersSound
<1> QED
  BY <1>2 DEF StoredInv

LEMMA OneSet ==
  ASSUME th \in [Threads -> ThreadType], NEW t \in Threads, NEW r, th' = [th EXCEPT ![t] = r]
  PROVE  th'[t] = r /\ \A u \in Threads \ {t} : th'[u] = th[u]
OBVIOUS

\* What a load leaves of the thread that called it.
LEMMA ReturnedFields ==
  ASSUME NEW r \in ThreadType
  PROVE  /\ Returned(r).pc \in {"idle", "load", "lock"}
         /\ Returned(r).mine \in {0, r.mine}
         /\ Returned(r).op = "update" => r.op = "update"
<1>1. CASE r.op = "update"
  BY <1>1 DEF Returned, Idle
<1>2. CASE r.op = "setup" /\ ~r.force
  BY <1>2 DEF Returned, Idle
<1>3. CASE ~(r.op = "update") /\ ~(r.op = "setup" /\ ~r.force)
  BY <1>3 DEF Returned, Idle
<1> QED BY <1>1, <1>2, <1>3

LEMMA ReturnedSound ==
  ASSUME StoredInv, Forward, store' \in [Fields -> Nat \ {0}], NEW t \in Threads,
         th'[t] = Returned(th[t]),
         th[t].op = "update" => loaded' \/ errors' > 0 \/ Loading'
  PROVE  Sound(t)'
<1>1. th[t] \in ThreadType /\ store \in [Fields -> Nat \ {0}] /\ th[t].mine \in Nat
  BY StoredTypes DEF ThreadType
<1>2. \A f \in Fields : th[t].mine <= store'[f]
  BY <1>1 DEF StoredInv, Sound, Forward
<1>3. /\ th'[t].pc \in {"idle", "load", "lock"} /\ th'[t].mine \in {0, th[t].mine}
      /\ th'[t].op = "update" => th[t].op = "update"
  BY <1>1, ReturnedFields
<1> QED
  BY <1>1, <1>2, <1>3 DEF Sound

LEMMA IdleSound ==
  ASSUME NEW t \in Threads, th'[t] = Idle, store' \in [Fields -> Nat \ {0}] PROVE Sound(t)'
BY DEF Sound, Idle

LEMMA FreshSound ==
  ASSUME NEW t \in Threads, th'[t].mine = 0, store' \in [Fields -> Nat \ {0}],
         \/ th'[t].pc = "load"
         \/ th'[t].pc = "lock" /\ th'[t].op = "delete"
  PROVE  Sound(t)'
BY DEF Sound

\* A step that leaves memory and the store alone.
LEMMA QuietStored ==
  ASSUME StoredInv, IInv', NEW t \in Threads, Sound(t)',
         UNCHANGED <<store, mem, loaded, waitCh>>, errors' >= errors,
         \A u \in Threads \ {t} : th'[u] = th[u]
  PROVE  StoredInv'
<1>1. errors \in Nat /\ errors' \in Nat /\ store \in [Fields -> Nat \ {0}]
  BY StoredTypes DEF IInv, TypeOK
<1>2. Forward
  BY <1>1 DEF Forward, Loading
<1>3. DefaultsOnlyAfterError'
  BY <1>1 DEF StoredInv, DefaultsOnlyAfterError
<1> QED
  BY <1>2, <1>3, StoredStep

LEMMA BeginStored ==
  ASSUME StoredInv, IInv', NEW t \in Threads, Begin(t) PROVE StoredInv'
<1>1. /\ th \in [Threads -> ThreadType] /\ errors \in Nat /\ writes \in Nat
      /\ store \in [Fields -> Nat \ {0}] /\ \A f \in Fields : store[f] <= writes
  BY StoredTypes
<1>2. CASE Use(t)
  <2> DEFINE r == [Idle EXCEPT !.pc = "load", !.op = "use"]
  <2>1. r.pc = "load" /\ r.op = "use" /\ r.mine = 0
    BY DEF Idle
  <2>2. th' = [th EXCEPT ![t] = r]
    BY <1>2 DEF Use
  <2> HIDE DEF r
  <2>3. th'[t] = r /\ \A u \in Threads \ {t} : th'[u] = th[u]
    BY <1>1, <2>2, OneSet
  <2>4. UNCHANGED <<store, mem, loaded, waitCh, errors>>
    BY <1>2 DEF Use
  <2>5. Sound(t)'
    BY <1>1, <2>1, <2>3, <2>4, FreshSound
  <2> QED
    BY <1>1, <2>3, <2>4, <2>5, QuietStored
<1>3. ASSUME NEW D \in SUBSET Fields, Update(t, D) PROVE StoredInv'
  <2> DEFINE r == [Idle EXCEPT !.pc = "load", !.op = "update", !.set = D]
  <2>1. r.pc = "load" /\ r.mine = 0
    BY DEF Idle
  <2>2. th' = [th EXCEPT ![t] = r]
    BY <1>3 DEF Update
  <2> HIDE DEF r
  <2>3. th'[t] = r /\ \A u \in Threads \ {t} : th'[u] = th[u]
    BY <1>1, <2>2, OneSet
  <2>4. UNCHANGED <<store, mem, loaded, waitCh, errors>>
    BY <1>3 DEF Update
  <2>5. Sound(t)'
    BY <1>1, <2>1, <2>3, <2>4, FreshSound
  <2> QED
    BY <1>1, <2>3, <2>4, <2>5, QuietStored
<1>4. CASE Setup(t)
  <2> DEFINE r == [Idle EXCEPT !.pc = "load", !.op = "setup", !.mine = writes + 1]
  <2>1. r.pc = "load" /\ r.op = "setup" /\ r.mine = writes + 1
    BY DEF Idle
  <2>2. th' = [th EXCEPT ![t] = r]
    BY <1>4 DEF Setup
  <2> HIDE DEF r
  <2>3. th'[t] = r /\ \A u \in Threads \ {t} : th'[u] = th[u]
    BY <1>1, <2>2, OneSet
  <2>4. \A f \in Fields : store'[f] = writes + 1
    BY <1>4 DEF Setup, Write
  <2>5. Sound(t)'
    BY <1>1, <2>1, <2>3, <2>4 DEF Sound
  <2>6. Forward
    BY <1>1, <1>4, <2>4 DEF Forward, Loading, Setup
  <2>7. DefaultsOnlyAfterError'
    BY <1>4 DEF StoredInv, DefaultsOnlyAfterError, Setup
  <2> QED
    BY <2>3, <2>5, <2>6, <2>7, StoredStep
<1>5. CASE ChannelDeleted(t)
  <2> DEFINE r == [Idle EXCEPT !.pc = "lock", !.op = "delete"]
  <2>1. r.pc = "lock" /\ r.op = "delete" /\ r.mine = 0
    BY DEF Idle
  <2>2. th' = [th EXCEPT ![t] = r]
    BY <1>5 DEF ChannelDeleted
  <2> HIDE DEF r
  <2>3. th'[t] = r /\ \A u \in Threads \ {t} : th'[u] = th[u]
    BY <1>1, <2>2, OneSet
  <2>4. UNCHANGED <<store, mem, loaded, waitCh, errors>>
    BY <1>5 DEF ChannelDeleted
  <2>5. Sound(t)'
    BY <1>1, <2>1, <2>3, <2>4, FreshSound
  <2> QED
    BY <1>1, <2>3, <2>4, <2>5, QuietStored
<1> QED
  BY <1>2, <1>3, <1>4, <1>5 DEF Begin

\* Waiting for a load, and its end as a waiter sees it.
LEMMA WaitStored ==
  ASSUME StoredInv, IInv', NEW t \in Threads,
         \/ AlreadyLoaded(t) \/ WaitForLoad(t) \/ WaitCancelled(t) \/ AfterWait(t)
         \/ WaitToLock(t)
  PROVE  StoredInv'
<1>1. /\ th \in [Threads -> ThreadType] /\ errors \in Nat
      /\ store \in [Fields -> Nat \ {0}] /\ Sound(t)
      /\ th[t] \in ThreadType /\ th[t].mine \in Nat
  BY StoredTypes DEF StoredInv, ThreadType
<1>2. UNCHANGED <<store, mem, loaded, err, waitCh, errors>>
  BY DEF AlreadyLoaded, WaitForLoad, WaitCancelled, AfterWait, WaitToLock
<1>3. Forward
  BY <1>1, <1>2 DEF Forward, Loading
<1> DEFINE r == th'[t]
<1>4. \A u \in Threads \ {t} : th'[u] = th[u]
  BY <1>1 DEF AlreadyLoaded, WaitForLoad, WaitCancelled, AfterWait, WaitToLock
<1>5. Sound(t)'
  <2>1. CASE /\ th'[t] = Returned(th[t])
             /\ \/ loaded
                \/ th[t].pc \in {"wait", "woken"}
    BY <1>1, <1>2, <1>3, <2>1, ReturnedSound DEF Sound, Loading
  <2>2. CASE th'[t] = Idle
    BY <1>1, <1>2, <2>2, IdleSound
  <2>3. CASE WaitForLoad(t) \/ WaitToLock(t)
    <3>1. /\ th'[t].pc \in {"wait", "waitLock"} /\ th'[t].mine = th[t].mine
          /\ th'[t].op = th[t].op
      BY <1>1, <2>3 DEF WaitForLoad, WaitToLock, ThreadType
    <3>2. Loading'
      BY <1>2, <2>3 DEF WaitForLoad, WaitToLock, Loading
    <3> QED
      BY <1>1, <1>2, <3>1, <3>2 DEF Sound
  <2>4. CASE AfterWait(t) /\ ~(~th[t].force \/ loaded)
    <3>1. /\ th'[t].pc \in {"load", "unheld"} /\ th'[t].mine = th[t].mine
          /\ th'[t].op = th[t].op
      BY <1>1, <2>4 DEF AfterWait, ThreadType
    <3>2. th[t].pc = "woken"
      BY <2>4 DEF AfterWait
    <3> QED
      BY <1>1, <1>2, <3>1, <3>2 DEF Sound, Loading
  <2>5. CASE AfterWait(t) /\ (~th[t].force \/ loaded)
    <3>1. th[t].pc = "woken" /\ th'[t] = Returned(th[t])
      BY <1>1, <2>5 DEF AfterWait
    <3> QED
      BY <2>1, <3>1
  <2>6. CASE AlreadyLoaded(t)
    <3>1. loaded /\ th'[t] = Returned(th[t])
      BY <1>1, <2>6 DEF AlreadyLoaded
    <3> QED
      BY <2>1, <3>1
  <2>7. CASE WaitCancelled(t)
    <3>1. \/ th[t].pc = "wait" /\ th'[t] = Returned(th[t])
          \/ th'[t] = Idle
      BY <1>1, <2>7 DEF WaitCancelled
    <3> QED
      BY <2>1, <2>2, <3>1
  <2> QED
    BY <2>3, <2>4, <2>5, <2>6, <2>7
<1> QED
  BY <1>1, <1>2, <1>4, <1>5, QuietStored

\* A load begins: it has read nothing yet.
LEMMA BeginLoadStored ==
  ASSUME StoredInv, IInv', NEW t \in Threads, BeginLoad(t) PROVE StoredInv'
<1>1. /\ th \in [Threads -> ThreadType] /\ th[t] \in ThreadType /\ errors \in Nat /\ loaded \in BOOLEAN
      /\ store \in [Fields -> Nat \ {0}] /\ Sound(t)
  BY StoredTypes DEF StoredInv
<1>2. /\ th'[t].pc = "read" /\ th'[t].got = <<>> /\ th'[t].mine = th[t].mine /\ th'[t].op = th[t].op
      /\ \A u \in Threads \ {t} : th'[u] = th[u]
  BY <1>1 DEF BeginLoad, ThreadType
<1>3. UNCHANGED <<store, mem, loaded, errors>> /\ Loading'
  BY SettingsAssumption DEF BeginLoad, Loading
<1>4. Forward
  BY <1>1, <1>3 DEF Forward
<1>5. DefaultsOnlyAfterError'
  BY <1>3 DEF StoredInv, DefaultsOnlyAfterError
<1>6. Sound(t)'
  BY <1>1, <1>2, <1>3 DEF Sound
<1> QED BY <1>2, <1>4, <1>5, <1>6, StoredStep

\* A column is read: what is stored by now, at least what setup wrote.
LEMMA ReadFieldStored ==
  ASSUME StoredInv, IInv', NEW t \in Threads, ReadField(t) PROVE StoredInv'
<1>1. /\ th \in [Threads -> ThreadType] /\ th[t] \in ThreadType /\ errors \in Nat
      /\ store \in [Fields -> Nat \ {0}] /\ Sound(t)
  BY StoredTypes DEF StoredInv
<1> DEFINE n == Len(th[t].got) v == store[Keys[n + 1]]
<1>2. th[t].got \in Seq(Nat \ {0}) /\ n \in Nat /\ n + 1 \in DOMAIN Keys
  BY <1>1, KeysCover DEF ReadField, ThreadType
<1>3. v \in Nat \ {0} /\ th[t].mine <= v
  BY <1>1, <1>2, KeysCover DEF Sound
<1> HIDE DEF v
<1>4. /\ th'[t].pc = "read" /\ th'[t].got = Append(th[t].got, v)
      /\ th'[t].mine = th[t].mine /\ th'[t].op = th[t].op
      /\ \A u \in Threads \ {t} : th'[u] = th[u]
  BY <1>1 DEF ReadField, ThreadType, v
<1>5. UNCHANGED <<store, mem, loaded, waitCh, errors>> /\ th[t].pc = "read"
  BY DEF ReadField
<1>6. \A k \in 1..Len(th'[t].got) : th[t].mine <= th'[t].got[k]
  <2> TAKE k \in 1..Len(th'[t].got)
  <2>1. CASE k \in 1..n
    <3>1. th'[t].got[k] = th[t].got[k]
      BY <1>2, <1>4, <2>1
    <3> QED BY <1>1, <1>5, <2>1, <3>1 DEF Sound
  <2>2. CASE k = n + 1
    BY <1>2, <1>3, <1>4, <2>2
  <2> QED BY <1>2, <1>3, <1>4, <2>1, <2>2
<1>7. Sound(t)'
  BY <1>1, <1>4, <1>5, <1>6 DEF Sound, Loading
<1> QED BY <1>1, <1>4, <1>5, <1>7, QuietStored

LEMMA ReadFailsStored ==
  ASSUME StoredInv, IInv', NEW t \in Threads, ReadFails(t) PROVE StoredInv'
<1>1. /\ th \in [Threads -> ThreadType] /\ th[t] \in ThreadType /\ errors \in Nat
      /\ store \in [Fields -> Nat \ {0}] /\ Sound(t)
  BY StoredTypes DEF StoredInv
<1>2. /\ th'[t].pc = "failed" /\ th'[t].mine = th[t].mine /\ th'[t].op = th[t].op
      /\ \A u \in Threads \ {t} : th'[u] = th[u]
  BY <1>1 DEF ReadFails, Goto, ThreadType
<1>3. UNCHANGED <<store, mem, loaded, waitCh>> /\ errors' = errors + 1
  BY DEF ReadFails, Fails
<1>4. Sound(t)'
  BY <1>1, <1>2, <1>3 DEF Sound
<1> QED BY <1>1, <1>2, <1>3, <1>4, QuietStored

\* What the end of a load does to the threads.
LEMMA ClosingWakes ==
  ASSUME th \in [Threads -> ThreadType], NEW t \in Threads, NEW r, th' = Closing(t, r)
  PROVE  th'[t] = r /\ \A u \in Threads \ {t} : th'[u] = th[u] \/ Woken(u)
<1>1. th'[t] = r
  BY DEF Closing
<1>2. ASSUME NEW u \in Threads \ {t} PROVE th'[u] = th[u] \/ Woken(u)
  <2>1. th[u] \in ThreadType
    OBVIOUS
  <2>2. \/ th'[u] = th[u]
        \/ th[u].pc = "wait" /\ th'[u] = [th[u] EXCEPT !.pc = "woken", !.on = NoThread]
        \/ th[u].pc = "waitLock" /\ th'[u] = [th[u] EXCEPT !.pc = "lock", !.on = NoThread]
    BY DEF Closing
  <2> QED BY <2>1, <2>2 DEF Woken, ThreadType
<1> QED BY <1>1, <1>2

LEMMA LoadFailedStored ==
  ASSUME StoredInv, IInv', NEW t \in Threads, LoadFailed(t) PROVE StoredInv'
<1>1. /\ th \in [Threads -> ThreadType] /\ errors \in Nat
      /\ store \in [Fields -> Nat \ {0}] /\ Sound(t) /\ errors > 0
  BY StoredTypes DEF StoredInv, Sound, LoadFailed
<1>2. UNCHANGED <<store, mem, loaded, errors>>
  BY DEF LoadFailed
<1>3. th'[t] = Returned(th[t]) /\ \A u \in Threads \ {t} : th'[u] = th[u] \/ Woken(u)
  BY <1>1, ClosingWakes DEF LoadFailed
<1>4. Forward
  BY <1>1, <1>2 DEF Forward
<1>5. DefaultsOnlyAfterError'
  BY <1>1, <1>2 DEF DefaultsOnlyAfterError
<1>6. Sound(t)'
  BY <1>1, <1>2, <1>3, <1>4, ReturnedSound
<1> QED BY <1>3, <1>4, <1>5, <1>6, StoredStep

\* A load that succeeds has read every column: none is a default, none older than
\* what its thread wrote.
LEMMA ReadIsStored ==
  ASSUME StoredInv, NEW t \in Threads, LoadSucceeded(t)
  PROVE  \A f \in Fields : mem'[f] \in Nat \ {0} /\ mem'[f] >= th[t].mine
<1> TAKE f \in Fields
<1>1. th[t] \in ThreadType /\ Sound(t) /\ th[t].pc = "read" /\ Len(th[t].got) = Len(Keys)
  BY StoredTypes DEF StoredInv, LoadSucceeded
<1>2. th[t].got \in Seq(Nat \ {0}) /\ th[t].mine \in Nat
  BY <1>1 DEF ThreadType
<1> DEFINE k == CHOOSE i \in DOMAIN Keys : Keys[i] = f
<1>3. k \in 1..Len(th[t].got)
  BY <1>1, KeysCover
<1>4. mem'[f] = th[t].got[k]
  BY DEF LoadSucceeded, Read
<1> HIDE DEF k
<1>5. th[t].got[k] \in Nat \ {0} /\ th[t].mine <= th[t].got[k]
  BY <1>1, <1>2, <1>3 DEF Sound
<1> QED BY <1>2, <1>4, <1>5

LEMMA LoadSucceededStored ==
  ASSUME StoredInv, IInv', NEW t \in Threads, LoadSucceeded(t) PROVE StoredInv'
<1>1. /\ th \in [Threads -> ThreadType] /\ errors \in Nat
      /\ store \in [Fields -> Nat \ {0}] /\ Sound(t)
  BY StoredTypes DEF StoredInv
<1>2. UNCHANGED <<store, errors>> /\ loaded'
  BY DEF LoadSucceeded
<1>3. th'[t] = Returned(th[t]) /\ \A u \in Threads \ {t} : th'[u] = th[u] \/ Woken(u)
  BY <1>1, ClosingWakes DEF LoadSucceeded
<1>4. Forward
  BY <1>1, <1>2 DEF Forward
<1>5. DefaultsOnlyAfterError'
  BY ReadIsStored DEF DefaultsOnlyAfterError
<1>6. Sound(t)'
  BY <1>1, <1>2, <1>3, <1>4, ReturnedSound
<1> QED BY <1>3, <1>4, <1>5, <1>6, StoredStep

\* The copy an update takes has no default in it, unless a read failed.
LEMMA LockUpdateStored ==
  ASSUME StoredInv, IInv', NEW t \in Threads, LockUpdate(t) PROVE StoredInv'
<1>1. /\ th \in [Threads -> ThreadType] /\ th[t] \in ThreadType /\ errors \in Nat
      /\ store \in [Fields -> Nat \ {0}] /\ mem \in [Fields -> Nat \cup {Cleared}] /\ Sound(t)
  BY StoredTypes DEF StoredInv
<1>2. /\ th'[t].pc = "save" /\ th'[t].local = mem /\ th'[t].mine = th[t].mine
      /\ th'[t].op = th[t].op /\ \A u \in Threads \ {t} : th'[u] = th[u]
  BY <1>1 DEF LockUpdate, ThreadType
<1>3. UNCHANGED <<store, mem, loaded, waitCh, errors>>
  BY DEF LockUpdate
<1>4. loaded \/ errors > 0
  BY <1>1 DEF LockUpdate, Sound
<1>5. errors > 0 \/ \A f \in Fields : mem[f] # 0
  BY <1>4 DEF StoredInv, DefaultsOnlyAfterError
<1>6. Sound(t)'
  BY <1>1, <1>2, <1>3, <1>5 DEF Sound
<1> QED BY <1>1, <1>2, <1>3, <1>6, QuietStored

LEMMA UpdateRefusedStored ==
  ASSUME StoredInv, IInv', NEW t \in Threads, UpdateRefused(t) PROVE StoredInv'
<1>1. /\ th \in [Threads -> ThreadType] /\ errors \in Nat /\ store \in [Fields -> Nat \ {0}]
  BY StoredTypes
<1>2. th'[t] = Idle /\ \A u \in Threads \ {t} : th'[u] = th[u]
  BY <1>1 DEF UpdateRefused
<1>3. UNCHANGED <<store, mem, loaded, waitCh>> /\ errors' >= errors
  BY <1>1 DEF UpdateRefused, Fails
<1>4. Sound(t)'
  BY <1>1, <1>2, <1>3, IdleSound
<1> QED BY <1>2, <1>3, <1>4, QuietStored

LEMMA SaveUpdateStored ==
  ASSUME StoredInv, IInv', NEW t \in Threads, SaveUpdate(t) PROVE StoredInv'
<1>1. /\ th \in [Threads -> ThreadType] /\ th[t] \in ThreadType /\ errors \in Nat /\ writes \in Nat
      /\ store \in [Fields -> Nat \ {0}] /\ Sound(t) /\ \A f \in Fields : store[f] <= writes
      /\ th[t].mine \in Nat /\ th[t].local \in [Fields -> Nat]
  BY StoredTypes DEF StoredInv, ThreadType
<1>2. /\ th'[t].pc = "saved" /\ th'[t].mine = th[t].mine /\ th'[t].op = th[t].op
      /\ \A u \in Threads \ {t} : th'[u] = th[u]
  BY <1>1 DEF SaveUpdate, Goto, ThreadType
<1>3. \A f \in Fields : th'[t].local[f] \in {th[t].local[f], writes + 1}
  <2>1. CASE th' = [th EXCEPT ![t].pc = "saved"]
    <3>1. th'[t].local = th[t].local
      BY <1>1, <2>1 DEF ThreadType
    <3> QED BY <3>1
  <2>2. CASE th' = [th EXCEPT ![t].pc = "saved",
                              ![t].local = [f \in Fields |-> IF f \in th[t].set
                                                             THEN writes + 1 ELSE @[f]]]
    <3>1. th'[t].local = [f \in Fields |-> IF f \in th[t].set
                                           THEN writes + 1 ELSE th[t].local[f]]
      BY <1>1, <2>2 DEF ThreadType
    <3> QED BY <3>1
  <2> QED BY <2>1, <2>2 DEF SaveUpdate, Goto
<1>4. UNCHANGED <<mem, loaded, waitCh, errors>> /\ th[t].pc = "save" /\ th[t].op = "update"
  BY DEF SaveUpdate
<1>5. store' \in [Fields -> Nat \ {0}] /\ \A f \in Fields : store[f] <= store'[f]
  <2>1. CASE store' = store
    BY <1>1, <2>1
  <2>2. CASE Write(th[t].set)
    BY <1>1, <2>2 DEF Write
  <2> QED BY <2>1, <2>2 DEF SaveUpdate
<1>6. errors > 0 \/ \A f \in Fields : th'[t].local[f] # 0
  BY <1>1, <1>3, <1>4 DEF Sound
<1>7. \A f \in Fields : th[t].mine <= store'[f]
  BY <1>1, <1>5 DEF Sound
<1>8. Sound(t)'
  BY <1>2, <1>4, <1>6, <1>7 DEF Sound
<1>9. Forward /\ DefaultsOnlyAfterError'
  BY <1>1, <1>4, <1>5 DEF Forward, Loading, StoredInv, DefaultsOnlyAfterError
<1> QED BY <1>2, <1>8, <1>9, StoredStep

LEMMA CommitUpdateStored ==
  ASSUME StoredInv, IInv', NEW t \in Threads, CommitUpdate(t) PROVE StoredInv'
<1>1. /\ th \in [Threads -> ThreadType] /\ errors \in Nat /\ store \in [Fields -> Nat \ {0}]
      /\ Sound(t) /\ th[t].op = "update"
  BY StoredTypes DEF StoredInv, IInv, Exclusive, CommitUpdate
<1>2. th'[t] = Idle /\ \A u \in Threads \ {t} : th'[u] = th[u]
  BY <1>1 DEF CommitUpdate
<1>3. UNCHANGED <<store, waitCh, errors>> /\ loaded' /\ mem' = th[t].local /\ th[t].pc = "saved"
  BY DEF CommitUpdate
<1>4. Sound(t)'
  BY <1>1, <1>2, <1>3, IdleSound
<1>5. Forward
  BY <1>1, <1>3 DEF Forward, Loading
<1>6. DefaultsOnlyAfterError'
  BY <1>1, <1>3 DEF Sound, DefaultsOnlyAfterError
<1> QED BY <1>2, <1>4, <1>5, <1>6, StoredStep

\* A deletion clears a field, which is not a default.
LEMMA LockDeleteStored ==
  ASSUME StoredInv, IInv', NEW t \in Threads, LockDelete(t) PROVE StoredInv'
<1>1. /\ th \in [Threads -> ThreadType] /\ th[t] \in ThreadType /\ errors \in Nat
      /\ store \in [Fields -> Nat \ {0}] /\ mem \in [Fields -> Nat \cup {Cleared}] /\ Sound(t)
  BY StoredTypes DEF StoredInv
<1>2. UNCHANGED <<store, loaded, waitCh, errors>> /\ th[t].op = "delete"
  BY DEF LockDelete
<1>3. \A u \in Threads \ {t} : th'[u] = th[u]
  BY <1>1 DEF LockDelete
<1>4. th'[t] = Idle \/ /\ th'[t].pc = "save" /\ th'[t].op = "delete"
                       /\ th'[t].mine = th[t].mine
  BY <1>1, <1>2 DEF LockDelete, ThreadType
<1>5. Sound(t)'
  BY <1>1, <1>2, <1>4, IdleSound DEF Sound
<1>6. \A f \in Fields : mem'[f] = 0 => mem[f] = 0
  <2>1. Cleared # 0
    BY SettingsAssumption
  <2>2. mem' = mem \/ mem' = [mem EXCEPT ![Autojoin] = Cleared]
    BY DEF LockDelete
  <2> QED BY <1>1, <2>1, <2>2
<1>7. DefaultsOnlyAfterError'
  BY <1>2, <1>6 DEF StoredInv, DefaultsOnlyAfterError
<1>8. Forward
  BY <1>1, <1>2 DEF Forward, Loading
<1> QED BY <1>3, <1>5, <1>7, <1>8, StoredStep

LEMMA SaveDeleteStored ==
  ASSUME StoredInv, IInv', NEW t \in Threads, SaveDelete(t) PROVE StoredInv'
<1>1. /\ th \in [Threads -> ThreadType] /\ errors \in Nat /\ writes \in Nat
      /\ store \in [Fields -> Nat \ {0}] /\ mem \in [Fields -> Nat \cup {Cleared}]
      /\ \A f \in Fields : store[f] <= writes
  BY StoredTypes
<1>2. UNCHANGED <<loaded, waitCh, errors>>
  BY DEF SaveDelete
<1>3. th'[t] = Idle /\ \A u \in Threads \ {t} : th'[u] = th[u]
  BY <1>1 DEF SaveDelete
<1>4. store' \in [Fields -> Nat \ {0}] /\ \A f \in Fields : store[f] <= store'[f]
  BY <1>1 DEF SaveDelete, Write
<1>5. \A f \in Fields : mem'[f] = 0 => mem[f] = 0
  BY <1>1 DEF SaveDelete
<1>6. Sound(t)'
  BY <1>3, <1>4, IdleSound
<1>7. Forward /\ DefaultsOnlyAfterError'
  BY <1>1, <1>2, <1>4, <1>5 DEF Forward, Loading, StoredInv, DefaultsOnlyAfterError
<1> QED BY <1>3, <1>6, <1>7, StoredStep

LEMMA DeleteFailsStored ==
  ASSUME StoredInv, IInv', NEW t \in Threads, DeleteFails(t) PROVE StoredInv'
<1>1. /\ th \in [Threads -> ThreadType] /\ errors \in Nat /\ store \in [Fields -> Nat \ {0}]
  BY StoredTypes
<1>2. UNCHANGED <<store, loaded, waitCh>> /\ errors' = errors + 1
  BY DEF DeleteFails, Fails
<1>3. th'[t] = Idle /\ \A u \in Threads \ {t} : th'[u] = th[u]
  BY <1>1 DEF DeleteFails
<1>4. Sound(t)'
  BY <1>1, <1>2, <1>3, IdleSound
<1>5. Forward /\ DefaultsOnlyAfterError'
  BY <1>1, <1>2 DEF Forward, Loading, DefaultsOnlyAfterError
<1> QED BY <1>3, <1>4, <1>5, StoredStep

LEMMA UnlockStored ==
  ASSUME StoredInv, IInv', NEW t \in Threads, UnlockUnheld(t) PROVE StoredInv'
<1>1. UNCHANGED <<store, mem, loaded, waitCh, th, errors>> /\ errors \in Nat
  BY StoredTypes DEF UnlockUnheld
<1>2. Sound(t)'
  BY <1>1 DEF StoredInv, Sound, Loading
<1> QED BY <1>1, <1>2, QuietStored

LEMMA InitStored == ASSUME Init PROVE StoredInv
<1>1. IInv /\ store \in [Fields -> Nat \ {0}] /\ ~loaded
  BY InitHolds DEF IInv, TypeOK, Init
<1>2. ASSUME NEW t \in Threads PROVE Sound(t)
  BY <1>1, IdleType DEF Init, Sound, Idle
<1> QED BY <1>1, <1>2 DEF StoredInv, DefaultsOnlyAfterError

LEMMA StoredHolds == ASSUME StoredInv, [Next]_vars PROVE StoredInv'
<1>1. IInv'
  BY StepHolds DEF StoredInv
<1>2. ASSUME NEW t \in Threads, Begin(t) \/ Step(t) \/ WaitCancelled(t) PROVE StoredInv'
  BY <1>1, <1>2, BeginStored, WaitStored, BeginLoadStored, UnlockStored, ReadFieldStored,
     ReadFailsStored, LoadFailedStored, LoadSucceededStored, LockUpdateStored,
     UpdateRefusedStored, SaveUpdateStored, CommitUpdateStored, LockDeleteStored,
     SaveDeleteStored, DeleteFailsStored DEF Step
<1>3. CASE UNCHANGED vars
  <2>1. UNCHANGED <<store, mem, loaded, waitCh, th, errors>>
    BY <1>3 DEF vars
  <2> QED BY <1>1, <2>1 DEF StoredInv, DefaultsOnlyAfterError, Sound, Loading
<1> QED BY <1>2, <1>3 DEF Next

\* Only the end of a load that succeeds takes a forced refresh on from its reads.
LEMMA StepOfRefresh ==
  ASSUME StoredInv, Next, NEW t \in Threads, th[t].op = "setup", th[t].pc = "read",
         th'[t].pc \notin {"read", "failed"}
  PROVE  LoadSucceeded(t)
<1>1. th \in [Threads -> ThreadType] /\ th[t] \in ThreadType
  BY StoredTypes
<1>2. PICK u \in Threads : Begin(u) \/ Step(u) \/ WaitCancelled(u)
  BY DEF Next
<1>3. CASE u = t
  <2>1. ReadField(t) => th'[t].pc = "read"
    BY <1>1 DEF ReadField, ThreadType
  <2>2. ReadFails(t) => th'[t].pc = "failed"
    BY <1>1 DEF ReadFails, Goto, ThreadType
  <2>3. UnlockUnheld(t) => th'[t].pc = th[t].pc
    BY DEF UnlockUnheld
  <2>4. ~Begin(t) /\ ~WaitCancelled(t)
    BY DEF Begin, Use, Setup, ChannelDeleted, Update, WaitCancelled
  <2>5. /\ ~AlreadyLoaded(t) /\ ~WaitForLoad(t) /\ ~BeginLoad(t) /\ ~AfterWait(t)
        /\ ~LoadFailed(t) /\ ~WaitToLock(t) /\ ~LockUpdate(t) /\ ~UpdateRefused(t)
        /\ ~SaveUpdate(t) /\ ~CommitUpdate(t) /\ ~LockDelete(t) /\ ~SaveDelete(t)
        /\ ~DeleteFails(t)
    BY DEF AlreadyLoaded, WaitForLoad, BeginLoad, AfterWait, LoadFailed, WaitToLock, LockUpdate,
           UpdateRefused, SaveUpdate, CommitUpdate, LockDelete, SaveDelete, DeleteFails
  <2> QED BY <1>2, <1>3, <2>1, <2>2, <2>3, <2>4, <2>5 DEF Step
<1>4. CASE u # t
  <2>1. th'[t] = th[t] \/ Woken(t)
    <3>1. CASE LoadFailed(u) \/ LoadSucceeded(u)
      BY <1>1, <1>4, <3>1, ClosingWakes DEF LoadFailed, LoadSucceeded
    <3>2. CASE Begin(u) \/ WaitCancelled(u)
      BY <1>1, <1>4, <3>2 DEF Begin, Use, Setup, ChannelDeleted, Update, WaitCancelled
    <3>3. CASE Step(u) /\ ~LoadFailed(u) /\ ~LoadSucceeded(u)
      BY <1>1, <1>4, <3>3
         DEF Step, Goto, AlreadyLoaded, WaitForLoad, BeginLoad, AfterWait, UnlockUnheld, ReadField,
             ReadFails, WaitToLock, LockUpdate, UpdateRefused, SaveUpdate, CommitUpdate,
             LockDelete, SaveDelete, DeleteFails
    <3> QED BY <1>2, <3>1, <3>2, <3>3
  <2> QED BY <2>1 DEF Woken
<1> QED BY <1>3, <1>4

\* What a session passes for its settings is what the database holds or held, for any
\* threads, settings and bounds: a default is shown as loaded only after a read failed,
\* and a forced refresh that ends its own load shows what its caller had written before
\* (settings.go:196-243, 296; setup.go:332-336).
THEOREM SettingsAreStored == Spec => ShowsWhatIsStored
<1> DEFINE Refreshed == \A t \in Threads :
       (/\ th[t].op = "setup" /\ th[t].force /\ th[t].pc = "read"
        /\ th'[t].pc \notin {"read", "failed"})
         => \A f \in Fields : mem'[f] >= th[t].mine
<1>1. Init => StoredInv
  BY InitStored
<1>2. StoredInv /\ [Next]_vars => StoredInv'
  BY StoredHolds
<1>3. StoredInv => DefaultsOnlyAfterError
  BY DEF StoredInv
<1>4. StoredInv /\ [Next]_vars => [Refreshed]_vars
  <2>1. ASSUME StoredInv, Next PROVE Refreshed
    BY <2>1, StepOfRefresh, ReadIsStored
  <2> QED BY <2>1
<1>5. RefreshSeesWrite <=> [][Refreshed]_vars
  BY DEF RefreshSeesWrite
<1> HIDE DEF Refreshed
<1> QED BY <1>1, <1>2, <1>3, <1>4, <1>5, PTL DEF Spec, ShowsWhatIsStored
=============================================================================

-------------------------- MODULE ThreadLock_proofs --------------------------
(***************************************************************************)
(* Proofs about ThreadLock, for any threads and locks and any depth.       *)
(***************************************************************************)
EXTENDS ThreadLock, TLAPS

Creating == {"again", "make", "mark", "unlock"}

\* The thread has the object between the two ends of an access.
Holding(t, o) == IF o = InitSem THEN pc[t] \in Creating ELSE holds[t][o] > 0

\* It has taken what its semaphore counts and not given it back.
Has(t, o) ==
    \/ Holding(t, o)
    \/ sem[t] = o /\ pc[t] \in {"won", "busy", "own", "post"}

\* What a thread knows of itself where it is.
Local ==
    \A t \in Thread :
        /\ pc[t] # "fatal"
        /\ pc[t] = "swap" => seen[t] > 0
        /\ pc[t] \in Creating => sem[t] = InitSem
        /\ pc[t] \notin {"idle", "check"} => sem[t] \in {InitSem, want[t]}
        /\ pc[t] # "idle" => holds[t][want[t]] = 0

\* Where a thread is past the creation of the semaphore it wants.
Ready ==
    \A t \in Thread :
        /\ pc[t] \notin {"idle", "check"} /\ sem[t] # InitSem => initialized[sem[t]]
        /\ pc[t] \in {"unlock", "post", "wake", "clear"} => initialized[want[t]]
        /\ \A l \in Lock : holds[t][l] > 0 => initialized[l]

Created ==
    /\ \A l \in Lock :
          /\ made[l] \in {0, 1}
          /\ initialized[l] => made[l] = 1
          /\ made[l] = 1 /\ ~initialized[l] =>
                \E t \in Thread : pc[t] = "mark" /\ want[t] = l
    /\ \A t \in Thread :
          /\ pc[t] = "make" => made[want[t]] = 0
          /\ pc[t] = "mark" => made[want[t]] = 1

\* One token for each semaphore, with the semaphore or with one thread.
Tokens ==
    \A o \in Object :
        /\ value[o] \in {0, 1}
        /\ value[o] = 1 => \A t \in Thread : ~Has(t, o)
        /\ \A t, u \in Thread : Has(t, o) /\ Has(u, o) => t = u

Members ==
    /\ \A o \in Object :
          /\ \A t \in Thread : Holding(t, o) <=> owner[o] = t
          /\ owner[o] = None => count[o] = 0
    /\ \A t \in Thread :
          /\ Holding(t, InitSem) => count[InitSem] = 1
          /\ \A l \in Lock : holds[t][l] > 0 => count[l] = holds[t][l]

IInv == TypeOK /\ Local /\ Ready /\ Created /\ Tokens /\ Members

LEMMA Implies == ASSUME IInv PROVE MadeOnce /\ OwnerKept
<1>1. MadeOnce
  <2>1. \A l \in Lock : made[l] <= 1
    BY DEF IInv, Created
  <2>2. \A l \in Lock, t \in Thread :
           sem[t] = l /\ pc[t] \in Waiting \cup {"won", "busy", "own"} => made[l] = 1
    BY LockAssumption DEF IInv, Ready, Created, Waiting
  <2> QED BY <2>1, <2>2 DEF MadeOnce
<1>2. OwnerKept
  BY LockAssumption DEF IInv, TypeOK, Local, Members, OwnerKept, Holding, Object
<1> QED BY <1>1, <1>2

LEMMA InitInv == Init => IInv
<1> SUFFICES ASSUME Init PROVE IInv
  OBVIOUS
<1>1. TypeOK
  <2>1. (CHOOSE l \in Lock : TRUE) \in Lock BY LockAssumption
  <2> QED BY <2>1, LockAssumption DEF Init, TypeOK, Place, Object
<1>2. Local BY DEF Init, Local, Creating
<1>0. /\ \A t \in Thread : pc[t] = "idle" /\ \A l \in Lock : holds[t][l] = 0
      /\ \A l \in Lock : made[l] = 0 /\ initialized[l] = FALSE
  BY LockAssumption DEF Init, Object
<1>3. Ready
  <2>1. \A t \in Thread, l \in Lock : ~(holds[t][l] > 0) BY <1>0
  <2>2. \A t \in Thread : pc[t] = "idle" BY <1>0
  <2> QED BY <2>1, <2>2 DEF Ready
<1>4. Created BY <1>0 DEF Created
<1>5. Tokens BY LockAssumption DEF Init, Tokens, Has, Holding, Creating, Object
<1>6. Members BY LockAssumption DEF Init, Members, Holding, Creating, Object
<1> QED BY <1>1, <1>2, <1>3, <1>4, <1>5, <1>6 DEF IInv

LEMMA CheckInv == ASSUME IInv, NEW t \in Thread, Check(t) PROVE IInv'
<1> USE LockAssumption DEF IInv, Check, From, Goto, thread, semaphore, member, history, Object
<1>1. TypeOK' BY DEF TypeOK, Place, Waiting
<1>2. Local' BY DEF TypeOK, Local, Creating
<1>3. Ready' BY DEF TypeOK, Ready, Creating
<1>4. Created' BY DEF TypeOK, Created, Creating
<1>5. Tokens' BY DEF TypeOK, Tokens, Has, Holding, Creating
<1>6. Members' BY DEF TypeOK, Members, Holding, Creating
<1> QED BY <1>1, <1>2, <1>3, <1>4, <1>5, <1>6

LEMMA TryInv == ASSUME IInv, NEW t \in Thread, Try(t) PROVE IInv'
<1> USE LockAssumption DEF IInv, Try, From, Goto, thread, semaphore, member, history, Object
<1>1. TypeOK' BY DEF TypeOK, Place, Waiting
<1>2. Local' BY DEF TypeOK, Local, Creating
<1>3. Ready' BY DEF TypeOK, Ready, Creating
<1>4. Created' BY DEF TypeOK, Created, Creating
<1>5. Tokens' BY DEF TypeOK, Tokens, Has, Holding, Creating
<1>6. Members' BY DEF TypeOK, Members, Holding, Creating
<1> QED BY <1>1, <1>2, <1>3, <1>4, <1>5, <1>6

LEMMA SwapInv == ASSUME IInv, NEW t \in Thread, Swap(t) PROVE IInv'
<1> USE LockAssumption DEF IInv, Swap, From, Goto, thread, semaphore, member, history, Object
<1>v. /\ value' \in [Object -> {0, 1}]
      /\ \A o \in Object : value'[o] = 1 => value[o] = 1
      /\ pc'[t] = "won" => value[sem[t]] = 1 /\ value'[sem[t]] = 0
  BY DEF TypeOK, Local, Tokens
<1>1. TypeOK'
  <2>1. value' \in [Object -> Nat] BY <1>v
  <2> QED BY <2>1 DEF TypeOK, Place, Waiting
<1>2. Local' BY DEF TypeOK, Local, Creating
<1>3. Ready' BY DEF TypeOK, Ready, Creating
<1>4. Created' BY DEF TypeOK, Created, Creating
<1>5. Tokens'
  <2>1. \A u \in Thread, o \in Object :
           Has(u, o)' => Has(u, o) \/ (u = t /\ o = sem[t] /\ pc'[t] = "won")
    BY DEF TypeOK, Has, Holding, Creating
  <2>2. \A o \in Object : value'[o] \in {0, 1}
    BY <1>v
  <2>3. ASSUME NEW o \in Object, value'[o] = 1 PROVE \A u \in Thread : ~Has(u, o)'
    BY <1>v, <2>1, <2>3 DEF Tokens
  <2>4. ASSUME NEW o \in Object, NEW u \in Thread, NEW v \in Thread, Has(u, o)', Has(v, o)'
        PROVE u = v
    BY <1>v, <2>1, <2>4 DEF Tokens, TypeOK
  <2> QED BY <2>2, <2>3, <2>4 DEF Tokens
<1>6. Members' BY DEF TypeOK, Members, Holding, Creating
<1> QED BY <1>1, <1>2, <1>3, <1>4, <1>5, <1>6

LEMMA LookInv == ASSUME IInv, NEW t \in Thread, Look(t) PROVE IInv'
<1> USE LockAssumption DEF IInv, Look, From, Goto, thread, semaphore, member, history, Object
<1>1. TypeOK' BY DEF TypeOK, Place, Waiting
<1>2. Local' BY DEF TypeOK, Local, Creating
<1>3. Ready' BY DEF TypeOK, Ready, Creating
<1>4. Created' BY DEF TypeOK, Created, Creating
<1>5. Tokens' BY DEF TypeOK, Tokens, Has, Holding, Creating
<1>6. Members' BY DEF TypeOK, Members, Holding, Creating
<1> QED BY <1>1, <1>2, <1>3, <1>4, <1>5, <1>6

LEMMA SleepInv == ASSUME IInv, NEW t \in Thread, Sleep(t) PROVE IInv'
<1> USE LockAssumption DEF IInv, Sleep, From, Goto, thread, semaphore, member, history, Object
<1>1. TypeOK' BY DEF TypeOK, Place, Waiting
<1>2. Local' BY DEF TypeOK, Local, Creating
<1>3. Ready' BY DEF TypeOK, Ready, Creating
<1>4. Created' BY DEF TypeOK, Created, Creating
<1>5. Tokens' BY DEF TypeOK, Tokens, Has, Holding, Creating
<1>6. Members' BY DEF TypeOK, Members, Holding, Creating
<1> QED BY <1>1, <1>2, <1>3, <1>4, <1>5, <1>6

LEMMA TimeoutInv == ASSUME IInv, NEW t \in Thread, Timeout(t) PROVE IInv'
<1> USE LockAssumption DEF IInv, Timeout, From, Goto, thread, semaphore, member, history, Object
<1>1. TypeOK' BY DEF TypeOK, Place, Waiting
<1>2. Local' BY DEF TypeOK, Local, Creating
<1>3. Ready' BY DEF TypeOK, Ready, Creating
<1>4. Created' BY DEF TypeOK, Created, Creating
<1>5. Tokens' BY DEF TypeOK, Tokens, Has, Holding, Creating
<1>6. Members' BY DEF TypeOK, Members, Holding, Creating
<1> QED BY <1>1, <1>2, <1>3, <1>4, <1>5, <1>6

LEMMA WonInv == ASSUME IInv, NEW t \in Thread, Won(t) PROVE IInv'
<1> USE LockAssumption DEF IInv, Won, From, Goto, thread, semaphore, member, history, Object
<1>1. TypeOK' BY DEF TypeOK, Place, Waiting
<1>2. Local' BY DEF TypeOK, Local, Creating
<1>3. Ready' BY DEF TypeOK, Ready, Creating
<1>4. Created' BY DEF TypeOK, Created, Creating
<1>5. Tokens' BY DEF TypeOK, Tokens, Has, Holding, Creating
<1>6. Members' BY DEF TypeOK, Members, Holding, Creating
<1> QED BY <1>1, <1>2, <1>3, <1>4, <1>5, <1>6

LEMMA BusyInv == ASSUME IInv, NEW t \in Thread, Busy(t) PROVE IInv'
<1> USE LockAssumption DEF IInv, Busy, From, Goto, thread, semaphore, member, history, Object
<1>1. TypeOK' BY DEF TypeOK, Place, Waiting
<1>2. Local' BY DEF TypeOK, Local, Creating
<1>3. Ready' BY DEF TypeOK, Ready, Creating
<1>4. Created' BY DEF TypeOK, Created, Creating
<1>5. Tokens' BY DEF TypeOK, Tokens, Has, Holding, Creating
<1>6. Members' BY DEF TypeOK, Members, Holding, Creating
<1> QED BY <1>1, <1>2, <1>3, <1>4, <1>5, <1>6

LEMMA OwnInv == ASSUME IInv, NEW t \in Thread, Own(t) PROVE IInv'
<1> USE LockAssumption DEF IInv, Own, From, Goto, thread, semaphore, member, history, Object
<1>h. Has(t, sem[t]) /\ sem[t] \in Object BY DEF Has, TypeOK
<1>c. CASE sem[t] = InitSem
  <2>0. count[InitSem] = 0
    <3>1. \A u \in Thread : ~Holding(u, InitSem)
      BY <1>c, <1>h DEF Tokens, Has, Holding, Creating
    <3> QED BY <3>1 DEF TypeOK, Members
  <2>c. owner' \in [Object -> Thread \cup {None}] /\ count' \in [Object -> Nat]
    BY <1>h DEF TypeOK
  <2>1. TypeOK' BY <1>c, <2>c, ZenonT(60) DEF TypeOK, Place, Waiting
  <2>2. Local' BY <1>c DEF TypeOK, Local, Creating
  <2>3. Ready' BY <1>c DEF TypeOK, Ready, Creating
  <2>4. Created' BY <1>c DEF TypeOK, Created, Creating
  <2>5. \A u \in Thread, o \in Object : Has(u, o)' => Has(u, o)
    BY <1>c DEF TypeOK, Has, Holding, Creating
  <2>6. Tokens' BY <2>5 DEF TypeOK, Tokens
  <2>7. \A u \in Thread, o \in Object : Holding(u, o)' <=> Holding(u, o) \/ (u = t /\ o = InitSem)
    BY <1>c DEF TypeOK, Holding, Creating
  <2>8. \A u \in Thread : Holding(u, InitSem) => u = t
    BY <1>c, <1>h DEF Tokens, Has
  <2>9. Members' BY <1>c, <2>0, <2>7, <2>8 DEF TypeOK, Members
  <2> QED BY <2>1, <2>2, <2>3, <2>4, <2>6, <2>9
<1>d. CASE sem[t] # InitSem
  <2> DEFINE l == want[t]
  <2>s. sem[t] = l /\ l \in Lock /\ holds[t][l] = 0 /\ initialized[l]
    BY <1>d DEF Local, Ready, TypeOK
  <2>0. count[l] = 0
    BY <1>d, <1>h, <2>s DEF TypeOK, Members, Tokens, Has, Holding
  <2>h. /\ holds' \in [Thread -> [Lock -> Nat]]
        /\ \A u \in Thread, k \in Lock :
              holds'[u][k] = IF u = t /\ k = l THEN 1 ELSE holds[u][k]
    <3>1. holds' = [holds EXCEPT ![t] = [holds[t] EXCEPT ![l] = holds[t][l] + 1]]
      BY <1>d
    <3> HIDE DEF l
    <3> QED BY <2>s, <3>1 DEF TypeOK
  <2> HIDE DEF l
  <2>1. TypeOK' BY <1>d, <2>s, <2>h, SMTT(30) DEF TypeOK, Place, Waiting
  <2>2. Local'
    BY <1>d, <2>s, <2>h DEF TypeOK, Local, Creating, l
  <2>3. Ready'
    <3>1. \A u \in Thread, k \in Lock : holds'[u][k] > 0 => initialized'[k]
      BY <1>d, <2>s, <2>h DEF Ready
    <3>2. \A u \in Thread : pc'[u] \in {"idle", pc[u]} /\ want'[u] = want[u] /\ sem'[u] = sem[u]
      BY <1>d DEF TypeOK
    <3> QED BY <3>1, <3>2, <1>d DEF Ready
  <2>4. Created' BY <1>d DEF TypeOK, Created, Creating
  <2>5. \A u \in Thread, o \in Object : Has(u, o)' => Has(u, o)
    BY <1>d, <1>h, <2>s, <2>h DEF TypeOK, Has, Holding, Creating
  <2>6. Tokens' BY <2>5 DEF TypeOK, Tokens
  <2>7. \A u \in Thread, o \in Object : Holding(u, o)' <=> Holding(u, o) \/ (u = t /\ o = l)
    BY <1>d, <2>s, <2>h DEF TypeOK, Holding, Creating
  <2>8. \A u \in Thread : ~Holding(u, l) \/ u = t
    BY <1>d, <1>h, <2>s DEF Tokens, Has
  <2>9. Members' BY <1>d, <2>s, <2>h, <2>0, <2>7, <2>8 DEF TypeOK, Members, Holding
  <2> QED BY <2>1, <2>2, <2>3, <2>4, <2>6, <2>9
<1> QED BY <1>c, <1>d

LEMMA CheckAgainInv == ASSUME IInv, NEW t \in Thread, CheckAgain(t) PROVE IInv'
<1> USE LockAssumption DEF IInv, CheckAgain, From, Goto, thread, semaphore, member, history, Object
<1>1. TypeOK' BY DEF TypeOK, Place, Waiting, Local
<1>2. Local' BY DEF TypeOK, Local, Creating, Members, Holding
<1>3. Ready' BY DEF TypeOK, Ready, Creating, Local
<1>4. Created' BY DEF TypeOK, Created, Creating, Tokens, Has, Holding, Local, Ready
<1>5. Tokens' BY DEF TypeOK, Tokens, Has, Holding, Creating, Local
<1>6. Members' BY DEF TypeOK, Members, Holding, Creating, Local
<1> QED BY <1>1, <1>2, <1>3, <1>4, <1>5, <1>6

LEMMA MakeInv == ASSUME IInv, NEW t \in Thread, Make(t) PROVE IInv'
<1> USE LockAssumption DEF IInv, Make, From, Goto, thread, semaphore, member, history, Object
<1>1. TypeOK' BY DEF TypeOK, Place, Waiting, Local
<1>2. Local' BY DEF TypeOK, Local, Creating, Members, Holding
<1>3. Ready' BY DEF TypeOK, Ready, Creating, Local
<1>4. Created' BY DEF TypeOK, Created, Creating, Tokens, Has, Holding, Local, Ready
<1>5. Tokens'
  <2>1. want[t] \in Lock /\ ~initialized[want[t]] BY DEF TypeOK, Created
  <2>2. \A u \in Thread : ~Has(u, want[t])
    BY <2>1 DEF Has, Holding, Ready
  <2>3. \A u \in Thread, o \in Object : Has(u, o)' <=> Has(u, o)
    BY DEF TypeOK, Has, Holding, Creating
  <2> QED BY <2>1, <2>2, <2>3 DEF TypeOK, Tokens
<1>6. Members' BY DEF TypeOK, Members, Holding, Creating, Local, Tokens, Has
<1> QED BY <1>1, <1>2, <1>3, <1>4, <1>5, <1>6

LEMMA MarkInv == ASSUME IInv, NEW t \in Thread, Mark(t) PROVE IInv'
<1> USE LockAssumption DEF IInv, Mark, From, Goto, thread, semaphore, member, history, Object
<1>1. TypeOK' BY DEF TypeOK, Place, Waiting, Local
<1>2. Local' BY DEF TypeOK, Local, Creating, Members, Holding
<1>3. Ready' BY DEF TypeOK, Ready, Creating, Local
<1>4. Created'
  <2>1. want[t] \in Lock /\ Holding(t, InitSem) BY DEF TypeOK, Holding, Creating
  <2>2. \A u \in Thread : u # t => pc[u] \notin Creating
    BY <2>1 DEF Tokens, Has, Holding
  <2>3. made[want[t]] = 1
    BY DEF Created
  <2> QED BY <2>1, <2>2, <2>3 DEF TypeOK, Created, Creating
<1>5. Tokens' BY DEF TypeOK, Tokens, Has, Holding, Creating, Local
<1>6. Members' BY DEF TypeOK, Members, Holding, Creating, Local
<1> QED BY <1>1, <1>2, <1>3, <1>4, <1>5, <1>6

LEMMA UnlockInv == ASSUME IInv, NEW t \in Thread, Unlock(t) PROVE IInv'
<1> USE LockAssumption DEF IInv, Unlock, LetGo, From, Goto, thread, semaphore, member, history, Object
<1>1. TypeOK' BY DEF TypeOK, Place, Waiting, Local, Members, Holding, Creating
<1>2. Local' BY DEF TypeOK, Local, Creating, Members, Holding
<1>3. Ready' BY DEF TypeOK, Ready, Creating, Local
<1>4. Created' BY DEF TypeOK, Created, Creating
<1>5. Tokens' BY DEF TypeOK, Tokens, Has, Holding, Creating, Local
<1>6. Members' BY DEF TypeOK, Members, Holding, Creating, Local
<1> QED BY <1>1, <1>2, <1>3, <1>4, <1>5, <1>6

LEMMA PostInv == ASSUME IInv, NEW t \in Thread, Post(t) PROVE IInv'
<1> USE LockAssumption DEF IInv, Post, From, Goto, thread, semaphore, member, history, Object
<1>1. TypeOK' BY DEF TypeOK, Place, Waiting, Local
<1>2. Local' BY DEF TypeOK, Local, Creating, Members, Holding
<1>3. Ready' BY DEF TypeOK, Ready, Creating, Local
<1>4. Created' BY DEF TypeOK, Created, Creating
<1>5. Tokens'
  <2>1. sem[t] \in Object /\ Has(t, sem[t]) BY DEF Has, TypeOK
  <2>2. value[sem[t]] = 0 BY <2>1 DEF Tokens
  <2>3. \A u \in Thread, o \in Object : Has(u, o)' => Has(u, o) /\ ~(u = t /\ o = sem[t])
    BY SMTT(30) DEF TypeOK, Has, Holding, Creating, Local
  <2>4. \A o \in Object : value'[o] = IF o = sem[t] THEN 1 ELSE value[o]
    BY <2>1, <2>2 DEF TypeOK
  <2> QED BY <2>1, <2>3, <2>4 DEF TypeOK, Tokens
<1>6. Members' BY DEF TypeOK, Members, Holding, Creating, Local, Tokens, Has
<1> QED BY <1>1, <1>2, <1>3, <1>4, <1>5, <1>6

LEMMA WakeInv == ASSUME IInv, NEW t \in Thread, Wake(t) PROVE IInv'
<1> USE LockAssumption DEF IInv, Wake, From, Goto, thread, semaphore, member, history, Object
<1>1. TypeOK' BY DEF TypeOK, Place, Waiting
<1>2. Local' BY DEF TypeOK, Local, Creating
<1>3. Ready' BY DEF TypeOK, Ready, Creating
<1>4. Created' BY DEF TypeOK, Created, Creating
<1>5. Tokens' BY DEF TypeOK, Tokens, Has, Holding, Creating
<1>6. Members' BY DEF TypeOK, Members, Holding, Creating
<1> QED BY <1>1, <1>2, <1>3, <1>4, <1>5, <1>6

LEMMA ClearInv == ASSUME IInv, NEW t \in Thread, Clear(t) PROVE IInv'
<1> USE LockAssumption DEF IInv, Clear, From, Goto, thread, semaphore, member, history, Object
<1>s. /\ sem' \in [Thread -> Object]
      /\ \A u \in Thread \ {t} : sem'[u] = sem[u]
  BY ZenonT(60) DEF TypeOK
<1>1. TypeOK' BY <1>s DEF TypeOK, Place, Waiting
<1>2. Local' BY DEF TypeOK, Local, Creating, Members, Holding
<1>3. Ready' BY DEF TypeOK, Ready, Creating, Local
<1>4. Created' BY DEF TypeOK, Created, Creating
<1>5. Tokens'
  <2>1. \A u \in Thread, o \in Object : Has(u, o)' => Has(u, o)
    BY <1>s DEF TypeOK, Has, Holding, Creating
  <2> QED BY <2>1 DEF TypeOK, Tokens
<1>6. Members' BY DEF TypeOK, Members, Holding, Creating, Local
<1> QED BY <1>1, <1>2, <1>3, <1>4, <1>5, <1>6

LEMMA AccessInv == ASSUME IInv, NEW t \in Thread, NEW l \in Lock, Access(t, l) PROVE IInv'
<1> USE LockAssumption DEF IInv, Access, From, Goto, thread, semaphore, member, history, Object
<1>c. CASE owner[l] = t
  <2>o. Holding(t, l) BY <1>c DEF Members
  <2>h. /\ holds' \in [Thread -> [Lock -> Nat]]
        /\ \A u \in Thread, k \in Lock :
              holds'[u][k] = IF u = t /\ k = l THEN holds[t][l] + 1 ELSE holds[u][k]
        /\ holds[t][l] \in Nat /\ holds[t][l] > 0
    BY <1>c, <2>o DEF TypeOK, Holding
  <2>c. count' \in [Object -> Nat]
    <3>1. count' = [count EXCEPT ![l] = count[l] + 1] BY <1>c
    <3>2. count \in [Object -> Nat] /\ l \in Object BY DEF TypeOK
    <3> QED BY <3>1, <3>2
  <2>1. TypeOK' BY <1>c, <2>c, <2>h DEF TypeOK, Place, Waiting
  <2>2. Local' BY <1>c, <2>h DEF TypeOK, Local, Creating
  <2>3. Ready' BY <1>c, <2>h DEF TypeOK, Ready
  <2>4. Created' BY <1>c DEF TypeOK, Created
  <2>5. \A u \in Thread, o \in Object : Holding(u, o)' <=> Holding(u, o)
    BY <1>c, <2>h, SMTT(30) DEF TypeOK, Holding
  <2>6. Tokens' BY <1>c, <2>5 DEF TypeOK, Tokens, Has
  <2>7. \A u \in Thread : u # t => ~Holding(u, l) BY <1>c DEF Members
  <2>8. Members' BY <1>c, <2>h, <2>5, <2>7 DEF TypeOK, Members, Holding
  <2> QED BY <2>1, <2>2, <2>3, <2>4, <2>6, <2>8
<1>d. CASE owner[l] # t
  <2>o. holds[t][l] = 0
    <3>1. ~Holding(t, l) BY <1>d DEF Members
    <3> QED BY <3>1 DEF Holding, TypeOK
  <2>1. TypeOK' BY <1>d DEF TypeOK, Place, Waiting
  <2>2. Local' BY <1>d, <2>o DEF TypeOK, Local, Creating
  <2>3. Ready' BY <1>d DEF TypeOK, Ready
  <2>4. Created'
    <3>1. \A u \in Thread : pc[u] \in {"make", "mark"} <=> pc'[u] \in {"make", "mark"}
      BY <1>d DEF TypeOK
    <3>2. \A u \in Thread : pc[u] \in {"make", "mark"} => pc'[u] = pc[u] /\ want'[u] = want[u]
      BY <1>d DEF TypeOK
    <3> QED BY <1>d, <3>1, <3>2 DEF Created
  <2>5. \A u \in Thread, o \in Object : Holding(u, o)' <=> Holding(u, o)
    BY <1>d DEF TypeOK, Holding, Creating
  <2>6. Tokens' BY <1>d, <2>5 DEF TypeOK, Tokens, Has
  <2>7. Members' BY <1>d, <2>5 DEF TypeOK, Members
  <2> QED BY <2>1, <2>2, <2>3, <2>4, <2>6, <2>7
<1> QED BY <1>c, <1>d

LEMMA ReleaseInv == ASSUME IInv, NEW t \in Thread, NEW l \in Lock, Release(t, l) PROVE IInv'
<1> USE LockAssumption DEF IInv, Release, LetGo, From, Goto, thread, semaphore, member, history, Object
<1>1. TypeOK' BY DEF TypeOK, Place, Waiting, Local, Members, Holding, Creating
<1>2. Local' BY DEF TypeOK, Local, Creating, Members, Holding
<1>3. Ready' BY DEF TypeOK, Ready, Creating, Local
<1>4. Created' BY DEF TypeOK, Created, Creating
<1>5. Tokens' BY DEF TypeOK, Tokens, Has, Holding, Creating, Local, Members, Ready, Created
<1>6. Members' BY DEF TypeOK, Members, Holding, Creating, Local, Tokens, Has
<1> QED BY <1>1, <1>2, <1>3, <1>4, <1>5, <1>6

LEMMA StepInv == ASSUME IInv, [Next]_vars PROVE IInv'
<1>1. CASE UNCHANGED vars
  BY <1>1 DEF IInv, TypeOK, Local, Ready, Created, Tokens, Members, Holding, Has,
     vars, thread, semaphore, member, history
<1>2. ASSUME NEW t \in Thread, Inside(t) PROVE IInv'
  BY <1>2, CheckInv, TryInv, SwapInv, LookInv, SleepInv, TimeoutInv, WonInv, BusyInv,
     OwnInv, CheckAgainInv, MakeInv, MarkInv, UnlockInv, PostInv, WakeInv, ClearInv
     DEF Inside
<1> QED BY <1>1, <1>2, AccessInv, ReleaseInv DEF Next, GiveUp

\* What __AccessSemaphore, __ReleaseSemaphore and the semaphores below them keep true:
\* who has the semaphore of an object, who creates it, and what its members say.
THEOREM Invariant == Spec => []IInv
<1> QED BY InitInv, StepInv, PTL DEF Spec

\* The members and the semaphore of each object keep their types.
THEOREM TypesOK == Spec => []TypeOK
<1>1. IInv => TypeOK BY DEF IInv
<1> QED BY <1>1, Invariant, PTL

\* However many threads meet in __AccessSemaphore, one of them makes the semaphore.
THEOREM MadeOnceAlways == Spec => []MadeOnce
<1>1. IInv => MadeOnce BY Implies
<1> QED BY <1>1, Invariant, PTL

\* "Semaphore unlocked by wrong owner" is unreachable for threads that release what
\* they hold.
THEOREM OwnerKeptAlways == Spec => []OwnerKept
<1>1. IInv => OwnerKept BY Implies
<1> QED BY <1>1, Invariant, PTL

LEMMA StepLocks == ASSUME IInv, [Next]_vars PROVE [RL!Next]_holds
<1>1. ASSUME NEW t \in Thread, NEW l \in Lock, holds[t][l] > 0 \/ Has(t, l)
      PROVE \A u \in Thread \ {t} : holds[u][l] = 0
  BY <1>1, LockAssumption DEF IInv, TypeOK, Tokens, Has, Holding, Object
<1>2. ASSUME NEW t \in Thread, NEW l \in Lock, Access(t, l) PROVE [RL!Next]_holds
  <2>1. CASE owner[l] = t
    <3>1. holds[t][l] > 0
      BY <2>1, LockAssumption DEF IInv, Members, Holding, Object
    <3> QED BY <1>1, <1>2, <2>1, <3>1 DEF Access, RL!Next, RL!Access
  <2> QED BY <1>2, <2>1 DEF Access
<1>3. ASSUME NEW t \in Thread, NEW l \in Lock, Release(t, l) PROVE [RL!Next]_holds
  BY <1>3 DEF Release, RL!Next, RL!Release
<1>4. ASSUME NEW t \in Thread, Inside(t) PROVE [RL!Next]_holds
  <2>1. CASE Own(t) /\ sem[t] # InitSem
    <3>1. sem[t] = want[t] /\ want[t] \in Lock
      BY <2>1 DEF Own, From, IInv, Local, TypeOK
    <3>2. Has(t, want[t]) BY <2>1, <3>1 DEF Own, From, Has
    <3>3. holds' = [holds EXCEPT ![t][want[t]] = @ + 1] BY <2>1 DEF Own
    <3> QED BY <1>1, <3>1, <3>2, <3>3 DEF RL!Next, RL!Access
  <2>2. CASE ~(Own(t) /\ sem[t] # InitSem)
    BY <1>4, <2>2 DEF Inside, Check, Try, Swap, Look, Sleep, Timeout, Won, Busy, Own,
       CheckAgain, Make, Mark, Unlock, Post, Wake, Clear, history
  <2> QED BY <2>1, <2>2
<1>5. CASE UNCHANGED vars
  BY <1>5 DEF vars, history
<1> QED BY <1>2, <1>3, <1>4, <1>5 DEF Next, GiveUp

\* The locks of the library are recursive locks: what a thread does between an access
\* and its release no other thread does at the same time.
THEOREM Refinement == Spec => RecursiveLocks
<1>1. Init => RL!Init BY DEF Init, RL!Init
<1> QED BY <1>1, StepLocks, Invariant, PTL DEF Spec, RecursiveLocks, RL!Spec
==============================================================================

-------------------------- MODULE SecretStoreProofs --------------------------
(***************************************************************************)
(* Proofs about SecretStore, for every number of processes, calls and keys *)
(* and with all its faults: where the keys that were stored and the keys   *)
(* that sealed come from.                                                  *)
(***************************************************************************)
EXTENDS SecretStore, FiniteSetTheorems, TLAPS

(* Every key that was ever stored was made up by a thread that looked too  *)
(* early; such a thread never looks again, so it still holds that key.     *)
Lineage ==
    /\ \A c \in Calls : phase[c] \in {"check", "insert", "update"} => c \in early
    /\ \A c \in early : phase[c] \notin {"unborn", "look"}
    /\ \A k \in history : \E c \in early : key[c] = k
    /\ stored # NoKey => stored \in history

(* What seals or opens was stored before, and what a client holds was      *)
(* sealed; so an answer is garbled by two different keys.                  *)
Provenance ==
    /\ \A c \in Calls : phase[c] = "done" => key[c] \in history
    /\ sealed \subseteq history
    /\ \A c \in Calls : task[c] \in sealed \cup {NoKey}
    /\ \A p \in Processes :
          reply[p] = "garbled" => \E j, k \in history : j # k

Inv == TypeOK /\ Lineage /\ Provenance

LEMMA InvInit == Init => Inv
  BY SecretAssumption
  DEF Init, Inv, TypeOK, Lineage, Provenance, Phases, Replies

-----------------------------------------------------------------------------
(* Starting a loader thread.                                               *)
LEMMA CallKeeps ==
  ASSUME Inv, NEW p \in Processes, NEW c \in Calls, Call(p, c)
  PROVE  Inv'
<1> USE DEF Call, Goto, past
<1>1. TypeOK'
  BY DEF Inv, TypeOK, Phases
<1>2. Lineage'
  BY DEF Inv, TypeOK, Lineage
<1>3. Provenance'
  BY DEF Inv, TypeOK, Provenance
<1> QED
  BY <1>1, <1>2, <1>3 DEF Inv

(* get_setting: what a thread finds was stored, what it makes up is early. *)
LEMMA LookKeeps ==
  ASSUME Inv, NEW c \in Calls, Look(c)
  PROVE  Inv'
<1>1. CASE /\ stored # NoKey
           /\ key' = [key EXCEPT ![c] = stored]
           /\ Goto(c, "done")
           /\ UNCHANGED <<drawn, early>>
  <2> c \notin early
    BY DEF Look, Inv, Lineage
  <2>1. TypeOK'
    BY <1>1 DEF Look, Goto, Inv, TypeOK, Phases
  <2>2. Lineage'
    BY <1>1 DEF Look, Goto, Inv, TypeOK, Lineage
  <2>3. Provenance'
    BY <1>1 DEF Look, Goto, Inv, TypeOK, Lineage, Provenance
  <2> QED
    BY <2>1, <2>2, <2>3 DEF Inv
<1>2. ASSUME NEW k \in Keys \ drawn,
             key' = [key EXCEPT ![c] = k], drawn' = drawn \cup {k},
             early' = early \cup {c}, Goto(c, "check")
      PROVE  Inv'
  <2> c \notin early
    BY DEF Look, Inv, Lineage
  <2>1. TypeOK'
    BY <1>2, SecretAssumption DEF Look, Goto, Inv, TypeOK, Phases
  <2>2. Lineage'
    BY <1>2 DEF Look, Goto, Inv, TypeOK, Lineage
  <2>3. Provenance'
    BY <1>2 DEF Look, Goto, Inv, TypeOK, Provenance
  <2> QED
    BY <2>1, <2>2, <2>3 DEF Inv
<1> QED
  BY <1>1, <1>2 DEF Look

(* set_setting's SELECT.                                                   *)
LEMMA CheckKeeps ==
  ASSUME Inv, NEW c \in Calls, Check(c)
  PROVE  Inv'
  BY DEF Check, Goto, past, Inv, TypeOK, Phases, Lineage, Provenance

(* set_setting's COMMIT: the key stored is one an early thread made up.    *)
LEMMA WriteKeeps ==
  ASSUME Inv, NEW c \in Calls, Write(c)
  PROVE  Inv'
<1> c \in early /\ key[c] \in Keys
  BY DEF Write, Inv, TypeOK, Lineage
<1>1. TypeOK'
  BY DEF Write, Store, Goto, Inv, TypeOK, Phases
<1>2. Lineage'
  BY DEF Write, Store, Goto, Inv, TypeOK, Lineage
<1>3. Provenance'
  BY DEF Write, Store, Goto, Inv, TypeOK, Provenance
<1> QED
  BY <1>1, <1>2, <1>3 DEF Inv

(* A thread that ends in an exception, whether its caller waits or not.    *)
LEMMA ThrowKeeps ==
  ASSUME Inv, NEW c \in Calls, Throw(c), phase[c] # "unborn"
  PROVE  Inv'
<1>1. /\ waiting' \in [Processes -> Calls \cup {NoCall}]
      /\ reply' \in [Processes -> Replies]
      /\ \A p \in Processes : reply'[p] = "garbled" => reply[p] = "garbled"
  BY DEF Throw, Release, Inv, TypeOK, Replies
<1>2. phase' = [phase EXCEPT ![c] = "gone"]
      /\ UNCHANGED <<stored, home, key, task, sealed, past>>
  BY DEF Throw, Goto
<1>3. TypeOK'
  BY <1>1, <1>2 DEF Inv, TypeOK, Phases, past
<1>4. Lineage' /\ Provenance'
  BY <1>1, <1>2 DEF Inv, TypeOK, Lineage, Provenance, past
<1> QED
  BY <1>3, <1>4 DEF Inv

(* The caller seals with its thread's key, or opens what another sealed.   *)
LEMMA JoinKeeps ==
  ASSUME Inv, NEW p \in Processes, NEW c \in Calls, Join(p, c)
  PROVE  Inv'
<1> key[c] \in history /\ key[c] \in Keys
  BY DEF Join, Inv, TypeOK, Provenance
<1>1. CASE task[c] = NoKey
  <2>1. TypeOK'
    BY <1>1 DEF Join, Release, Goto, past, Inv, TypeOK, Phases, Replies
  <2>2. Lineage'
    BY <1>1 DEF Join, Goto, past, Inv, TypeOK, Lineage
  <2>3. Provenance'
    BY <1>1 DEF Join, Release, Goto, past, Inv, TypeOK, Provenance
  <2> QED
    BY <2>1, <2>2, <2>3 DEF Inv
<1>2. CASE task[c] # NoKey
  <2>1. task[c] \in history
    BY <1>2 DEF Inv, Provenance
  <2>2. TypeOK'
    BY <1>2 DEF Join, Release, Goto, past, Inv, TypeOK, Phases, Replies
  <2>3. Lineage'
    BY <1>2 DEF Join, Goto, past, Inv, TypeOK, Lineage
  <2>4. Provenance'
    BY <1>2, <2>1 DEF Join, Release, Goto, past, Inv, TypeOK, Provenance
  <2> QED
    BY <2>2, <2>3, <2>4 DEF Inv
<1> QED
  BY <1>1, <1>2

(* A timeout of the join, which leaves the thread alone.                   *)
LEMMA GiveUpKeeps ==
  ASSUME Inv, NEW p \in Processes, GiveUp(p)
  PROVE  Inv'
  BY DEF GiveUp, Release, thread, past, Inv, TypeOK, Replies, Lineage, Provenance

(* The death of a process and of all its threads.                          *)
LEMMA DieKeeps ==
  ASSUME Inv, NEW p \in Processes, Die(p)
  PROVE  Inv'
<1>1. /\ waiting' \in [Processes -> Calls \cup {NoCall}]
      /\ reply' \in [Processes -> Replies]
      /\ \A q \in Processes : reply'[q] = "garbled" => reply[q] = "garbled"
  BY DEF Die, Release, Inv, TypeOK, Replies
<1>2. /\ phase' \in [Calls -> Phases]
      /\ \A c \in Calls : phase'[c] = "gone" \/ phase'[c] = phase[c]
      /\ UNCHANGED <<stored, home, key, task, sealed, past>>
  BY DEF Die, Inv, TypeOK, Phases
<1>3. TypeOK'
  BY <1>1, <1>2 DEF Inv, TypeOK, past
<1>4. Lineage' /\ Provenance'
  BY <1>1, <1>2 DEF Inv, TypeOK, Lineage, Provenance, past
<1> QED
  BY <1>3, <1>4 DEF Inv

LEMMA InvStep == Inv /\ [Next]_vars => Inv'
<1> SUFFICES ASSUME Inv, [Next]_vars PROVE Inv'
  OBVIOUS
<1>1. CASE UNCHANGED vars
  BY <1>1 DEF vars, thread, past, Inv, TypeOK, Lineage, Provenance
<1>2. ASSUME NEW c \in Calls, Load(c) PROVE Inv'
  <2>1. CASE Clash(c)
    BY <2>1, ThrowKeeps DEF Clash
  <2> QED
    BY <1>2, <2>1, LookKeeps, CheckKeeps, WriteKeeps DEF Load
<1>3. ASSUME NEW c \in Calls, Break(c) PROVE Inv'
  BY <1>3, ThrowKeeps DEF Break
<1>4. ASSUME NEW p \in Processes, NEW c \in Calls, Call(p, c) \/ Join(p, c)
      PROVE  Inv'
  BY <1>4, CallKeeps, JoinKeeps
<1>5. ASSUME NEW p \in Processes, GiveUp(p) \/ Die(p) PROVE Inv'
  BY <1>5, GiveUpKeeps, DieKeeps
<1> QED
  BY <1>1, <1>2, <1>3, <1>4, <1>5 DEF Next

-----------------------------------------------------------------------------
(* The threads that looked too early map onto the keys that were stored.   *)
LEMMA Counted == Inv => KeysBounded
<1> SUFFICES ASSUME Inv PROVE KeysBounded
  OBVIOUS
<1> DEFINE made == {c \in early : key[c] \in history}
           f == [c \in made |-> key[c]]
<1>1. IsFiniteSet(early)
  BY SecretAssumption, FS_Subset DEF Inv, TypeOK
<1>2. /\ IsFiniteSet(made) /\ Cardinality(made) <= Cardinality(early)
      /\ Cardinality(made) \in Nat /\ Cardinality(early) \in Nat
  <2>1. made \in SUBSET early
    OBVIOUS
  <2> HIDE DEF made
  <2> QED
    BY <1>1, <2>1, FS_Subset, FS_CardinalityType
<1>3. f \in Surjection(made, history)
  BY DEF Surjection, Inv, Lineage
<1>4. /\ Cardinality(history) <= Cardinality(made)
      /\ Cardinality(history) \in Nat
  <2> HIDE DEF made, f
  <2> QED
    BY <1>2, <1>3, FS_Surjection, FS_CardinalityType
<1> HIDE DEF made, f
<1> QED
  BY <1>2, <1>4 DEF KeysBounded

(* Two different keys are more than one.                                   *)
LEMMA Opened == Inv => RoundTripWithOneKey
<1> SUFFICES ASSUME Inv, Cardinality(history) <= 1, NEW p \in Processes,
                    reply[p] = "garbled"
             PROVE  FALSE
  BY DEF RoundTripWithOneKey, RoundTrip
<1>1. PICK j \in history, k \in history : j # k
  BY DEF Inv, Provenance
<1>2. IsFiniteSet(history)
  <2> DEFINE f == [c \in {d \in early : key[d] \in history} |-> key[c]]
  <2>1. IsFiniteSet({d \in early : key[d] \in history})
    BY SecretAssumption, FS_Subset DEF Inv, TypeOK
  <2>2. f \in Surjection({d \in early : key[d] \in history}, history)
    BY DEF Surjection, Inv, Lineage
  <2> HIDE DEF f
  <2> QED
    BY <2>1, <2>2, FS_Surjection
<1>3. /\ Cardinality(history) \in Nat
      /\ Cardinality(history) # 0 /\ Cardinality(history) # 1
  BY <1>1, <1>2, FS_EmptySet, FS_Singleton, FS_CardinalityType
<1> QED
  BY <1>3

(* Types hold; nothing is sealed with a key that was not stored; there are *)
(* no more keys than threads that looked before there was one; and as long *)
(* as there is one key, every ciphertext opens: for any number of replicas *)
(* and calls, and wherever threads, statements and processes fail.         *)
THEOREM KeysHold ==
  Spec => [](/\ TypeOK /\ SealedWithStoredKeys
             /\ KeysBounded /\ RoundTripWithOneKey)
<1>1. Inv => TypeOK /\ SealedWithStoredKeys
  BY DEF Inv, Provenance, SealedWithStoredKeys
<1> QED
  BY <1>1, InvInit, InvStep, Counted, Opened, PTL DEF Spec
-----------------------------------------------------------------------------
(* One process without faults.                                             *)

(* A thread at work has its caller blocked, so it is the only one; it has  *)
(* a key to store only as long as none is stored, and so the key that is   *)
(* stored is the only one that ever was.                                   *)
Working == {"look", "check", "insert", "update", "done"}

Attended ==
    \A c \in Calls : phase[c] \in Working => \E p \in Processes : waiting[p] = c

FirstKey ==
    \A c \in Calls : phase[c] \in {"check", "insert", "update"} => stored = NoKey

OnlyKey == \A k \in history : k = stored

OneProcessInv == Inv /\ Attended /\ FirstKey /\ OnlyKey

LEMMA OneProcessStep ==
  ASSUME ~Faults, \A p, q \in Processes : p = q, OneProcessInv, [Next]_vars
  PROVE  Attended' /\ FirstKey' /\ OnlyKey'
<1> USE DEF OneProcessInv
<1>1. \A c, d \in Calls :
         phase[c] \in Working /\ phase[d] \in Working => c = d
  BY DEF Attended
<1>2. \A p \in Processes, c \in Calls :
         waiting[p] = NoCall => phase[c] \notin Working
  BY SecretAssumption DEF Attended
<1>3. CASE UNCHANGED vars
  BY <1>3 DEF vars, thread, past, Attended, FirstKey, OnlyKey
<1>4. ASSUME NEW p \in Processes, NEW c \in Calls, Call(p, c)
      PROVE  Attended' /\ FirstKey' /\ OnlyKey'
  <2>1. \A d \in Calls : phase'[d] \in Working => d = c
    BY <1>2, <1>4 DEF Call, Goto, Inv, TypeOK
  <2>2. waiting'[p] = c /\ phase'[c] = "look"
    BY <1>4 DEF Call, Goto, Inv, TypeOK
  <2>3. Attended' /\ FirstKey'
    BY <2>1, <2>2 DEF Attended, FirstKey, Working
  <2> QED
    BY <1>4, <2>3 DEF Call, past, OnlyKey
<1>5. ASSUME NEW p \in Processes, NEW c \in Calls, Join(p, c)
      PROVE  Attended' /\ FirstKey' /\ OnlyKey'
  <2>1. \A d \in Calls : phase'[d] \notin Working
    BY <1>1, <1>5 DEF Join, Goto, Inv, TypeOK, Working
  <2> QED
    BY <1>5, <2>1 DEF Join, past, Attended, FirstKey, OnlyKey, Working
<1>6. ASSUME NEW c \in Calls, Look(c)
      PROVE  Attended' /\ FirstKey' /\ OnlyKey'
  <2>1. /\ \A d \in Calls : phase'[d] \in Working => phase[d] \in Working
        /\ \A d \in Calls :
              phase'[d] \in {"check", "insert", "update"} => stored = NoKey
        /\ UNCHANGED <<waiting, stored, history>>
    BY <1>6 DEF Look, Goto, Inv, TypeOK, Working, FirstKey
  <2> QED
    BY <2>1 DEF Attended, FirstKey, OnlyKey
<1>7. ASSUME NEW c \in Calls, Check(c)
      PROVE  Attended' /\ FirstKey' /\ OnlyKey'
  <2>1. /\ \A d \in Calls : phase'[d] \in Working => phase[d] \in Working
        /\ \A d \in Calls :
              phase'[d] \in {"check", "insert", "update"} => stored = NoKey
        /\ UNCHANGED <<waiting, stored, history>>
    BY <1>7 DEF Check, Goto, past, Inv, TypeOK, Working, FirstKey
  <2> QED
    BY <2>1 DEF Attended, FirstKey, OnlyKey
<1>8. ASSUME NEW c \in Calls, Write(c)
      PROVE  Attended' /\ FirstKey' /\ OnlyKey'
  <2>1. history = {}
    BY <1>8, SecretAssumption DEF Write, FirstKey, OnlyKey, Inv, TypeOK
  <2>2. \A d \in Calls : phase'[d] \in Working => d = c /\ phase'[d] = "done"
    BY <1>1, <1>8 DEF Write, Goto, Inv, TypeOK, Working
  <2>3. phase[c] \in Working /\ UNCHANGED waiting
    BY <1>8 DEF Write, Working
  <2>4. Attended' /\ FirstKey'
    BY <2>2, <2>3 DEF Attended, FirstKey, Working
  <2>5. OnlyKey'
    BY <1>8, <2>1 DEF Write, Store, OnlyKey
  <2> QED
    BY <2>4, <2>5
<1>9. ASSUME NEW c \in Calls, Clash(c) PROVE FALSE
  BY <1>9 DEF Clash, FirstKey
<1> QED
  BY <1>3, <1>4, <1>5, <1>6, <1>7, <1>8, <1>9
  DEF Next, Load, Break, GiveUp, Die

(* A single process in which no join times out, no statement fails and     *)
(* which does not die opens whatever it sealed: the code's race is one     *)
(* between replicas, or with a thread that an impatient caller left.       *)
THEOREM OneProcessOpens ==
  ASSUME ~Faults, \A p, q \in Processes : p = q
  PROVE  Spec => []RoundTrip
<1>1. Init => OneProcessInv
  <2> SUFFICES ASSUME Init PROVE OneProcessInv
    OBVIOUS
  <2>1. Inv
    BY InvInit
  <2>2. Attended /\ FirstKey /\ OnlyKey
    BY DEF Init, Attended, FirstKey, OnlyKey, Working
  <2> QED
    BY <2>1, <2>2 DEF OneProcessInv
<1>2. OneProcessInv /\ [Next]_vars => OneProcessInv'
  BY OneProcessStep, InvStep DEF OneProcessInv
<1>3. OneProcessInv => RoundTrip
  BY DEF OneProcessInv, Inv, Provenance, OnlyKey, RoundTrip
<1> QED
  BY <1>1, <1>2, <1>3, PTL DEF Spec
=============================================================================

----------------------------- MODULE SecretStore -----------------------------
(***************************************************************************)
(* How SM-ERP comes by its SM4 key when SM_SM4_KEY_HEX is not configured   *)
(* (app/core/security.py over app/repositories/setting_repo.py): every     *)
(* call of sm4_crypt starts a thread with an event loop of its own, which  *)
(* reads the setting, generates and stores a key if there is none, and     *)
(* hands the key over; the caller blocks its process's event loop for ten  *)
(* seconds at most, while the thread goes on regardless.  _jwt_secret is   *)
(* the same code over another setting.                                     *)
(*                                                                         *)
(* A ciphertext is known here by the key it was sealed with.               *)
(***************************************************************************)
EXTENDS Integers, FiniteSets

CONSTANTS
    Processes,   \* replicas, each with one event loop
    Calls,       \* calls of sm4_crypt, one loader thread each
    Keys,        \* values secrets.token_hex may return
    NoKey,       \* the setting has no row
    NoCall,      \* an event loop that is free
    NoProcess,   \* the process of a call not made yet
    Faults       \* whether joins time out, statements fail, processes die

ASSUME SecretAssumption ==
    /\ IsFiniteSet(Calls)
    /\ NoKey \notin Keys
    /\ NoCall \notin Calls
    /\ NoProcess \notin Processes
    /\ Faults \in BOOLEAN

VARIABLES
    stored,    \* the value of setting "sm4_key_hex"
    waiting,   \* the call each process's event loop is blocked in
    home,      \* the process a call's thread runs in
    phase,     \* what a call's thread does next
    key,       \* the key a thread holds
    task,      \* the ciphertext a call is to open, NoKey to seal
    sealed,    \* ciphertexts handed out
    reply,     \* how a process last answered
    drawn,     \* history: keys generated
    history,   \* history: keys that were ever stored
    early      \* history: threads that looked before a key was stored

thread == <<home, phase, key, task>>
past   == <<drawn, history, early>>
vars   == <<stored, waiting, thread, sealed, reply, past>>

Phases == {"unborn", "look", "check", "insert", "update", "done", "gone"}
Replies == {"none", "sealed", "opened", "garbled", "error"}

Init ==
    /\ stored = NoKey
    /\ waiting = [p \in Processes |-> NoCall]
    /\ home = [c \in Calls |-> NoProcess]
    /\ phase = [c \in Calls |-> "unborn"]
    /\ key = [c \in Calls |-> NoKey]
    /\ task = [c \in Calls |-> NoKey]
    /\ sealed = {}
    /\ reply = [p \in Processes |-> "none"]
    /\ drawn = {}
    /\ history = {}
    /\ early = {}

Goto(c, next) == phase' = [phase EXCEPT ![c] = next]

Release(p, answer) ==
    /\ waiting' = [waiting EXCEPT ![p] = NoCall]
    /\ reply' = [reply EXCEPT ![p] = answer]

Store(c) ==
    /\ stored' = key[c]
    /\ history' = history \cup {key[c]}

-----------------------------------------------------------------------------
(* A free event loop runs encrypt, or decrypt of a ciphertext handed out:  *)
(* the loader thread starts and the loop blocks in join.                   *)
Call(p, c) ==
    /\ waiting[p] = NoCall
    /\ phase[c] = "unborn"
    /\ \E k \in sealed \cup {NoKey} : task' = [task EXCEPT ![c] = k]
    /\ waiting' = [waiting EXCEPT ![p] = c]
    /\ home' = [home EXCEPT ![c] = p]
    /\ Goto(c, "look")
    /\ UNCHANGED <<stored, key, sealed, reply, past>>

(* Mutants of Look: nothing is generated, the setting found is not used,   *)
(* and the thread needs the event loop its caller blocks.                  *)
LookBlank(c) ==
    /\ phase[c] = "look"
    /\ key' = [key EXCEPT ![c] = stored]
    /\ Goto(c, IF stored = NoKey THEN "check" ELSE "done")
    /\ UNCHANGED <<stored, waiting, home, task, sealed, reply, past>>
LookAnew(c) ==
    /\ phase[c] = "look"
    /\ \E k \in Keys \ drawn :
          key' = [key EXCEPT ![c] = k] /\ drawn' = drawn \cup {k}
    /\ early' = IF stored = NoKey THEN early \cup {c} ELSE early
    /\ Goto(c, "check")
    /\ UNCHANGED <<stored, waiting, home, task, sealed, reply, history>>
LookOnCallersLoop(c) ==
    /\ phase[c] = "look"
    /\ waiting[home[c]] # c
    /\ Goto(c, "gone")
    /\ UNCHANGED <<stored, waiting, home, key, task, sealed, reply, past>>

(* get_setting, and token_hex when it finds nothing. *)
Look(c) ==
    /\ phase[c] = "look"
    /\ \/ /\ stored # NoKey
          /\ key' = [key EXCEPT ![c] = stored]
          /\ Goto(c, "done")
          /\ UNCHANGED <<drawn, early>>
       \/ /\ stored = NoKey
          /\ \E k \in Keys \ drawn :
                /\ key' = [key EXCEPT ![c] = k]
                /\ drawn' = drawn \cup {k}
          /\ early' = early \cup {c}
          /\ Goto(c, "check")
    /\ UNCHANGED <<stored, waiting, home, task, sealed, reply, history>>

(* set_setting's SELECT decides between UPDATE and INSERT. *)
Check(c) ==
    /\ phase[c] = "check"
    /\ Goto(c, IF stored = NoKey THEN "insert" ELSE "update")
    /\ UNCHANGED <<stored, waiting, home, key, task, sealed, reply, past>>

(* Mutants of Write: the violated primary key is taken for success, and    *)
(* the commit is forgotten.                                                *)
WriteSwallowed(c) ==
    /\ phase[c] \in {"insert", "update"}
    /\ IF phase[c] = "insert" /\ stored # NoKey
       THEN UNCHANGED <<stored, history>>
       ELSE Store(c)
    /\ Goto(c, "done")
    /\ UNCHANGED <<waiting, home, key, task, sealed, reply, drawn, early>>
WriteUncommitted(c) ==
    /\ phase[c] \in {"insert", "update"}
    /\ Goto(c, "done")
    /\ UNCHANGED <<stored, waiting, home, key, task, sealed, reply, past>>

(* set_setting's COMMIT. *)
Write(c) ==
    /\ \/ phase[c] = "update"
       \/ phase[c] = "insert" /\ stored = NoKey
    /\ Store(c)
    /\ Goto(c, "done")
    /\ UNCHANGED <<waiting, home, key, task, sealed, reply, drawn, early>>

(* A thread ends in an exception.  A caller still there answers 500.       *)
Throw(c) ==
    /\ Goto(c, "gone")
    /\ \/ \E p \in Processes : waiting[p] = c /\ Release(p, "error")
       \/ /\ \A p \in Processes : waiting[p] # c
          /\ UNCHANGED <<waiting, reply>>
    /\ UNCHANGED <<stored, home, key, task, sealed, past>>

(* The second INSERT violates the primary key. *)
Clash(c) ==
    /\ phase[c] = "insert"
    /\ stored # NoKey
    /\ Throw(c)

(* The database refuses a statement. *)
Break(c) ==
    /\ Faults
    /\ phase[c] \in {"look", "check", "insert", "update"}
    /\ Throw(c)

(* The thread has ended in time: the caller seals or opens with its key.   *)
Join(p, c) ==
    /\ waiting[p] = c
    /\ phase[c] = "done"
    /\ Goto(c, "gone")
    /\ \/ /\ task[c] = NoKey
          /\ sealed' = sealed \cup {key[c]}
          /\ Release(p, "sealed")
       \/ /\ task[c] # NoKey
          /\ Release(p, IF task[c] = key[c] THEN "opened" ELSE "garbled")
          /\ sealed' = sealed
    /\ UNCHANGED <<stored, home, key, task, past>>

(* join's ten seconds are over: 500, and the thread stays. *)
GiveUp(p) ==
    /\ Faults
    /\ waiting[p] # NoCall
    /\ Release(p, "error")
    /\ UNCHANGED <<stored, thread, sealed, past>>

(* A process dies with all its threads. *)
Die(p) ==
    /\ Faults
    /\ phase' = [c \in Calls |-> IF home[c] = p THEN "gone" ELSE phase[c]]
    /\ \/ waiting[p] # NoCall /\ Release(p, "error")
       \/ waiting[p] = NoCall /\ UNCHANGED <<waiting, reply>>
    /\ UNCHANGED <<stored, home, key, task, sealed, past>>

Load(c) == Look(c) \/ Check(c) \/ Write(c) \/ Clash(c)

Next ==
    \/ \E p \in Processes, c \in Calls : Call(p, c) \/ Join(p, c)
    \/ \E c \in Calls : Load(c) \/ Break(c)
    \/ \E p \in Processes : GiveUp(p) \/ Die(p)

Spec == Init /\ [][Next]_vars

(* Threads run and the database answers them; no fault need ever happen.   *)
FairSpec ==
    /\ Spec
    /\ \A c \in Calls : WF_vars(Load(c))
    /\ \A p \in Processes, c \in Calls : WF_vars(Join(p, c))

-----------------------------------------------------------------------------
(* Properties *)

(* Every variable has its type, and a thread past its look holds a key.    *)
TypeOK ==
    /\ stored \in Keys \cup {NoKey}
    /\ waiting \in [Processes -> Calls \cup {NoCall}]
    /\ home \in [Calls -> Processes \cup {NoProcess}]
    /\ phase \in [Calls -> Phases]
    /\ key \in [Calls -> Keys \cup {NoKey}]
    /\ task \in [Calls -> Keys \cup {NoKey}]
    /\ reply \in [Processes -> Replies]
    /\ sealed \subseteq Keys
    /\ drawn \subseteq Keys
    /\ history \subseteq Keys
    /\ early \subseteq Calls
    /\ \A c \in Calls : phase[c] \in {"check", "insert", "update", "done"}
                          => key[c] # NoKey

(* What was ever sealed was sealed with a key that was stored at some      *)
(* time, never with one that a failed or unfinished loader made up.        *)
SealedWithStoredKeys == sealed \subseteq history

(* However loaders, timeouts and deaths mix, the setting takes at most one *)
(* value for each loader that looked before there was one: a loader that   *)
(* comes later never replaces the key.                                     *)
KeysBounded == Cardinality(history) <= Cardinality(early)

(* A ciphertext handed out can be opened: tests/test_crypto.py:22 asserts  *)
(* that decrypt returns what encrypt was given.                            *)
RoundTrip == \A p \in Processes : reply[p] # "garbled"

(* That holds as long as a single key was ever stored: loaders that find   *)
(* no key at once are all that can go wrong, no timeout or death can.      *)
RoundTripWithOneKey == Cardinality(history) <= 1 => RoundTrip

(* A blocked event loop is released even if its join never times out: the  *)
(* loader does not need the loop it blocks, which is what the docstring of *)
(* _jwt_secret (core/security.py:119-121) says this design is for.         *)
EveryCallEnds ==
    \A p \in Processes, c \in Calls : waiting[p] = c ~> waiting[p] # c
=============================================================================

----------------------------- MODULE ClientProofs -----------------------------
(***************************************************************************)
(* Proofs about what a client of the API meets over many requests: the     *)
(* gate that each of them passes (RequestGate), for every window, limit    *)
(* and set of clients, and the lists it reads page by page (Listing), for  *)
(* every table, page size and set of readers.  The two specifications      *)
(* share nothing; their theorems are independent of each other.            *)
(***************************************************************************)
EXTENDS RequestGate, Listing, FiniteSetTheorems, FunctionTheorems, TLAPS

-----------------------------------------------------------------------------
(* The gate: what a bucket knows of the past.                              *)

(* The history only grows with time, and stops at the present.             *)
Cumulative(k) ==
    /\ \A s, t \in Seconds : s <= t => admitted[k][s] <= admitted[k][t]
    /\ \A t \in Seconds : t >= now => admitted[k][t] = admitted[k][now]

(* A bucket counts what was let through since it opened, with a request    *)
(* that it let through first; nothing is let through after its window; and *)
(* what came within a window before it was less than a full window's worth.*)
BucketTrue(k) ==
    count[k] > 0 =>
        /\ count[k] = Between(k, started[k], now)
        /\ Between(k, started[k], started[k]) >= 1
        /\ Between(k, started[k] - Window + 1, started[k] - 1) < MaxPerWindow
        /\ \A t \in Seconds : t >= started[k] + Window - 1 =>
              admitted[k][t] = admitted[k][started[k] + Window - 1]

(* Where there is no bucket, nothing came in this second, and less than a  *)
(* full window's worth in the window that ends with it.                    *)
NoBucketTrue(k) ==
    count[k] = 0 =>
        /\ Between(k, now, now) = 0
        /\ Between(k, now - Window + 1, now) < MaxPerWindow

Spans(k) ==
    \A t \in 0..MaxTime : Between(k, t, t + Window - 1) < 2 * MaxPerWindow

GateHistory ==
    \A k \in Clients :
        Cumulative(k) /\ BucketTrue(k) /\ NoBucketTrue(k) /\ Spans(k)

GateInv == TypeOK /\ GateHistory /\ CountersAgree

LEMMA GateInit == Init => GateInv
<1> SUFFICES ASSUME Init PROVE GateInv
  OBVIOUS
<1> USE GateAssumption
<1>1. TypeOK
  BY DEF Init, TypeOK
<1>2. GateHistory
  <2>1. /\ \A k \in Clients, t \in Seconds : admitted[k][t] = 0
        /\ \A k \in Clients : count[k] = 0
        /\ now = 0
    BY DEF Init
  <2>2. /\ 0 \in Seconds /\ -1 \in Seconds /\ -Window \in Seconds
        /\ \A t \in 0..MaxTime : t - 1 \in Seconds /\ t + Window - 1 \in Seconds
    BY DEF Seconds
  <2> QED
    <3> SUFFICES ASSUME NEW k \in Clients
                 PROVE  Cumulative(k) /\ BucketTrue(k) /\ NoBucketTrue(k) /\ Spans(k)
      BY DEF GateHistory
    <3>1. Cumulative(k) /\ BucketTrue(k)
      BY <2>1, <2>2 DEF Cumulative, BucketTrue
    <3>2. Between(k, now, now) = 0 /\ Between(k, now - Window + 1, now) = 0
      <4>1. (now - Window + 1) - 1 = -Window /\ now - 1 = -1
        BY <2>1
      <4> QED
        BY <2>1, <2>2, <4>1 DEF Between
    <3>3. NoBucketTrue(k)
      BY <3>2 DEF NoBucketTrue
    <3>4. Spans(k)
      BY <2>1, <2>2 DEF Spans, Between
    <3> QED
      BY <3>1, <3>3, <3>4
<1>3. CountersAgree
  BY DEF Init, CountersAgree, Sum, Statuses, Refusals, Answers, Preflights
<1> QED
  BY <1>1, <1>2, <1>3 DEF GateInv

(* The seconds the argument looks at are all seconds of the history.       *)
LEMMA SecondsThere ==
  ASSUME TypeOK, NEW k \in Clients
  PROVE  /\ now \in Seconds /\ now - 1 \in Seconds /\ now - Window \in Seconds
         /\ started[k] \in Seconds /\ started[k] - 1 \in Seconds
         /\ started[k] - Window \in Seconds
         /\ started[k] + Window - 1 \in Seconds
         /\ \A t \in Seconds : t \in Int /\ admitted[k][t] \in Nat
         /\ \A t \in 0..MaxTime : t - 1 \in Seconds /\ t + Window - 1 \in Seconds
         /\ now \in 0..MaxTime /\ started[k] \in 0..now
         /\ count[k] \in 0..MaxPerWindow
<1>1. /\ now \in 0..MaxTime /\ started[k] \in 0..now
      /\ count[k] \in 0..MaxPerWindow
      /\ admitted[k] \in [Seconds -> Nat]
  BY DEF TypeOK
<1>2. Window \in Nat /\ Window >= 1 /\ MaxTime \in Nat
  BY GateAssumption
<1>3. \A t : t \in Seconds <=> t \in Int /\ 0 - Window <= t /\ t <= MaxTime + Window
  BY <1>2 DEF Seconds
<1>4. \A t \in 0..MaxTime : t - 1 \in Seconds /\ t + Window - 1 \in Seconds
                              /\ t \in Seconds /\ t - Window \in Seconds
  BY <1>2, <1>3
<1>5. started[k] \in 0..MaxTime
  BY <1>1, <1>2
<1>6. \A t \in Seconds : t \in Int /\ admitted[k][t] \in Nat
  BY <1>1, <1>3
<1> QED
  BY <1>1, <1>4, <1>5, <1>6

(* What came after second a, up to b. *)
LEMMA AfterSecond ==
  ASSUME NEW k, NEW a \in Int, NEW b
  PROVE  Between(k, a + 1, b) = admitted[k][b] - admitted[k][a]
<1>1. (a + 1) - 1 = a
  OBVIOUS
<1> QED
  BY <1>1 DEF Between

(* A client without a bucket, or with one that has expired, has had less   *)
(* than a full window's worth in the window that ends now, and nothing yet *)
(* in this second.                                                         *)
LEMMA UnusedIsIdle ==
  ASSUME TypeOK, NEW k \in Clients, Cumulative(k), BucketTrue(k),
         NoBucketTrue(k), Used(k) = 0
  PROVE  /\ Between(k, now, now) = 0
         /\ Between(k, now - Window + 1, now) < MaxPerWindow
<1>1. CASE count[k] = 0
  BY <1>1 DEF NoBucketTrue
<1>2. CASE count[k] # 0
  <2>1. count[k] > 0 /\ now - started[k] >= Window
    BY <1>2, SecondsThere DEF Used, Expired
  <2> DEFINE A == admitted[k]
             s == started[k]
  <2>2. /\ count[k] = A[now] - A[s - 1]
        /\ A[s] - A[s - 1] >= 1
        /\ A[now] = A[s + Window - 1] /\ A[now - 1] = A[s + Window - 1]
    BY <2>1, SecondsThere, GateAssumption DEF BucketTrue, Between
  <2>3. A[s] <= A[now - Window]
    BY <2>1, SecondsThere, GateAssumption DEF Cumulative
  <2>0. /\ Between(k, now, now) = A[now] - A[now - 1]
        /\ Between(k, now - Window + 1, now) = A[now] - A[now - Window]
    <3>1. now - Window \in Int
      BY SecondsThere, GateAssumption
    <3> QED
      BY <3>1, AfterSecond, Zenon DEF Between
  <2>4. /\ A[now] \in Nat /\ A[now - 1] \in Nat /\ A[s] \in Nat
        /\ A[s - 1] \in Nat /\ A[now - Window] \in Nat
    BY SecondsThere, GateAssumption
  <2> HIDE DEF A, s
  <2>5. A[now] - A[now - Window] < MaxPerWindow
    BY <2>2, <2>3, <2>4, SecondsThere, GateAssumption
  <2>6. A[now] - A[now - 1] = 0
    BY <2>2, <2>4
  <2> QED
    BY <2>0, <2>5, <2>6
<1> QED
  BY <1>1, <1>2

(* A bucket that is used has not expired. *)
LEMMA UsedIsLive ==
  ASSUME TypeOK, NEW k \in Clients, Used(k) # 0
  PROVE  Used(k) = count[k] /\ count[k] > 0 /\ now < started[k] + Window
  BY SecondsThere, GateAssumption DEF Used, Expired

Past(k) == Cumulative(k) /\ BucketTrue(k) /\ NoBucketTrue(k) /\ Spans(k)

(* A check that lets nothing of k through drops its bucket if it expired.  *)
LEMMA SweptKeeps ==
  ASSUME TypeOK, NEW k \in Clients, Past(k), now' = now,
         admitted'[k] = admitted[k], count'[k] = Used(k),
         started'[k] = IF Used(k) = 0 THEN 0 ELSE started[k]
  PROVE  Past(k)'
<1>1. Cumulative(k)' /\ Spans(k)'
  BY DEF Past, Cumulative, Spans, Between
<1>2. CASE Used(k) = 0
  <2>1. count'[k] = 0
    BY <1>2
  <2>2. NoBucketTrue(k)'
    BY <1>2, UnusedIsIdle DEF Past, NoBucketTrue, Between
  <2> QED
    BY <1>1, <2>1, <2>2 DEF Past, BucketTrue
<1>3. CASE Used(k) # 0
  <2>1. count'[k] = count[k] /\ started'[k] = started[k]
    BY <1>3, UsedIsLive
  <2>2. BucketTrue(k)' /\ NoBucketTrue(k)'
    BY <2>1 DEF Past, BucketTrue, NoBucketTrue, Between
  <2> QED
    BY <1>1, <2>2 DEF Past
<1> QED
  BY <1>2, <1>3

(* A request let through: the history is one more from now on.             *)
LEMMA LetThroughHistory ==
  ASSUME TypeOK, NEW k \in Clients, LetThrough(k)
  PROVE  /\ \A t \in Seconds :
               admitted'[k][t] = IF t < now THEN admitted[k][t]
                                 ELSE admitted[k][t] + 1
         /\ \A c \in Clients \ {k} : admitted'[c] = admitted[c]
         /\ admitted' \in [Clients -> [Seconds -> Nat]]
<1>1. admitted[k] \in [Seconds -> Nat] /\ admitted \in [Clients -> [Seconds -> Nat]]
  BY DEF TypeOK
<1>2. [t \in Seconds |-> IF t < now THEN admitted[k][t] ELSE admitted[k][t] + 1]
         \in [Seconds -> Nat]
  BY <1>1
<1> QED
  BY <1>1, <1>2 DEF LetThrough

(* It opens a bucket or adds to one.  Either way no span gets too much: a  *)
(* span that a new bucket falls into had less than a window's worth; one   *)
(* that an old bucket falls into has what the bucket counts, and before it *)
(* less than a window's worth.                                             *)
LEMMA AdmittedKeeps ==
  ASSUME TypeOK, NEW k \in Clients, Past(k), now' = now, LetThrough(k),
         Used(k) < MaxPerWindow, count'[k] = Used(k) + 1,
         started'[k] = IF Used(k) = 0 THEN now ELSE started[k]
  PROVE  Past(k)'
<1> DEFINE A == admitted[k]
           B == admitted'[k]
           s == started[k]
<1>1. \A t \in Seconds : B[t] = IF t < now THEN A[t] ELSE A[t] + 1
  BY LetThroughHistory
<1>2. /\ now \in Seconds /\ now - 1 \in Seconds /\ now - Window \in Seconds
      /\ s \in Seconds /\ s - 1 \in Seconds /\ s - Window \in Seconds
      /\ s + Window - 1 \in Seconds /\ now + Window - 1 \in Seconds
      /\ \A t \in Seconds : t \in Int /\ A[t] \in Nat
      /\ \A t \in 0..MaxTime : t - 1 \in Seconds /\ t + Window - 1 \in Seconds
      /\ now \in 0..MaxTime /\ s \in 0..now /\ count[k] \in 0..MaxPerWindow
  BY SecondsThere
<1>3. Window \in Nat /\ Window >= 1 /\ MaxPerWindow \in Nat /\ MaxPerWindow >= 1
  BY GateAssumption
<1>4. /\ \A t, u \in Seconds : t <= u => A[t] <= A[u]
      /\ \A t \in Seconds : t >= now => A[t] = A[now]
  BY DEF Past, Cumulative
<1>5. \A t \in 0..MaxTime : A[t + Window - 1] - A[t - 1] < 2 * MaxPerWindow
  BY DEF Past, Spans, Between
<1> HIDE DEF A, B, s
<1>6. /\ \A t, u \in Seconds : t <= u => B[t] <= B[u]
      /\ \A t \in Seconds : t >= now => B[t] = B[now]
  <2>1. ASSUME NEW t \in Seconds, NEW u \in Seconds, t <= u
        PROVE  B[t] <= B[u]
    <3>1. A[t] <= A[u] /\ A[t] \in Nat /\ A[u] \in Nat /\ t \in Int /\ u \in Int
          /\ now \in Int
      BY <1>2, <1>4, <2>1
    <3> QED
      BY <1>1, <2>1, <3>1
  <2>2. \A t \in Seconds : t >= now => B[t] = B[now]
    BY <1>1, <1>2, <1>4
  <2> QED
    BY <2>1, <2>2
<1>7. B[now] = A[now] + 1 /\ B[now - 1] = A[now - 1]
  BY <1>1, <1>2
<1>8. ASSUME NEW b \in Seconds, b <= now - Window,
              (A[now] - A[b]) + 1 < 2 * MaxPerWindow
      PROVE  Spans(k)'
  <2> SUFFICES ASSUME NEW t \in 0..MaxTime
               PROVE  B[t + Window - 1] - B[t - 1] < 2 * MaxPerWindow
    BY DEF Spans, Between, B
  <2> DEFINE lo == t - 1
             hi == t + Window - 1
  <2>1. /\ lo \in Seconds /\ hi \in Seconds /\ lo \in Int /\ hi \in Int
        /\ A[lo] \in Nat /\ A[hi] \in Nat /\ A[b] \in Nat /\ A[now] \in Nat
        /\ b \in Int /\ now \in Int
        /\ A[hi] - A[lo] < 2 * MaxPerWindow
    <3>1. A[hi] - A[lo] < 2 * MaxPerWindow
      BY <1>5
    <3> QED
      BY <1>2, <3>1
  <2>2. t \in Int /\ hi - Window = lo
    BY <1>3, GateAssumption
  <2>3. SUFFICES B[hi] - B[lo] < 2 * MaxPerWindow
    OBVIOUS
  <2> HIDE DEF lo, hi
  <2>4. CASE lo >= now
    <3>1. hi >= now
      BY <1>3, <2>1, <2>2, <2>4
    <3>2. B[lo] = A[lo] + 1 /\ B[hi] = A[hi] + 1
      BY <1>1, <2>1, <2>4, <3>1
    <3> QED
      BY <2>1, <3>2, <1>3
  <2>5. CASE hi < now
    <3>1. lo < now
      BY <1>3, <2>1, <2>2, <2>5
    <3>2. B[lo] = A[lo] /\ B[hi] = A[hi]
      BY <1>1, <2>1, <2>5, <3>1
    <3> QED
      BY <2>1, <3>2
  <2>6. CASE lo < now /\ hi >= now
    <3>1. B[lo] = A[lo] /\ B[hi] = A[now] + 1
      BY <1>1, <1>4, <2>1, <2>6
    <3>2. b <= lo
      BY <1>3, <1>8, <2>1, <2>2, <2>6
    <3>3. A[b] <= A[lo]
      BY <1>4, <2>1, <3>2
    <3> QED
      BY <1>3, <1>8, <2>1, <3>1, <3>3
  <2> QED
    BY <2>1, <2>4, <2>5, <2>6
<1>9. CASE Used(k) = 0
  <2>1. A[now] - A[now - 1] = 0 /\ A[now] - A[now - Window] < MaxPerWindow
    <3>1. /\ Between(k, now, now) = 0
          /\ Between(k, (now - Window) + 1, now) < MaxPerWindow
      BY <1>9, UnusedIsIdle DEF Past
    <3> QED
      BY <1>2, <1>3, <3>1, AfterSecond DEF Between, A
  <2>2. count'[k] = 1 /\ started'[k] = now
    BY <1>9
  <2>3. BucketTrue(k)'
    <3>1. B[now] - B[now - 1] = 1
      BY <1>2, <1>7, <2>1
    <3>2. B[now - 1] - B[now - Window] < MaxPerWindow
      <4>1. B[now - Window] = A[now - Window]
        BY <1>1, <1>2, <1>3
      <4>2. A[now - 1] = A[now]
        BY <1>2, <2>1
      <4> QED
        BY <1>7, <2>1, <4>1, <4>2
    <3>3. \A t \in Seconds : t >= now + Window - 1 => B[t] = B[now + Window - 1]
      BY <1>2, <1>3, <1>6
    <3>4. Between(k, now, now)' = 1
      BY <3>1 DEF Between, B
    <3>5. Between(k, (now - Window) + 1, now - 1)' < MaxPerWindow
      <4>1. ((now - Window) + 1) - 1 = now - Window
        BY <1>2, <1>3
      <4> QED
        BY <3>2, <4>1 DEF Between, B
    <3> QED
      BY <2>2, <3>3, <3>4, <3>5 DEF BucketTrue, B
  <2>4. Spans(k)'
    <3>1. (A[now] - A[now - Window]) + 1 < 2 * MaxPerWindow
      BY <1>2, <1>3, <2>1
    <3>2. now - Window <= now - Window
      BY <1>2, <1>3
    <3> QED
      BY <1>2, <1>8, <3>1, <3>2
  <2> QED
    BY <1>6, <2>2, <2>3, <2>4 DEF Past, NoBucketTrue, Cumulative, B
<1>10. CASE Used(k) # 0
  <2>1. /\ count[k] > 0 /\ count[k] < MaxPerWindow /\ now < s + Window
        /\ count'[k] = count[k] + 1 /\ started'[k] = s
    BY <1>10, UsedIsLive DEF s
  <2>2. /\ count[k] = A[now] - A[s - 1]
        /\ A[s] - A[s - 1] >= 1
        /\ A[s - 1] - A[s - Window] < MaxPerWindow
        /\ \A t \in Seconds : t >= s + Window - 1 => A[t] = A[s + Window - 1]
    <3>1. /\ count[k] = Between(k, s, now)
          /\ Between(k, s, s) >= 1
          /\ Between(k, (s - Window) + 1, s - 1) < MaxPerWindow
          /\ \A t \in Seconds : t >= s + Window - 1 => A[t] = A[s + Window - 1]
      BY <2>1 DEF Past, BucketTrue, A, s
    <3>2. s - Window \in Int
      BY <1>2, <1>3
    <3> QED
      BY <3>1, <3>2, AfterSecond DEF Between, A
  <2>3. BucketTrue(k)'
    <3>1. B[s - 1] = A[s - 1] /\ B[s - Window] = A[s - Window]
      BY <1>1, <1>2, <1>3
    <3>2. B[now] - B[s - 1] = count[k] + 1
      BY <1>2, <1>7, <2>2, <3>1
    <3>3. B[s] - B[s - 1] >= 1
      BY <1>1, <1>2, <2>2, <3>1
    <3>4. \A t \in Seconds : t >= s + Window - 1 => B[t] = B[s + Window - 1]
      BY <1>1, <1>2, <1>3, <2>1, <2>2
    <3>5. Between(k, s, now)' = count[k] + 1 /\ Between(k, s, s)' >= 1
      BY <3>2, <3>3, <2>1 DEF Between, B, s
    <3>6. Between(k, (s - Window) + 1, s - 1)' < MaxPerWindow
      <4>1. ((s - Window) + 1) - 1 = s - Window
        BY <1>2, <1>3
      <4>2. B[s - 1] - B[((s - Window) + 1) - 1] < MaxPerWindow
        BY <2>2, <3>1, <4>1
      <4> QED
        BY <2>1, <4>2 DEF Between, B, s
    <3> QED
      BY <2>1, <3>4, <3>5, <3>6 DEF BucketTrue, B, s
  <2>4. Spans(k)'
    <3>1. (A[now] - A[s - Window]) + 1 < 2 * MaxPerWindow
      BY <1>2, <1>3, <2>1, <2>2
    <3>2. s - Window <= now - Window
      BY <1>2, <1>3
    <3> QED
      BY <1>2, <1>8, <3>1, <3>2
  <2> QED
    BY <1>6, <2>1, <1>2, <2>3, <2>4 DEF Past, NoBucketTrue, Cumulative, B
<1> QED
  BY <1>9, <1>10
(* One more response of a status: a sum grows by one.                      *)
LEMMA OneMore ==
  ASSUME NEW f \in [Statuses -> Nat], NEW s \in Statuses
  PROVE  /\ [f EXCEPT ![s] = @ + 1] \in [Statuses -> Nat]
         /\ Sum([f EXCEPT ![s] = @ + 1]) = Sum(f) + 1
         /\ Sum(f) \in Nat
<1>1. \A t \in Statuses : f[t] \in Nat
  OBVIOUS
<1>2. Statuses = {200, 400, 401, 409, 413, 429, 500}
  BY DEF Statuses, Refusals, Answers, Preflights
<1> QED
  BY <1>1, <1>2 DEF Sum

(* A response that the counters see.                                       *)
LEMMA Counted ==
  ASSUME TypeOK, CountersAgree, NEW s \in Statuses \ {500}, Record(s), Send(s),
         preflights' = preflights
  PROVE  /\ CountersAgree'
         /\ stats' \in [total : Nat, errors : Nat]
         /\ prom' \in [total : Nat, errors : Nat, status : [Statuses -> Nat]]
         /\ sent' \in [Statuses -> Nat]
<1> DEFINE p == prom.status
<1>1. /\ p \in [Statuses -> Nat] /\ sent \in [Statuses -> Nat]
      /\ stats.total \in Nat /\ stats.errors \in Nat
      /\ prom.total \in Nat /\ prom.errors \in Nat
      /\ preflights \in Nat
  BY DEF TypeOK
<1>2. /\ stats' = [total |-> stats.total + 1, errors |-> stats.errors]
      /\ prom' = [total |-> prom.total + 1, errors |-> prom.errors,
                  status |-> [p EXCEPT ![s] = @ + 1]]
      /\ sent' = [sent EXCEPT ![s] = @ + 1]
  <2>1. ~ IsError(s)
    BY DEF IsError, Statuses, Refusals, Answers, Preflights
  <2> QED
    BY <1>1, <2>1 DEF Record, Send
<1>3. /\ prom'.status \in [Statuses -> Nat]
      /\ Sum(prom'.status) = Sum(p) + 1
      /\ sent' \in [Statuses -> Nat]
      /\ Sum(sent') = Sum(sent) + 1 /\ Sum(sent) \in Nat
  <2>1. prom'.status = [p EXCEPT ![s] = @ + 1]
    BY <1>2
  <2> QED
    BY <1>1, <1>2, <2>1, OneMore
<1>4. prom'.status[500] = p[500] /\ sent'[500] = sent[500]
  BY <1>1, <1>2 DEF Statuses
<1>5. /\ \A t \in Statuses : prom'.status[t] <= sent'[t]
      /\ \A t \in {401, 409, 413, 429} : prom'.status[t] = sent'[t]
  <2>1. /\ \A t \in Statuses : p[t] <= sent[t]
        /\ \A t \in {401, 409, 413, 429} : p[t] = sent[t]
    BY DEF CountersAgree
  <2>2. \A t \in Statuses :
           /\ prom'.status[t] = IF t = s THEN p[t] + 1 ELSE p[t]
           /\ sent'[t] = IF t = s THEN sent[t] + 1 ELSE sent[t]
           /\ p[t] \in Nat /\ sent[t] \in Nat
    BY <1>1, <1>2
  <2>3. {401, 409, 413, 429} \subseteq Statuses
    BY DEF Statuses, Refusals, Answers
  <2> HIDE DEF p
  <2> QED
    BY <2>1, <2>2, <2>3
<1>6. CountersAgree'
  <2>1. /\ stats.total = prom.total /\ prom.total = Sum(p)
        /\ p[500] = 0 /\ stats.errors = 0 /\ prom.errors = 0
        /\ stats.total + preflights + sent[500] = Sum(sent)
    BY DEF CountersAgree
  <2>2. /\ stats'.total = stats.total + 1 /\ stats'.errors = stats.errors
        /\ prom'.total = prom.total + 1 /\ prom'.errors = prom.errors
    BY <1>2
  <2>3. sent[500] \in Nat
    BY <1>1 DEF Statuses
  <2>4. stats'.total + preflights' + sent'[500] = Sum(sent')
    BY <1>1, <1>3, <1>4, <2>1, <2>2, <2>3
  <2>5. /\ stats'.total = prom'.total /\ prom'.total = Sum(prom'.status)
        /\ prom'.status[500] = 0 /\ stats'.errors = 0 /\ prom'.errors = 0
    BY <1>3, <1>4, <2>1, <2>2
  <2>6. (Sum(sent))' = Sum(sent') /\ (Sum(prom.status))' = Sum(prom'.status)
    BY DEF Sum
  <2> QED
    BY <1>5, <2>4, <2>5, <2>6 DEF CountersAgree
<1> QED
  BY <1>1, <1>2, <1>3, <1>6

(* One that they do not: a preflight's, or a 500.                          *)
LEMMA Uncounted ==
  ASSUME TypeOK, CountersAgree, NEW s \in {200, 400, 500}, Send(s),
         preflights' = preflights + IF s = 500 THEN 0 ELSE 1,
         UNCHANGED counters
  PROVE  CountersAgree' /\ sent' \in [Statuses -> Nat] /\ preflights' \in Nat
<1>1. /\ sent \in [Statuses -> Nat] /\ s \in Statuses /\ 500 \in Statuses
      /\ preflights \in Nat /\ stats.total \in Nat
      /\ prom.status \in [Statuses -> Nat]
  BY DEF TypeOK, Statuses, Preflights
<1>2. /\ sent' \in [Statuses -> Nat] /\ Sum(sent') = Sum(sent) + 1
      /\ Sum(sent) \in Nat
  <2>1. sent' = [sent EXCEPT ![s] = @ + 1]
    BY DEF Send
  <2>2. /\ [sent EXCEPT ![s] = @ + 1] \in [Statuses -> Nat]
        /\ Sum([sent EXCEPT ![s] = @ + 1]) = Sum(sent) + 1
        /\ Sum(sent) \in Nat
    BY <1>1, OneMore, Zenon
  <2> QED
    BY <2>1, <2>2, Zenon
<1>3. sent'[s] = sent[s] + 1 /\ \A t \in Statuses \ {s} : sent'[t] = sent[t]
  BY <1>1 DEF Send
<1>4. \A t \in Statuses : sent[t] \in Nat /\ prom.status[t] \in Nat
  BY <1>1
<1>5. stats' = stats /\ prom' = prom
  BY DEF counters
<1>6. stats.total + preflights' + sent'[500] = Sum(sent')
  <2>1. stats.total + preflights + sent[500] = Sum(sent)
    BY DEF CountersAgree
  <2>2. CASE s = 500
    <3>1. preflights' = preflights /\ sent'[500] = sent[500] + 1
      BY <1>1, <1>3, <2>2
    <3> QED
      BY <1>1, <1>2, <1>4, <2>1, <3>1
  <2>3. CASE s # 500
    <3>1. preflights' = preflights + 1 /\ sent'[500] = sent[500]
      BY <1>1, <1>3, <2>3
    <3> QED
      BY <1>1, <1>2, <1>4, <2>1, <3>1
  <2> QED
    BY <2>2, <2>3
<1>7. /\ \A t \in Statuses : prom.status[t] <= sent'[t]
      /\ \A t \in {401, 409, 413, 429} : prom.status[t] = sent'[t]
  <2>1. /\ \A t \in Statuses : prom.status[t] <= sent[t]
        /\ \A t \in {401, 409, 413, 429} : prom.status[t] = sent[t]
    BY DEF CountersAgree
  <2>2. {401, 409, 413, 429} \subseteq Statuses \ {s}
    BY DEF Statuses, Refusals, Answers
  <2>3. \A t \in Statuses : sent[t] <= sent'[t]
    BY <1>3, <1>4
  <2>4. \A t \in Statuses : sent'[t] \in Nat
    BY <1>2
  <2>5. \A t \in Statuses : prom.status[t] <= sent'[t]
    BY <1>4, <2>1, <2>3, <2>4
  <2> QED
    BY <1>3, <2>1, <2>2, <2>5
<1>8. (Sum(sent))' = Sum(sent') /\ (Sum(prom.status))' = Sum(prom'.status)
  BY DEF Sum
<1>9. preflights' \in Nat
  BY <1>1
<1> QED
  BY <1>2, <1>5, <1>6, <1>7, <1>8, <1>9 DEF CountersAgree

(* A second passes: the history has nothing in it yet.                     *)
LEMMA TickKeeps ==
  ASSUME TypeOK, NEW k \in Clients, Past(k), Tick
  PROVE  Past(k)'
<1> DEFINE A == admitted[k]
           s == started[k]
<1>1. now' = now + 1 /\ now < MaxTime /\ count' = count /\ started' = started
      /\ admitted' = admitted
  BY DEF Tick, buckets
<1>2. /\ now \in Seconds /\ now - 1 \in Seconds /\ now - Window \in Seconds
      /\ s \in Seconds /\ s - 1 \in Seconds
      /\ \A t \in Seconds : t \in Int /\ A[t] \in Nat
      /\ now \in 0..MaxTime /\ s \in 0..now /\ count[k] \in 0..MaxPerWindow
  BY SecondsThere
<1>3. Window \in Nat /\ Window >= 1 /\ MaxTime \in Nat
  BY GateAssumption
<1>4. /\ \A t, u \in Seconds : t <= u => A[t] <= A[u]
      /\ \A t \in Seconds : t >= now => A[t] = A[now]
  BY DEF Past, Cumulative
<1>5. /\ now + 1 \in Seconds
      /\ (now + 1) - Window \in Seconds
  BY <1>1, <1>2, <1>3 DEF Seconds
<1>6. A[now + 1] = A[now]
  BY <1>2, <1>4, <1>5
<1>7. Cumulative(k)' /\ Spans(k)'
  <2>1. \A t \in Seconds : t >= now + 1 => A[t] = A[now + 1]
    BY <1>2, <1>4, <1>6
  <2> QED
    BY <1>1, <2>1 DEF Past, Cumulative, Spans, Between
<1>8. BucketTrue(k)'
  BY <1>1, <1>6 DEF Past, BucketTrue, Between
<1>9. NoBucketTrue(k)'
  <2> SUFFICES ASSUME count[k] = 0
               PROVE  /\ A[now + 1] - A[(now + 1) - 1] = 0
                      /\ A[now + 1] - A[(((now + 1) - Window) + 1) - 1] < MaxPerWindow
    BY <1>1 DEF NoBucketTrue, Between
  <2>1. /\ (now + 1) - 1 = now
        /\ (((now + 1) - Window) + 1) - 1 = (now + 1) - Window
    BY <1>2, <1>3
  <2>2. A[now] - A[now - Window] < MaxPerWindow
    <3>1. Between(k, (now - Window) + 1, now) < MaxPerWindow
      BY DEF Past, NoBucketTrue
    <3>2. now - Window \in Int
      BY <1>2, <1>3
    <3> QED
      BY <3>1, <3>2, AfterSecond
  <2>3. A[now - Window] <= A[(now + 1) - Window]
    BY <1>2, <1>3, <1>4, <1>5
  <2>4. /\ A[now] \in Nat /\ A[now - Window] \in Nat
        /\ A[(now + 1) - Window] \in Nat /\ MaxPerWindow \in Nat
    BY <1>2, <1>5, GateAssumption
  <2> HIDE DEF A
  <2>5. A[now] - A[now] = 0 /\ A[now] - A[(now + 1) - Window] < MaxPerWindow
    BY <2>2, <2>3, <2>4
  <2> QED
    BY <1>6, <2>1, <2>5
<1> QED
  BY <1>7, <1>8, <1>9 DEF Past
(* Every step keeps what the gate knows.                                   *)
LEMMA GateStep == GateInv /\ [Next]_vars => GateInv'
<1> SUFFICES ASSUME GateInv, [Next]_vars
             PROVE  GateInv'
  OBVIOUS
<1>1. TypeOK /\ CountersAgree /\ \A k \in Clients : Past(k)
  BY DEF GateInv, GateHistory, Past
<1>2. SUFFICES TypeOK' /\ CountersAgree' /\ \A k \in Clients : Past(k)'
  BY DEF GateInv, GateHistory, Past
<1>3. \A k \in Clients : Used(k) \in 0..MaxPerWindow
  BY <1>1, GateAssumption DEF TypeOK, Used
<1>4. 429 \in Statuses \ {500} /\ Refusals \subseteq Statuses \ {500}
      /\ Answers \subseteq Statuses \ {500}
  BY DEF Statuses, Refusals, Answers
<1>5. ASSUME UNCHANGED <<now, buckets, admitted>>
      PROVE  /\ \A k \in Clients : Past(k)'
             /\ now' \in 0..MaxTime /\ started' \in [Clients -> 0..now']
             /\ count' \in [Clients -> 0..MaxPerWindow]
             /\ admitted' \in [Clients -> [Seconds -> Nat]]
  <2>1. now' = now /\ started' = started /\ count' = count /\ admitted' = admitted
    BY <1>5 DEF buckets
  <2>2. \A k \in Clients : Past(k)'
    BY <1>1, <2>1
       DEF Past, Cumulative, BucketTrue, NoBucketTrue, Spans, Between
  <2> QED
    BY <1>1, <2>1, <2>2 DEF TypeOK
<1>6. ASSUME UNCHANGED <<counters, sent, preflights>>
      PROVE  /\ CountersAgree'
             /\ preflights' \in Nat
             /\ stats' \in [total : Nat, errors : Nat]
             /\ prom' \in [total : Nat, errors : Nat, status : [Statuses -> Nat]]
             /\ sent' \in [Statuses -> Nat]
  BY <1>1, <1>6 DEF counters, CountersAgree, Sum, TypeOK
<1>7. ASSUME NEW k \in Clients, Enter(k)
      PROVE  TypeOK' /\ CountersAgree' /\ \A c \in Clients : Past(c)'
  <2>1. /\ now' = now /\ LetThrough(k) /\ refused' = refused /\ open' = open + 1
        /\ Used(k) < MaxPerWindow
        /\ count' = [c \in Clients |-> IF c = k THEN Used(k) + 1 ELSE Used(c)]
        /\ started' = [c \in Clients |->
                          IF c = k /\ Used(k) = 0 THEN now
                          ELSE IF Used(c) = 0 THEN 0 ELSE started[c]]
        /\ UNCHANGED <<counters, sent, preflights>>
    BY <1>7 DEF Enter, Admit
  <2>2. now \in 0..MaxTime /\ started \in [Clients -> 0..now] /\ open \in Nat
    BY <1>1 DEF TypeOK
  <2>3. /\ count' \in [Clients -> 0..MaxPerWindow]
        /\ started' \in [Clients -> 0..now]
    BY <1>3, <2>1, <2>2, GateAssumption
  <2>4. TypeOK'
    <3>1. admitted' \in [Clients -> [Seconds -> Nat]]
      BY <1>1, <2>1, LetThroughHistory
    <3>2. refused' \in Clients \cup {Nobody}
      BY <1>1, <2>1 DEF TypeOK
    <3> QED
      BY <1>6, <2>1, <2>2, <2>3, <3>1, <3>2 DEF TypeOK
  <2>5. Past(k)'
    <3>1. /\ count'[k] = Used(k) + 1
          /\ started'[k] = IF Used(k) = 0 THEN now ELSE started[k]
      BY <2>1
    <3> QED
      BY <1>1, <2>1, <3>1, AdmittedKeeps
  <2>6. ASSUME NEW c \in Clients \ {k}
        PROVE  Past(c)'
    <3>1. /\ count'[c] = Used(c)
          /\ started'[c] = IF Used(c) = 0 THEN 0 ELSE started[c]
          /\ admitted'[c] = admitted[c]
      BY <1>1, <2>1, LetThroughHistory
    <3> QED
      BY <1>1, <2>1, <3>1, SweptKeeps
  <2> QED
    BY <1>6, <2>1, <2>4, <2>5, <2>6
<1>8. ASSUME NEW k \in Clients, TooMany(k)
      PROVE  TypeOK' /\ CountersAgree' /\ \A c \in Clients : Past(c)'
  <2>1. /\ now' = now /\ admitted' = admitted /\ refused' = k /\ open' = open
        /\ count' = [c \in Clients |-> Used(c)]
        /\ started' = [c \in Clients |-> IF Used(c) = 0 THEN 0 ELSE started[c]]
        /\ Record(429) /\ Send(429) /\ preflights' = preflights
    BY <1>8 DEF TooMany, Limit
  <2>2. TypeOK' /\ CountersAgree'
    <3>1. now \in 0..MaxTime /\ started \in [Clients -> 0..now] /\ open \in Nat
          /\ admitted \in [Clients -> [Seconds -> Nat]] /\ preflights \in Nat
      BY <1>1 DEF TypeOK
    <3>2. /\ count' \in [Clients -> 0..MaxPerWindow]
          /\ started' \in [Clients -> 0..now]
      BY <1>3, <2>1, <3>1
    <3>3. /\ CountersAgree'
          /\ stats' \in [total : Nat, errors : Nat]
          /\ prom' \in [total : Nat, errors : Nat, status : [Statuses -> Nat]]
          /\ sent' \in [Statuses -> Nat]
      BY <1>1, <1>4, <2>1, Counted
    <3> QED
      BY <2>1, <3>1, <3>2, <3>3 DEF TypeOK
  <2>3. ASSUME NEW c \in Clients
        PROVE  Past(c)'
    <3>1. /\ count'[c] = Used(c) /\ admitted'[c] = admitted[c]
          /\ started'[c] = IF Used(c) = 0 THEN 0 ELSE started[c]
      BY <2>1
    <3> QED
      BY <1>1, <2>1, <3>1, SweptKeeps
  <2> QED
    BY <2>2, <2>3
<1>9. ASSUME UNCHANGED <<now, buckets, preflights, admitted, refused>>,
             open' \in Nat,
             NEW s \in Statuses \ {500}, Record(s), Send(s)
      PROVE  TypeOK' /\ CountersAgree' /\ \A k \in Clients : Past(k)'
  <2>1. /\ CountersAgree'
        /\ stats' \in [total : Nat, errors : Nat]
        /\ prom' \in [total : Nat, errors : Nat, status : [Statuses -> Nat]]
        /\ sent' \in [Statuses -> Nat]
    BY <1>1, <1>9, Counted
  <2>2. refused' \in Clients \cup {Nobody} /\ preflights' \in Nat
    BY <1>1, <1>9 DEF TypeOK
  <2> QED
    BY <1>5, <1>9, <2>1, <2>2 DEF TypeOK
<1>10. CASE Refuse
  <2>1. PICK s \in Refusals \ {429} : Record(s) /\ Send(s)
    BY <1>10 DEF Refuse
  <2>2. UNCHANGED <<now, buckets, preflights, admitted, refused>> /\ open' \in Nat
    BY <1>1, <1>10 DEF Refuse, TypeOK
  <2> QED
    BY <1>4, <1>9, <2>1, <2>2
<1>11. CASE Leave
  <2>1. PICK s \in Answers : Record(s) /\ Send(s)
    BY <1>11 DEF Leave
  <2>2. UNCHANGED <<now, buckets, preflights, admitted, refused>> /\ open' \in Nat
    BY <1>1, <1>11 DEF Leave, TypeOK
  <2> QED
    BY <1>4, <1>9, <2>1, <2>2
<1>12. CASE Raise \/ AuthorizedRaises \/ Preflight
  <2>1. /\ UNCHANGED <<now, buckets, admitted, refused, counters>>
        /\ open' \in Nat
    BY <1>1, <1>12 DEF Raise, AuthorizedRaises, Preflight, TypeOK
  <2>2. PICK s \in {200, 400, 500} :
           Send(s) /\ preflights' = preflights + IF s = 500 THEN 0 ELSE 1
    <3>1. CASE Raise \/ AuthorizedRaises
      <4>1. Send(500) /\ preflights' = preflights + 0
        BY <1>1, <3>1 DEF Raise, AuthorizedRaises, TypeOK
      <4> QED
        BY <4>1
    <3>2. CASE Preflight
      <4>1. PICK s \in Preflights : Send(s)
        BY <3>2 DEF Preflight
      <4>2. preflights' = preflights + 1 /\ s \in {200, 400, 500} /\ s # 500
        BY <3>2, <4>1 DEF Preflight, Preflights
      <4> QED
        BY <4>1, <4>2
    <3> QED
      BY <1>12, <3>1, <3>2
  <2>3. CountersAgree' /\ sent' \in [Statuses -> Nat] /\ preflights' \in Nat
    BY <1>1, <2>1, <2>2, Uncounted
  <2>4. /\ stats' \in [total : Nat, errors : Nat]
        /\ prom' \in [total : Nat, errors : Nat, status : [Statuses -> Nat]]
        /\ refused' \in Clients \cup {Nobody}
    BY <1>1, <2>1 DEF TypeOK, counters
  <2> QED
    BY <1>5, <2>1, <2>3, <2>4 DEF TypeOK
<1>13. CASE Tick
  <2>1. /\ now' = now + 1 /\ now < MaxTime
        /\ UNCHANGED <<started, count, open, counters, sent, preflights,
                       admitted, refused>>
    BY <1>13 DEF Tick, buckets
  <2>2. now' \in 0..MaxTime /\ started' \in [Clients -> 0..now']
    <3>1. now \in 0..MaxTime /\ started \in [Clients -> 0..now] /\ MaxTime \in Nat
      BY <1>1, GateAssumption DEF TypeOK
    <3>2. 0..now \subseteq 0..(now + 1)
      BY <3>1
    <3> QED
      BY <2>1, <3>1, <3>2
  <2>3. TypeOK' /\ CountersAgree'
    BY <1>1, <1>6, <2>1, <2>2 DEF TypeOK
  <2> QED
    BY <1>1, <1>13, <2>3, TickKeeps
<1>14. CASE UNCHANGED vars
  <2>1. /\ UNCHANGED <<now, buckets, admitted>>
        /\ UNCHANGED <<counters, sent, preflights>>
        /\ open' = open /\ refused' = refused
    BY <1>14 DEF vars
  <2> QED
    BY <1>1, <1>5, <1>6, <2>1 DEF TypeOK
<1> QED
  BY <1>7, <1>8, <1>10, <1>11, <1>12, <1>13, <1>14 DEF Next

(* The gate counts: in no span of a window's length are two full windows'  *)
(* worth of one client let through, a bucket is exact, and the two sets of *)
(* counters agree with each other and with what was answered, preflights   *)
(* and all 500s aside, which they miss (check_rate_limit and the end of    *)
(* dispatch).                                                              *)
THEOREM GateCounts == Spec => [](TypeOK /\ SlidingLimit /\ CountersAgree)
<1>1. GateInv => TypeOK /\ SlidingLimit /\ CountersAgree
  BY DEF GateInv, GateHistory, BucketTrue, Spans, SlidingLimit
<1> QED
  BY <1>1, GateInit, GateStep, PTL DEF Spec

(* Who is refused had a full window's worth in the seconds of one window:  *)
(* the bucket it is refused by is live, full, and exact.                   *)
LEMMA RefusedWereFull ==
  ASSUME GateInv, [Next]_vars
  PROVE  [\A k \in Clients : refused' = k /\ sent'[429] # sent[429] =>
             Between(k, now - Window + 1, now) >= MaxPerWindow]_vars
<1> SUFFICES ASSUME NEW k \in Clients, refused' = k, sent'[429] # sent[429]
             PROVE  Between(k, (now - Window) + 1, now) >= MaxPerWindow
  OBVIOUS
<1>1. TypeOK /\ Past(k)
  BY DEF GateInv, GateHistory, Past
<1>2. sent \in [Statuses -> Nat]
  BY <1>1 DEF TypeOK
<1>3. TooMany(k)
  <2>1. \A s : s # 429 => ~ Send(s)
    BY <1>2 DEF Send, Statuses, Refusals
  <2>2. \A c : ~ Enter(c)
    BY DEF Enter
  <2>3. /\ ~ Refuse /\ ~ Leave /\ ~ Raise /\ ~ AuthorizedRaises
        /\ ~ Preflight /\ ~ Tick /\ ~ UNCHANGED vars
    BY <2>1 DEF Refuse, Leave, Raise, AuthorizedRaises, Preflight, Tick, vars,
                Answers, Preflights
  <2>4. PICK c \in Clients : TooMany(c)
    BY <2>2, <2>3 DEF Next
  <2> QED
    BY <2>4 DEF TooMany, Limit
<1>4. Used(k) >= MaxPerWindow /\ MaxPerWindow >= 1
  BY <1>3, GateAssumption DEF TooMany, Limit
<1>5. Used(k) = count[k] /\ count[k] > 0 /\ now < started[k] + Window
  <2>1. Used(k) # 0
    BY <1>4, GateAssumption
  <2> QED
    BY <1>1, <2>1, UsedIsLive
<1> DEFINE A == admitted[k]
           s == started[k]
<1>6. count[k] = A[now] - A[s - 1]
  BY <1>1, <1>5 DEF Past, BucketTrue, Between
<1>7. A[now - Window] <= A[s - 1]
  BY <1>1, <1>5, SecondsThere, GateAssumption DEF Past, Cumulative
<1>8. /\ A[now] \in Nat /\ A[s - 1] \in Nat /\ A[now - Window] \in Nat
      /\ now - Window \in Int
  BY <1>1, SecondsThere
<1>9. Between(k, (now - Window) + 1, now) = A[now] - A[now - Window]
  BY <1>8, AfterSecond
<1> HIDE DEF A, s
<1> QED
  BY <1>4, <1>5, <1>6, <1>7, <1>8, <1>9, GateAssumption

(* Nobody is refused by the rate limit without cause: check_rate_limit.    *)
THEOREM RefusalsHold == Spec => RefusalJustified
BY GateInit, GateStep, RefusedWereFull, PTL DEF Spec, RefusalJustified
-----------------------------------------------------------------------------
(* The lists: the place of a row, and what a page may hold.                *)

(* A row ranks below those after it, and within the table.                 *)
LEMMA RankOrder ==
  ASSUME NEW S \in SUBSET Nat, IsFiniteSet(S), NEW x \in S
  PROVE  /\ Rank(x, S) \in Nat
         /\ Rank(x, S) < Cardinality(S)
         /\ \A y \in S : x < y => Rank(y, S) < Rank(x, S)
<1> DEFINE Before(y) == {z \in S : z > y}
<1>1. \A y : IsFiniteSet(Before(y)) /\ Cardinality(Before(y)) \in Nat
  BY FS_Subset, FS_CardinalityType
<1>2. ASSUME NEW y \in S, NEW T \in SUBSET S, Before(y) \subseteq T, y \in T
      PROVE  Cardinality(Before(y)) < Cardinality(T)
  <2>1. y \notin Before(y)
    BY <1>2
  <2>2. Cardinality(Before(y) \cup {y}) = Cardinality(Before(y)) + 1
    BY <1>1, <2>1, FS_AddElement
  <2>3. IsFiniteSet(T) /\ Cardinality(T) \in Nat
    BY FS_Subset, FS_CardinalityType
  <2>4. (Before(y) \cup {y}) \in SUBSET T
    BY <1>2
  <2>5. Cardinality(Before(y) \cup {y}) <= Cardinality(T)
    BY <2>3, <2>4, FS_Subset
  <2> QED
    BY <1>1, <2>2, <2>3, <2>5
<1>3. Cardinality(Before(x)) < Cardinality(S)
  <2>1. Before(x) \subseteq S
    OBVIOUS
  <2> HIDE DEF Before
  <2> QED
    BY <1>2, <2>1
<1>4. ASSUME NEW y \in S, x < y
      PROVE  Cardinality(Before(y)) < Cardinality(Before(x))
  <2>1. Before(x) \subseteq S /\ y \in Before(x)
    BY <1>4
  <2>2. Before(y) \subseteq Before(x)
    <3> SUFFICES ASSUME NEW z \in S, z > y
                 PROVE  z > x
      OBVIOUS
    <3>1. x \in Nat /\ y \in Nat /\ z \in Nat
      OBVIOUS
    <3> QED
      BY <1>4, <3>1
  <2> HIDE DEF Before
  <2> QED
    BY <1>2, <2>1, <2>2
<1> QED
  BY <1>1, <1>3, <1>4 DEF Rank

(* More rows never bring a row to an earlier place. *)
LEMMA RankGrows ==
  ASSUME NEW S, NEW T, S \subseteq T, IsFiniteSet(T), NEW x
  PROVE  Rank(x, S) \in Nat /\ Rank(x, T) \in Nat /\ Rank(x, S) <= Rank(x, T)
<1> DEFINE s == {y \in S : y > x}
           t == {y \in T : y > x}
<1>1. s \in SUBSET t /\ t \in SUBSET T
  OBVIOUS
<1> HIDE DEF s, t
<1>2. IsFiniteSet(t) /\ IsFiniteSet(s)
  BY <1>1, FS_Subset
<1>3. Cardinality(s) \in Nat /\ Cardinality(t) \in Nat /\ Cardinality(s) <= Cardinality(t)
  BY <1>1, <1>2, FS_Subset, FS_CardinalityType
<1> QED
  BY <1>3 DEF Rank, s, t

(* A page holds no more than was asked for, and nothing beyond the table.  *)
LEMMA PageBound ==
  ASSUME NEW S \in SUBSET Nat, IsFiniteSet(S), NEW o \in Nat
  PROVE  LET P == PageOf(S, o)
         IN  /\ P \subseteq S
             /\ Cardinality(P) \in Nat
             /\ Cardinality(P) <= PageSize
             /\ P # {} => o + Cardinality(P) <= Cardinality(S)
<1> DEFINE P == PageOf(S, o)
           n == Cardinality(S)
<1>1. P \in SUBSET S /\ PageSize \in Nat /\ n \in Nat
  BY FS_CardinalityType, ListingAssumption DEF PageOf
<1>2. \A x \in P : /\ Rank(x, S) \in Nat /\ Rank(x, S) < n
                   /\ o <= Rank(x, S) /\ Rank(x, S) < o + PageSize
  BY RankOrder DEF PageOf
<1>3. \A x, y \in P : Rank(x, S) = Rank(y, S) => x = y
  <2> SUFFICES ASSUME NEW x \in P, NEW y \in P, Rank(x, S) = Rank(y, S), x # y
               PROVE  FALSE
    OBVIOUS
  <2> HIDE DEF P
  <2>1. x \in S /\ y \in S /\ (x < y \/ y < x)
    BY <1>1
  <2>2. Rank(x, S) < Rank(y, S) \/ Rank(y, S) < Rank(x, S)
    BY <2>1, RankOrder
  <2>3. Rank(x, S) \in Nat /\ Rank(y, S) \in Nat
    BY <1>2
  <2> QED
    BY <2>2, <2>3
<1>4. ASSUME NEW b \in Int, \A x \in P : Rank(x, S) <= b
      PROVE  /\ IsFiniteSet(P)
             /\ Cardinality(P) <= IF o > b THEN 0 ELSE b - o + 1
  <2> DEFINE f == [x \in P |-> Rank(x, S)]
  <2>1. f \in [P -> o..b]
    BY <1>2, <1>4
  <2>2. f \in Injection(P, o..b)
    <3>1. \A x, y \in P : f[x] = f[y] => x = y
      BY <1>3
    <3> HIDE DEF f, P
    <3> QED
      BY <2>1, <3>1, Fun_IsInj
  <2>3. IsFiniteSet(o..b) /\ Cardinality(o..b) = IF o > b THEN 0 ELSE b - o + 1
    BY FS_Interval
  <2> HIDE DEF f, P
  <2> QED
    BY <2>2, <2>3, FS_Injection
<1> HIDE DEF P, n
<1>5. Cardinality(P) \in Nat
  BY <1>1, FS_Subset, FS_CardinalityType
<1>6. Cardinality(P) <= PageSize
  <2>1. (o + PageSize) - 1 \in Int /\ \A x \in P : Rank(x, S) <= (o + PageSize) - 1
    BY <1>1, <1>2
  <2>2. Cardinality(P) <= IF o > (o + PageSize) - 1 THEN 0
                          ELSE ((o + PageSize) - 1) - o + 1
    BY <1>4, <2>1
  <2> QED
    BY <1>1, <1>5, <2>2
<1>7. ASSUME P # {}
      PROVE  o + Cardinality(P) <= n
  <2>1. n - 1 \in Int /\ \A x \in P : Rank(x, S) <= n - 1
    BY <1>1, <1>2
  <2>2. Cardinality(P) <= IF o > n - 1 THEN 0 ELSE (n - 1) - o + 1
    BY <1>4, <2>1
  <2>3. o <= n - 1
    <3>1. PICK x \in P : TRUE
      BY <1>7
    <3> QED
      BY <1>1, <1>2, <3>1
  <2>4. Cardinality(P) <= (n - 1) - o + 1
    BY <1>1, <1>5, <2>2, <2>3
  <2> QED
    BY <1>1, <1>5, <2>4
<1> QED
  BY <1>1, <1>5, <1>6, <1>7 DEF P, n
(* What the walk of a reader rests on, as long as no row left its filter.  *)
(* The rows that it should see and has not seen lie at or beyond its next  *)
(* offset, wherever the inserts have pushed them by now.                   *)
Ahead(S, V, o) == \A x \in S : o <= Rank(x, V)

Walk(r) ==
    /\ base[r] \subseteq View(r)
    /\ phase[r] = "list" => Ahead(base[r] \ seen[r], View(r), offset[r])
    /\ phase[r] = "count" =>
          /\ Ahead(base[r] \ (seen[r] \cup page[r]), View(r), offset[r] + PageSize)
          /\ page[r] # {} =>
                offset[r] + Cardinality(page[r]) <= Cardinality(View(r))
    /\ phase[r] = "answered" =>
          /\ Ahead(base[r] \ seen[r], View(r), offset[r] + PageSize)
          /\ base[r] \ seen[r] # {} => offset[r] + PageSize < total[r]
          /\ page[r] # {} => offset[r] + Cardinality(page[r]) <= total[r]
    /\ phase[r] = "through" => base[r] \subseteq seen[r]

Fresh(r) == phase[r] = "start" => offset[r] = 0 /\ ~filtered[r]

ListInv ==
    /\ ListTypeOK
    /\ \A r \in Readers : Fresh(r)
    /\ \A r \in Readers \ shrunk : Walk(r)

LEMMA AheadGrows ==
  ASSUME NEW S, NEW V, NEW W, V \subseteq W, IsFiniteSet(W), NEW o \in Nat,
         Ahead(S, V, o)
  PROVE  Ahead(S, W, o)
BY RankGrows DEF Ahead

(* Every view of the table is a finite set of naturals.                    *)
LEMMA ViewFinite ==
  ASSUME ListTypeOK, NEW r
  PROVE  /\ View(r) \in SUBSET Rows /\ View(r) \in SUBSET Nat
         /\ IsFiniteSet(View(r)) /\ Cardinality(View(r)) \in Nat
<1>1. View(r) \in SUBSET Rows
  BY DEF ListTypeOK, View
<1>2. Rows \subseteq Nat /\ IsFiniteSet(Rows)
  BY ListingAssumption
<1>3. IsFiniteSet(View(r))
  BY <1>1, <1>2, FS_Subset
<1> QED
  BY <1>1, <1>2, <1>3, FS_CardinalityType

(* Inserts and updates keep the walk of a reader that loses no row.        *)
LEMMA GrowthKeepsWalk ==
  ASSUME ListTypeOK, ListTypeOK', NEW r \in Readers, Walk(r), UNCHANGED reader,
         View(r) \subseteq View(r)'
  PROVE  Walk(r)'
<1>1. /\ IsFiniteSet(View(r)) /\ Cardinality(View(r)) \in Nat
  BY ViewFinite
<1>2. /\ View(r)' \in SUBSET Rows /\ IsFiniteSet(Rows)
  BY ListingAssumption DEF ListTypeOK, View
<1>3. IsFiniteSet(View(r)')
  BY <1>2, FS_Subset
<1>4. Cardinality(View(r)') \in Nat /\ Cardinality(View(r)) <= Cardinality(View(r)')
  BY <1>3, FS_Subset, FS_CardinalityType
<1>5. /\ phase' = phase /\ offset' = offset /\ page' = page /\ total' = total
      /\ seen' = seen /\ base' = base
  BY DEF reader
<1>6. /\ offset[r] \in Nat /\ offset[r] + PageSize \in Nat
      /\ Cardinality(page[r]) \in Nat
  <2>1. page[r] \in SUBSET Rows /\ offset[r] \in Nat
    BY DEF ListTypeOK
  <2> QED
    BY <2>1, ListingAssumption, FS_Subset, FS_CardinalityType
<1>7. base[r] \subseteq View(r)'
  BY DEF Walk
<1>8. phase[r] = "list" => Ahead(base[r] \ seen[r], View(r)', offset[r])
  BY <1>3, <1>6, AheadGrows DEF Walk
<1>9. phase[r] = "count" =>
         /\ Ahead(base[r] \ (seen[r] \cup page[r]), View(r)', offset[r] + PageSize)
         /\ page[r] # {} =>
               offset[r] + Cardinality(page[r]) <= Cardinality(View(r)')
  <2> SUFFICES ASSUME phase[r] = "count"
               PROVE  /\ Ahead(base[r] \ (seen[r] \cup page[r]), View(r)',
                               offset[r] + PageSize)
                      /\ page[r] # {} =>
                            offset[r] + Cardinality(page[r]) <= Cardinality(View(r)')
    OBVIOUS
  <2>1. Ahead(base[r] \ (seen[r] \cup page[r]), View(r)', offset[r] + PageSize)
    BY <1>3, <1>6, AheadGrows DEF Walk
  <2>2. page[r] # {} => offset[r] + Cardinality(page[r]) <= Cardinality(View(r))
    BY DEF Walk
  <2> QED
    BY <1>1, <1>4, <1>6, <2>1, <2>2
<1>10. phase[r] = "answered" =>
          Ahead(base[r] \ seen[r], View(r)', offset[r] + PageSize)
  BY <1>3, <1>6, AheadGrows DEF Walk
<1>11. /\ phase[r] = "answered" =>
             /\ base[r] \ seen[r] # {} => offset[r] + PageSize < total[r]
             /\ page[r] # {} => offset[r] + Cardinality(page[r]) <= total[r]
       /\ phase[r] = "through" => base[r] \subseteq seen[r]
  BY DEF Walk
<1> QED
  BY <1>5, <1>7, <1>8, <1>9, <1>10, <1>11 DEF Walk

(* What one reader does leaves the others' walks alone.                    *)
LEMMA OthersKeepWalk ==
  ASSUME NEW r, NEW q, q # r, UNCHANGED <<table, matching>>,
         phase'[q] = phase[q], filtered'[q] = filtered[q], offset'[q] = offset[q],
         page'[q] = page[q], total'[q] = total[q], seen'[q] = seen[q],
         base'[q] = base[q]
  PROVE  (Walk(q) => Walk(q)') /\ (Fresh(q) => Fresh(q)')
<1>1. View(q)' = View(q)
  BY DEF View
<1> QED
  BY <1>1 DEF Walk, Fresh
LEMMA ListInitially == ListInit => ListInv
<1> SUFFICES ASSUME ListInit PROVE ListInv
  OBVIOUS
<1>1. ListTypeOK
  BY FS_EmptySet, ListingAssumption DEF ListInit, ListTypeOK
<1> QED
  BY <1>1 DEF ListInit, ListInv, Fresh, Walk, View

(* A walk begins: every row it should see lies at or beyond offset 0.      *)
LEMMA BeginKeeps ==
  ASSUME ListTypeOK, NEW r \in Readers, Fresh(r), Begin(r)
  PROVE  Walk(r)' /\ Fresh(r)'
<1>1. PICK f \in BOOLEAN :
         /\ filtered' = [filtered EXCEPT ![r] = f]
         /\ base' = [base EXCEPT ![r] = IF f THEN matching ELSE table]
  BY DEF Begin
<1>2. /\ phase[r] = "start" /\ phase'[r] = "list" /\ offset'[r] = 0
      /\ filtered'[r] = f /\ base'[r] = IF f THEN matching ELSE table
      /\ table' = table /\ matching' = matching
  BY <1>1 DEF Begin, ListTypeOK, Fresh
<1>3. base'[r] = View(r)'
  BY <1>2 DEF View
<1>4. /\ View(r)' \in SUBSET Rows /\ IsFiniteSet(Rows)
  BY <1>2, ListingAssumption DEF ListTypeOK, View
<1>5. IsFiniteSet(View(r)')
  BY <1>4, FS_Subset
<1>6. Ahead(base'[r] \ seen'[r], View(r)', 0)
  BY <1>5, RankGrows DEF Ahead
<1> QED
  BY <1>2, <1>3, <1>6 DEF Walk, Fresh

(* The page is read: whoever of the rows ahead is not on it lies beyond.   *)
LEMMA ListKeeps ==
  ASSUME ListTypeOK, NEW r \in Readers, List(r)
  PROVE  /\ Walk(r) => Walk(r)'
         /\ Fresh(r)'
         /\ page'[r] \in SUBSET Rows /\ Cardinality(page'[r]) <= PageSize
<1> DEFINE V == View(r)
           o == offset[r]
<1>1. /\ phase[r] = "list" /\ phase'[r] = "count" /\ offset'[r] = o
      /\ page'[r] = PageOf(V, o) /\ View(r)' = V
      /\ base'[r] = base[r] /\ seen'[r] = seen[r]
  BY DEF List, ListTypeOK, View
<1>2. /\ V \in SUBSET Rows /\ V \in SUBSET Nat /\ IsFiniteSet(V)
      /\ o \in Nat /\ PageSize \in Nat
  BY ViewFinite, ListingAssumption DEF ListTypeOK
<1>3. /\ page'[r] \subseteq V /\ Cardinality(page'[r]) <= PageSize
      /\ page'[r] # {} => o + Cardinality(page'[r]) <= Cardinality(V)
  BY <1>1, <1>2, PageBound
<1>4. ASSUME Walk(r)
      PROVE  Ahead(base[r] \ (seen[r] \cup page'[r]), V, o + PageSize)
  <2> SUFFICES ASSUME NEW x \in base[r] \ (seen[r] \cup page'[r])
               PROVE  o + PageSize <= Rank(x, V)
    BY DEF Ahead
  <2>1. base[r] \subseteq V /\ Ahead(base[r] \ seen[r], V, o)
    BY <1>1, <1>4 DEF Walk
  <2>2. x \in V /\ o <= Rank(x, V) /\ x \notin PageOf(V, o)
    BY <1>1, <2>1 DEF Ahead
  <2>3. ~ (Rank(x, V) < o + PageSize)
    BY <2>2 DEF PageOf
  <2>4. Rank(x, V) \in Nat
    BY <1>2, RankGrows
  <2> HIDE DEF V, o
  <2> QED
    BY <1>2, <2>3, <2>4
<1>5. Walk(r) => base[r] \subseteq V
  BY DEF Walk
<1> HIDE DEF V, o
<1>6. Walk(r) => Walk(r)'
  BY <1>1, <1>3, <1>4, <1>5 DEF Walk
<1>7. Fresh(r)'
  BY <1>1 DEF Fresh
<1> QED
  BY <1>2, <1>3, <1>6, <1>7

(* The total is read: a row beyond the page is counted, so there is a next *)
(* page as long as there is a row to see.                                  *)
LEMMA CountKeeps ==
  ASSUME ListTypeOK, NEW r \in Readers, CountRows(r)
  PROVE  (Walk(r) => Walk(r)') /\ Fresh(r)'
<1> DEFINE V == View(r)
           o == offset[r]
<1>1. /\ phase[r] = "count" /\ phase'[r] = "answered" /\ offset'[r] = o
      /\ page'[r] = page[r] /\ View(r)' = V /\ total'[r] = Cardinality(V)
      /\ base'[r] = base[r] /\ seen'[r] = seen[r] \cup page[r]
  BY DEF CountRows, ListTypeOK, View
<1>2. /\ V \in SUBSET Nat /\ IsFiniteSet(V) /\ Cardinality(V) \in Nat
      /\ o \in Nat /\ PageSize \in Nat
  BY ViewFinite, ListingAssumption DEF ListTypeOK
<1>3. Fresh(r)'
  BY <1>1 DEF Fresh
<1>4. ASSUME Walk(r)
      PROVE  Walk(r)'
  <2>1. /\ base[r] \subseteq V
        /\ Ahead(base[r] \ (seen[r] \cup page[r]), V, o + PageSize)
        /\ page[r] # {} => o + Cardinality(page[r]) <= Cardinality(V)
    BY <1>1, <1>4 DEF Walk
  <2>2. ASSUME NEW x \in base[r] \ (seen[r] \cup page[r])
        PROVE  o + PageSize < Cardinality(V)
    <3>1. Rank(x, V) \in Nat /\ Rank(x, V) < Cardinality(V)
      BY <1>2, <2>1, RankOrder
    <3>2. o + PageSize <= Rank(x, V)
      BY <2>1 DEF Ahead
    <3> HIDE DEF V, o
    <3> QED
      BY <1>2, <3>1, <3>2
  <2> HIDE DEF V, o
  <2> QED
    BY <1>1, <2>1, <2>2 DEF Walk
<1> QED
  BY <1>3, <1>4

(* The client only stops once no row is ahead of it.                       *)
LEMMA TurnKeeps ==
  ASSUME ListTypeOK, NEW r \in Readers, Turn(r)
  PROVE  (Walk(r) => Walk(r)') /\ Fresh(r)' /\ offset' \in [Readers -> Nat]
<1>1. /\ phase[r] = "answered" /\ View(r)' = View(r)
      /\ base'[r] = base[r] /\ seen'[r] = seen[r]
  BY DEF Turn, View
<1>2. /\ offset \in [Readers -> Nat] /\ phase \in [Readers -> {"start", "list", "count",
                                                             "answered", "through"}]
      /\ PageSize \in Nat /\ total[r] \in Nat
  BY ListingAssumption DEF ListTypeOK
<1>3. CASE /\ offset[r] + PageSize < total[r]
           /\ offset' = [offset EXCEPT ![r] = @ + PageSize]
           /\ phase' = [phase EXCEPT ![r] = "list"]
  <2>1. phase'[r] = "list" /\ offset'[r] = offset[r] + PageSize
    BY <1>2, <1>3
  <2>2. offset' \in [Readers -> Nat]
    BY <1>2, <1>3
  <2> QED
    BY <1>1, <2>1, <2>2 DEF Walk, Fresh
<1>4. CASE /\ offset[r] + PageSize >= total[r]
           /\ phase' = [phase EXCEPT ![r] = "through"]
           /\ offset' = offset
  <2>1. phase'[r] = "through"
    BY <1>2, <1>4
  <2>2. Walk(r) => base[r] \ seen[r] = {}
    <3>1. ~ (offset[r] + PageSize < total[r])
      BY <1>2, <1>4
    <3> QED
      BY <1>1, <3>1 DEF Walk
  <2> QED
    BY <1>1, <1>2, <1>4, <2>1, <2>2 DEF Walk, Fresh
<1> QED
  BY <1>3, <1>4 DEF Turn

LEMMA ListTyped == ASSUME ListInv, [ListNext]_lists PROVE ListTypeOK'
<1>1. ListTypeOK /\ IsFiniteSet(Rows)
  BY ListingAssumption DEF ListInv
<1>2. CASE Insert \/ Update
  BY <1>1, <1>2 DEF Insert, Update, reader, ListTypeOK
<1>3. ASSUME NEW r \in Readers, Begin(r)
      PROVE  ListTypeOK'
  BY <1>1, <1>3 DEF Begin, ListTypeOK
<1>4. ASSUME NEW r \in Readers, List(r)
      PROVE  ListTypeOK'
  <2>1. page'[r] \in SUBSET Rows /\ Cardinality(page'[r]) <= PageSize
    BY <1>1, <1>4, ListKeeps
  <2>2. page' = [page EXCEPT ![r] = page'[r]]
    BY <1>4 DEF List
  <2>3. page' \in [Readers -> SUBSET Rows]
        /\ \A q \in Readers : Cardinality(page'[q]) <= PageSize
    BY <1>1, <2>1, <2>2 DEF ListTypeOK
  <2> QED
    BY <1>1, <1>4, <2>3 DEF List, ListTypeOK
<1>5. ASSUME NEW r \in Readers, CountRows(r)
      PROVE  ListTypeOK'
  <2>1. Cardinality(View(r)) \in Nat /\ page[r] \in SUBSET Rows
    BY <1>1, ViewFinite DEF ListTypeOK
  <2> QED
    BY <1>1, <1>5, <2>1 DEF CountRows, ListTypeOK
<1>6. ASSUME NEW r \in Readers, Turn(r)
      PROVE  ListTypeOK'
  <2>1. offset' \in [Readers -> Nat]
    BY <1>1, <1>6, TurnKeeps
  <2> QED
    BY <1>1, <1>6, <2>1 DEF Turn, ListTypeOK
<1>7. CASE UNCHANGED lists
  BY <1>1, <1>7 DEF lists, reader, ListTypeOK
<1> QED
  BY <1>2, <1>3, <1>4, <1>5, <1>6, <1>7 DEF ListNext

LEMMA ListStep == ListInv /\ [ListNext]_lists => ListInv'
<1> SUFFICES ASSUME ListInv, [ListNext]_lists
             PROVE  /\ \A r \in Readers : Fresh(r)'
                    /\ \A r \in Readers \ shrunk' : Walk(r)'
  BY ListTyped DEF ListInv
<1>1. /\ ListTypeOK /\ ListTypeOK'
      /\ \A r \in Readers : Fresh(r)
      /\ \A r \in Readers \ shrunk : Walk(r)
  BY ListTyped DEF ListInv
<1>2. CASE Insert \/ Update \/ UNCHANGED lists
  <2>1. UNCHANGED reader /\ shrunk \subseteq shrunk'
    BY <1>2 DEF Insert, Update, lists
  <2>2. ASSUME NEW r \in Readers \ shrunk'
        PROVE  View(r) \subseteq View(r)'
    BY <1>2, <2>1 DEF Insert, Update, lists, reader, View
  <2>3. \A r \in Readers : Fresh(r)'
    BY <1>1, <2>1 DEF Fresh, reader
  <2> QED
    BY <1>1, <2>1, <2>2, <2>3, GrowthKeepsWalk
<1>3. ASSUME NEW r \in Readers, Begin(r) \/ List(r) \/ CountRows(r) \/ Turn(r)
      PROVE  /\ \A q \in Readers : Fresh(q)'
             /\ \A q \in Readers \ shrunk' : Walk(q)'
  <2>1. shrunk' = shrunk /\ UNCHANGED <<table, matching>>
    BY <1>3 DEF Begin, List, CountRows, Turn
  <2>2. ASSUME NEW q \in Readers, q # r
        PROVE  /\ phase'[q] = phase[q] /\ filtered'[q] = filtered[q]
               /\ offset'[q] = offset[q] /\ page'[q] = page[q]
               /\ total'[q] = total[q] /\ seen'[q] = seen[q] /\ base'[q] = base[q]
    BY <1>1, <1>3, <2>2 DEF Begin, List, CountRows, Turn, ListTypeOK
  <2>3. \A q \in Readers : q # r => (Walk(q) => Walk(q)') /\ Fresh(q)'
    BY <1>1, <2>1, <2>2, OthersKeepWalk
  <2>4. Fresh(r)' /\ (r \notin shrunk => Walk(r)')
    BY <1>1, <1>3, BeginKeeps, ListKeeps, CountKeeps, TurnKeeps
  <2> QED
    BY <1>1, <2>1, <2>3, <2>4
<1> QED
  BY <1>2, <1>3 DEF ListNext

(* The lists add up, for every table, page size and set of readers: no     *)
(* page is longer than asked for, none holds a row beyond its own total,   *)
(* and a walk misses no row that was there when it began (list_... and     *)
(* count_... of the repositories).                                         *)
THEOREM ListsHold == ListSpec => [](ListTypeOK /\ PageWithinTotal /\ WalkSeesAll)
<1>1. ListInv => ListTypeOK /\ PageWithinTotal /\ WalkSeesAll
  BY DEF ListInv, Walk, PageWithinTotal, WalkSeesAll
<1> QED
  BY <1>1, ListInitially, ListStep, PTL DEF ListSpec
=============================================================================

----------------------------- MODULE RequestGate -----------------------------
(***************************************************************************)
(* What SecurityMiddleware.dispatch (app/core/middleware.py) does to every *)
(* request of one process before and after its handler: authentication,    *)
(* the body limit, the rate limit of check_rate_limit (core/security.py),  *)
(* and the counters that /api/ops/metrics and /metrics report.  dispatch   *)
(* awaits nothing but the handler, so a refused request is one step and a  *)
(* served one two.  Two kinds of request get an answer that dispatch never *)
(* comes to count: CORSMiddleware, which main.py adds last and so outside, *)
(* answers preflights itself, and what is raised in dispatch is answered   *)
(* by the server.                                                          *)
(*                                                                         *)
(* Latencies and response headers are left out.  The clock is the integer  *)
(* second that check_rate_limit reads.                                     *)
(***************************************************************************)
EXTENDS Integers

CONSTANTS
    Clients,      \* bucket keys, "host:path"
    Window,       \* RATE_WINDOW_SECONDS
    MaxPerWindow, \* RATE_MAX_REQUESTS
    MaxTime,      \* bound on the clock
    MaxRequests   \* bound on the number of requests

ASSUME GateAssumption ==
    /\ Window \in Nat \ {0}
    /\ MaxPerWindow \in Nat \ {0}
    /\ MaxTime \in Nat
    /\ MaxRequests \in Nat

(* What dispatch answers by itself, what handlers return, what preflights  *)
(* are answered, and what the server answers for an exception: no handler  *)
(* returns a 5xx.                                                          *)
Refusals   == {400, 401, 413, 429}
Answers    == {200, 409}
Preflights == {200, 400}
Statuses   == Refusals \cup Answers \cup Preflights \cup {500}

VARIABLES
    now,        \* the clock
    started,    \* the second each bucket was opened in
    count,      \* the requests each bucket has let through, 0: no bucket
    open,       \* requests inside their handlers
    stats,      \* REQUEST_STATS: total and errors
    prom,       \* _prom_stats: total, errors and the count of each status
    sent,       \* history: responses by status, those no counter saw included
    preflights, \* history: preflights answered
    admitted,   \* history: requests let through up to a second, by client
    refused     \* history: who was last refused by the rate limit

buckets  == <<started, count>>
counters == <<stats, prom>>
vars     == <<now, buckets, open, counters, sent, preflights, admitted, refused>>

Nobody == "nobody"

(* The seconds of the run, and a window's worth before and after.          *)
Seconds == (-Window)..(MaxTime + Window)

Init ==
    /\ now = 0
    /\ started = [k \in Clients |-> 0]
    /\ count = [k \in Clients |-> 0]
    /\ open = 0
    /\ stats = [total |-> 0, errors |-> 0]
    /\ prom = [total |-> 0, errors |-> 0, status |-> [s \in Statuses |-> 0]]
    /\ sent = [s \in Statuses |-> 0]
    /\ preflights = 0
    /\ admitted = [k \in Clients |-> [t \in Seconds |-> 0]]
    /\ refused = Nobody

(* The sum of a count of each status.                                      *)
Sum(f) == f[200] + f[400] + f[401] + f[409] + f[413] + f[429] + f[500]

Begun == open + Sum(sent)

IsError(s) == s >= 500

(* The two sets of counters, brought up to date with a response.           *)
Record(s) ==
    /\ stats' = [total  |-> stats.total + 1,
                 errors |-> stats.errors + IF IsError(s) THEN 1 ELSE 0]
    /\ prom' = [total  |-> prom.total + 1,
                errors |-> prom.errors + IF IsError(s) THEN 1 ELSE 0,
                status |-> [prom.status EXCEPT ![s] = @ + 1]]

Send(s) == sent' = [sent EXCEPT ![s] = @ + 1]

-----------------------------------------------------------------------------
(* Mutant of Expired: off by one. *)
ExpiredEarly(k) == count[k] > 0 /\ now - started[k] >= Window - 1

(* The buckets that are dropped at the start of every check.               *)
Expired(k) == count[k] > 0 /\ now - started[k] >= Window

(* Mutant of Used: buckets are never dropped. *)
UsedForever(k) == count[k]

(* A client that asks now: what its bucket has let through so far.         *)
Used(k) == IF Expired(k) THEN 0 ELSE count[k]

(* One more, from now on. *)
LetThrough(k) ==
    admitted' = [admitted EXCEPT ![k] =
                    [t \in Seconds |-> IF t < now THEN @[t] ELSE @[t] + 1]]

(* Mutant of Admit: the comparison lets one more through. *)
AdmitOneMore(k) ==
    /\ Used(k) <= MaxPerWindow
    /\ count' = [count EXCEPT ![k] = Used(k) + 1]
    /\ started' = IF Used(k) = 0 THEN [started EXCEPT ![k] = now] ELSE started
    /\ LetThrough(k)
    /\ refused' = refused

(* check_rate_limit lets k through: its bucket counts one more.            *)
Admit(k) ==
    /\ Used(k) < MaxPerWindow
    /\ count' = [c \in Clients |-> IF c = k THEN Used(k) + 1 ELSE Used(c)]
    /\ started' = [c \in Clients |->
                      IF c = k /\ Used(k) = 0 THEN now
                      ELSE IF Used(c) = 0 THEN 0 ELSE started[c]]
    /\ LetThrough(k)
    /\ refused' = refused

(* It refuses k: expired buckets are dropped all the same. *)
Limit(k) ==
    /\ Used(k) >= MaxPerWindow
    /\ count' = [c \in Clients |-> Used(c)]
    /\ started' = [c \in Clients |-> IF Used(c) = 0 THEN 0 ELSE started[c]]
    /\ refused' = k
    /\ admitted' = admitted

(* dispatch passes a request on to its handler. *)
Enter(k) ==
    /\ Begun < MaxRequests
    /\ Admit(k)
    /\ open' = open + 1
    /\ UNCHANGED <<now, counters, sent, preflights>>

(* The rate limit answers 429. *)
TooMany(k) ==
    /\ Begun < MaxRequests
    /\ Limit(k)
    /\ Record(429)
    /\ Send(429)
    /\ UNCHANGED <<now, open, preflights>>

(* Mutant of Refuse: an early return, before the counters. *)
RefuseUncounted ==
    /\ Begun < MaxRequests
    /\ \E s \in Refusals \ {429} : Send(s)
    /\ UNCHANGED <<now, buckets, open, counters, preflights, admitted, refused>>

(* dispatch refuses before it comes to the rate limit. *)
Refuse ==
    /\ Begun < MaxRequests
    /\ \E s \in Refusals \ {429} : Record(s) /\ Send(s)
    /\ UNCHANGED <<now, buckets, open, preflights, admitted, refused>>

(* A handler returns a response. *)
Leave ==
    /\ open > 0
    /\ open' = open - 1
    /\ \E s \in Answers : Record(s) /\ Send(s)
    /\ UNCHANGED <<now, buckets, preflights, admitted, refused>>

(* A handler raises what no exception handler knows: call_next raises in   *)
(* dispatch, which ends there, and the server answers 500.                 *)
Raise ==
    /\ open > 0
    /\ open' = open - 1
    /\ Send(500)
    /\ UNCHANGED <<now, buckets, counters, preflights, admitted, refused>>

(* So does dispatch itself, on a token that compare_digest cannot take:    *)
(* authorized is called before the rate limit and before any handler.      *)
AuthorizedRaises ==
    /\ Begun < MaxRequests
    /\ Send(500)
    /\ UNCHANGED <<now, buckets, open, counters, preflights, admitted, refused>>

(* CORSMiddleware answers a preflight: dispatch never sees it.             *)
Preflight ==
    /\ Begun < MaxRequests
    /\ \E s \in Preflights : Send(s)
    /\ preflights' = preflights + 1
    /\ UNCHANGED <<now, buckets, open, counters, admitted, refused>>

(* Seconds pass. *)
Tick ==
    /\ now < MaxTime
    /\ now' = now + 1
    /\ UNCHANGED <<buckets, open, counters, sent, preflights, admitted, refused>>

Next ==
    \/ \E k \in Clients : Enter(k) \/ TooMany(k)
    \/ Refuse \/ Leave \/ Raise \/ AuthorizedRaises
    \/ Preflight \/ Tick

Spec == Init /\ [][Next]_vars

-----------------------------------------------------------------------------
(* Properties *)

(* Every counter and bucket has its type; no bucket is opened in the       *)
(* future or overfull.                                                     *)
TypeOK ==
    /\ now \in 0..MaxTime
    /\ started \in [Clients -> 0..now]
    /\ count \in [Clients -> 0..MaxPerWindow]
    /\ open \in Nat
    /\ stats \in [total : Nat, errors : Nat]
    /\ prom \in [total : Nat, errors : Nat, status : [Statuses -> Nat]]
    /\ sent \in [Statuses -> Nat]
    /\ preflights \in Nat
    /\ admitted \in [Clients -> [Seconds -> Nat]]
    /\ refused \in Clients \cup {Nobody}

(* Requests of k let through from second a to second b.                    *)
Between(k, a, b) == admitted[k][b] - admitted[k][a - 1]

(* A bucket is the exact count of what was let through since it opened,    *)
(* and in no span of a window's length are two full windows' worth let     *)
(* through: each window opens with a request, so the span that sees two    *)
(* windows misses the first request of one.                                *)
SlidingLimit ==
    \A k \in Clients :
        /\ count[k] > 0 => count[k] = Between(k, started[k], now)
        /\ \A t \in 0..MaxTime : Between(k, t, t + Window - 1) < 2 * MaxPerWindow

(* Nobody is refused who has not used up a full window's worth in the      *)
(* seconds of one window, and refused requests do not prolong a refusal.   *)
RefusalJustified ==
    [][\A k \in Clients : refused' = k /\ sent'[429] # sent[429] =>
          Between(k, now - Window + 1, now) >= MaxPerWindow]_vars

(* The counters of /api/ops/metrics and those of /metrics agree with each  *)
(* other and with the statuses they are broken down by, count no response  *)
(* twice and none that was not sent.  What only dispatch or a handler      *)
(* answers (401, 409, 413, 429) is never missed, whatever runs beside it.  *)
(* Missed are exactly the preflights and all 500s, so the counters of      *)
(* errors stay at 0 however many 500s are sent: they are not the "Total    *)
(* HTTP 5xx errors" that routers/metrics.py:45 calls one of them.          *)
CountersAgree ==
    /\ stats.total = prom.total
    /\ prom.total = Sum(prom.status)
    /\ \A s \in Statuses : prom.status[s] <= sent[s]
    /\ \A s \in {401, 409, 413, 429} : prom.status[s] = sent[s]
    /\ stats.total + preflights + sent[500] = Sum(sent)
    /\ prom.status[500] = 0
    /\ stats.errors = 0
    /\ prom.errors = 0
=============================================================================

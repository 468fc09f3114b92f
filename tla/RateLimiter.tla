----------------------------- MODULE RateLimiter -----------------------------
(***************************************************************************)
(* lib/vox_net/rate_limiter: a fixed window per key that opens with a      *)
(* request, and its use by DispatchHttp on the pool threads.  Allow reads  *)
(* the clock before it takes the mutex, so calls are decided in another    *)
(* order than that of their times.                                         *)
(***************************************************************************)
EXTENDS Integers, FiniteSets

CONSTANTS
  Keys,         \* client addresses, or accounts
  Callers,      \* pool threads
  MaxEvents,    \* max_events_, at least one: 0 disables the limiter
  Window,       \* window_
  MaxTime,      \* bound on the clock
  MaxCalls      \* bound on the number of requests

ASSUME LimiterAssumption ==
  /\ IsFiniteSet(Callers)
  /\ MaxEvents \in Nat \ {0} /\ Window \in Int
  /\ MaxTime \in Nat /\ MaxCalls \in Nat

VARIABLES
  now,          \* the steady clock
  call,         \* [Callers -> {} or {[key, at]}]: Allow has read the clock
  by_key,       \* [Keys -> [start, count]]
  calls,        \* number of requests so far
  admitted      \* history, [Keys -> [times -> Nat]]: how many requests were let
                \* through in the stretch of length window_ from that time on

limiter_vars == <<now, call, by_key, calls, admitted>>

LimiterInit ==
  /\ now = 0
  /\ call = [t \in Callers |-> {}]
  /\ by_key = [k \in Keys |-> [start |-> 0, count |-> 0]]
  /\ calls = 0
  /\ admitted = [k \in Keys |-> [i \in 0..MaxTime |-> 0]]

Tick ==
  /\ now < MaxTime
  /\ now' = now + 1
  /\ UNCHANGED <<call, by_key, calls, admitted>>

\* DispatchHttp of a limited route: by address, or by account.
Limited(t, k) ==
  /\ call[t] = {}
  /\ calls < MaxCalls
  /\ call' = [call EXCEPT ![t] = {[key |-> k, at |-> now]}]
  /\ calls' = calls + 1
  /\ UNCHANGED <<now, by_key, admitted>>

Opens(w, at) == w.count = 0 \/ at - w.start >= Window

Refuses(w, at) == ~ Opens(w, at) /\ w.count >= MaxEvents

\* Mutant of Counted: the events of the running window are not counted.
CountedOnce(w, at) ==
  IF Opens(w, at) THEN [start |-> at, count |-> 1] ELSE w

Counted(w, at) ==
  IF Opens(w, at) THEN [start |-> at, count |-> 1]
  ELSE [start |-> w.start, count |-> w.count + 1]

Recorded(stretches, at) ==
  [from \in 0..MaxTime |->
     stretches[from] + IF at \in from..(from + Window - 1) THEN 1 ELSE 0]

\* The rest of Allow under the mutex; a refusal is answered with 429.
Allow(t) ==
  \E c \in call[t] :
    /\ call' = [call EXCEPT ![t] = {}]
    /\ IF Refuses(by_key[c.key], c.at)
         THEN UNCHANGED <<by_key, admitted>>
         ELSE /\ by_key' = [by_key EXCEPT ![c.key] = Counted(@, c.at)]
              /\ admitted' = [admitted EXCEPT ![c.key] = Recorded(@, c.at)]
    /\ UNCHANGED <<now, calls>>

LimiterNext ==
  \/ Tick
  \/ \E t \in Callers : Allow(t) \/ \E k \in Keys : Limited(t, k)

LimiterSpec == LimiterInit /\ [][LimiterNext]_limiter_vars

----------------------------------------------------------------------------
\* Types of the windows and of the calls under way.
LimiterTypeOK ==
  /\ now \in 0..MaxTime
  /\ call \in [Callers -> SUBSET [key : Keys, at : 0..MaxTime]]
  /\ by_key \in [Keys -> [start : 0..MaxTime, count : 0..MaxEvents]]
  /\ calls \in 0..MaxCalls
  /\ admitted \in [Keys -> [0..MaxTime -> Nat]]

\* Whatever the alignment of the windows, a key gets fewer than twice max_events_
\* requests through in any stretch of one window length; calls that read the
\* clock and were overtaken add at most one for each other thread.
TwoWindowsBound ==
  \A k \in Keys : \A from \in 0..MaxTime :
    admitted[k][from] <= 2 * MaxEvents - 1 + (Cardinality(Callers) - 1)
=============================================================================

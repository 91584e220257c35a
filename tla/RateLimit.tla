----------------------------- MODULE RateLimit -----------------------------
(***************************************************************************)
(* internal/ratelimit: the sliding-window limiter behind the HTTP, SMTP,   *)
(* payload and placement limits, called by concurrent handlers.  Allow and *)
(* RetryAfter read the clock BEFORE they take the mutex, so a handler can  *)
(* enter the critical section with a reading that others have overtaken.   *)
(* Keys do not share state: one key is modelled.                           *)
(***************************************************************************)
EXTENDS Integers, FiniteSets, SequencesExt

CONSTANTS
  Callers,    \* concurrent handlers using the key
  Window,     \* Limiter.window
  MaxHits,    \* Limiter.maxHits
  MaxTime     \* bound: the clock stops here

ASSUME LimiterAssumption ==
  /\ IsFiniteSet(Callers) /\ Callers # {}
  /\ Window \in Nat \ {0}
  /\ {MaxHits, MaxTime} \subseteq Nat

VARIABLES
  now,       \* the clock
  hits,      \* Limiter.hits[key]
  call,      \* call[c]: where caller c is, its clock reading and its answer
  admitted   \* history: the clock readings of all admitted calls, in order

vars == <<now, hits, call, admitted>>

Idle == [pc |-> "idle", at |-> 0, wait |-> 0]

CallState == [pc : {"idle", "allow", "denied", "retry", "told"}, at : Nat, wait : Int]

TypeOK ==
  /\ now \in Nat
  /\ hits \in Seq(Nat) /\ Len(hits) <= MaxHits
  /\ call \in [Callers -> CallState]
  /\ admitted \in Seq(Nat)

Init ==
  /\ now = 0
  /\ hits = <<>>
  /\ call = [c \in Callers |-> Idle]
  /\ admitted = <<>>

\* The hits that t.After(cutoff) keeps, for a clock reading of at.
Kept(at) == SelectSeq(hits, LAMBDA t : t > at - Window)

----------------------------------------------------------------------------
\* now := time.Now() at the head of Allow or RetryAfter.
ReadClock(c, from, to) ==
  /\ call[c].pc = from
  /\ call' = [call EXCEPT ![c] = [@ EXCEPT !.pc = to, !.at = now]]
  /\ UNCHANGED <<now, hits, admitted>>

EnterAllow(c) == ReadClock(c, "idle", "allow")

\* Fault variant: one hit too many fits into the window.
Allow_OffByOne(c) ==
  LET kept == Kept(call[c].at)
  IN  /\ call[c].pc = "allow"
      /\ IF Len(kept) > MaxHits
           THEN /\ hits' = kept
                /\ call' = [call EXCEPT ![c].pc = "denied"]
                /\ UNCHANGED admitted
           ELSE /\ hits' = Append(kept, call[c].at)
                /\ admitted' = Append(admitted, call[c].at)
                /\ call' = [call EXCEPT ![c] = Idle]
      /\ UNCHANGED now

\* Allow under the mutex: prune, compare, and record the hit when admitted.
Allow(c) ==
  LET kept == Kept(call[c].at)
  IN  /\ call[c].pc = "allow"
      /\ IF Len(kept) >= MaxHits
           THEN /\ hits' = kept
                /\ call' = [call EXCEPT ![c].pc = "denied"]
                /\ UNCHANGED admitted
           ELSE /\ hits' = Append(kept, call[c].at)
                /\ admitted' = Append(admitted, call[c].at)
                /\ call' = [call EXCEPT ![c] = Idle]
      /\ UNCHANGED now

EnterRetryAfter(c) == ReadClock(c, "denied", "retry")

\* Fault variant: the wait ends when the hit is on the edge of the window.
WaitFor_Short(at) ==
  LET kept == Kept(at)
  IN  IF Len(kept) < MaxHits THEN 0 ELSE kept[1] + Window - at - 1

\* The wait RetryAfter returns for a clock reading of at.
WaitFor(at) ==
  LET kept == Kept(at)
  IN  IF MaxHits = 0 THEN Window
      ELSE IF Len(kept) < MaxHits THEN 0
      ELSE kept[Len(kept) - MaxHits + 1] + Window - at

\* RetryAfter under the mutex; the handler answers 429 with the wait.
RetryAfter(c) ==
  /\ call[c].pc = "retry"
  /\ call' = [call EXCEPT ![c] = [@ EXCEPT !.pc = "told", !.wait = WaitFor(call[c].at)]]
  /\ UNCHANGED <<now, hits, admitted>>

\* The denied handler returns; most callers of Allow do so without RetryAfter.
Return(c) ==
  /\ call[c].pc \in {"denied", "told"}
  /\ call' = [call EXCEPT ![c] = Idle]
  /\ UNCHANGED <<now, hits, admitted>>

Tick ==
  /\ now < MaxTime
  /\ now' = now + 1
  /\ UNCHANGED <<hits, call, admitted>>

Next ==
  \/ \E c \in Callers : EnterAllow(c) \/ Allow(c) \/ EnterRetryAfter(c) \/ RetryAfter(c) \/ Return(c)
  \/ Tick

Spec == Init /\ [][Next]_vars

----------------------------------------------------------------------------
\* The calls admitted with a reading in the window that ends at t.
InWindow(t) == {i \in DOMAIN admitted : t - Window < admitted[i] /\ admitted[i] <= t}

\* Whatever the interleaving, a window holds at most maxHits admitted calls
\* plus one for every other handler whose clock reading was overtaken.
WindowBound ==
  \A t \in 0..now : Cardinality(InWindow(t)) < MaxHits + Cardinality(Callers)

\* Would Allow admit a call with reading t, given the hits as they are?
Admits(t) == Len(Kept(t)) < MaxHits

\* The wait a caller has just been told is enough: at the end of it Allow
\* lets the key through, unless somebody else was admitted meanwhile.
WaitSuffices ==
  [][\A c \in Callers : (call[c].pc = "retry" /\ call'[c].pc = "told" /\ MaxHits > 0) =>
       Admits(call[c].at + call'[c].wait)]_vars

=============================================================================

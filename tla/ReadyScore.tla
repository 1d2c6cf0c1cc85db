----------------------------- MODULE ReadyScore -----------------------------
(***************************************************************************)
(* The order in which the ready set of queue/redis.rs gives its jobs out.  *)
(* The score of a job, -priority * 1e15 + seq, is an f64: from priority 10 *)
(* on it is larger than 2^53 and seq is rounded.  Jobs of equal score come *)
(* out in the byte order of their members, which start with {"seq":N, (a   *)
(* sorted set of Redis; external).  RedisJobQueue takes jobs of one        *)
(* priority in any order; this module is about the order alone.            *)
(***************************************************************************)
EXTENDS Integers, FiniteSets

CONSTANTS
    Priorities,   \* priority::{CRITICAL, HIGH, NORMAL, LOW}
    Starts,       \* bound: values of seiran:jobs:seq when the behaviour begins
    Window,       \* bound: seqs that are drawn
    MaxReady      \* bound: jobs that wait at the same time

(* What the digits and the ulps below are right for: MCWorkers assumes it. *)
InRange ==
    /\ Priorities \subseteq 1 .. 100
    /\ \A n \in Starts : n \in Nat /\ n + Window \in 0 .. 999

VARIABLES
    seq,     \* seiran:jobs:seq
    ready,   \* seiran:jobs:ready: the seq and the priority of each job
    drawn    \* seqs drawn since the behaviour began

vars == <<seq, ready, drawn>>

Init ==
    /\ seq \in Starts
    /\ ready = {}
    /\ drawn = 0

-----------------------------------------------------------------------------
(* Faulty variant: 1e16 where the code has 1e15.                           *)
UlpTenfold(priority) ==
    LET Fits(u) == priority * 10000 < 9007 * u
        Powers == {2^k : k \in 0 .. 12}
    IN  CHOOSE u \in Powers : Fits(u) /\ \A v \in Powers : Fits(v) => u =< v

(* The gap between two f64 next to priority * 1e15: the least power of two *)
(* u with priority * 1e15 < u * 2^53 (2^53 is 9.0071...e15).               *)
Ulp(priority) ==
    LET Fits(u) == priority * 1000 < 9007 * u
        Powers == {2^k : k \in 0 .. 12}
    IN  CHOOSE u \in Powers : Fits(u) /\ \A v \in Powers : Fits(v) => u =< v

(* n rounded to a multiple of u, a tie to the even multiple (IEEE 754).    *)
(* priority * 1e15 is an even multiple of its ulp itself.                  *)
RoundHalfEven(n, u) ==
    LET q == n \div u
        r == n % u
    IN  IF 2 * r > u \/ (2 * r = u /\ q % 2 = 1) THEN (q + 1) * u ELSE q * u

(* ready_score(a) < ready_score(b), seq being far below 1e15.              *)
ScoreLess(a, b) ==
    LET ra == RoundHalfEven(a.seq, Ulp(a.priority))
        rb == RoundHalfEven(b.seq, Ulp(b.priority))
    IN  \/ a.priority > b.priority
        \/ a.priority = b.priority /\ ra < rb

(* The decimal digits of m before those of n in the order of bytes; "," is *)
(* less than any digit, so a prefix is first.                              *)
DigitsLess(m, n) ==
    LET Weight(k) == IF k < 10 THEN 100 ELSE IF k < 100 THEN 10 ELSE 1
        am == m * Weight(m)
        an == n * Weight(n)
    IN  am < an \/ (am = an /\ m < n)

PoppedBefore(a, b) ==
    \/ ScoreLess(a, b)
    \/ ~ScoreLess(b, a) /\ DigitsLess(a.seq, b.seq)

First == CHOOSE j \in ready : \A k \in ready \ {j} : PoppedBefore(j, k)

NextSeq ==
    /\ drawn < Window
    /\ drawn' = drawn + 1
    /\ seq' = seq + 1

(* push_ready: INCR, then ZADD.                                            *)
PushReady(priority) ==
    /\ Cardinality(ready) < MaxReady
    /\ NextSeq
    /\ ready' = ready \cup {[priority |-> priority, seq |-> seq + 1]}

(* A seq that is not in the ready set: the ZADD failed, or the job was     *)
(* pushed to the delayed set.                                              *)
SeqElsewhere ==
    /\ NextSeq
    /\ UNCHANGED ready

(* BZPOPMIN *)
Pop ==
    /\ ready # {}
    /\ ready' = ready \ {First}
    /\ UNCHANGED <<seq, drawn>>

Next == Pop \/ SeqElsewhere \/ \E p \in Priorities : PushReady(p)

Spec == Init /\ [][Next]_vars

-----------------------------------------------------------------------------
(* A job comes out before every job of a lower priority, whatever the      *)
(* rounding does to both.                                                  *)
PriorityFirst ==
    [][\A j \in ready \ ready', k \in ready' : j.priority >= k.priority]_vars

(* Rounding lets a job overtake an older one of its priority only within   *)
(* 2 seqs for NORMAL, 8 for HIGH, 16 for CRITICAL, and not at all for LOW: *)
(* no job waits behind an unbounded number of newer ones.                  *)
OvertakingBounded ==
    [][\A j \in ready \ ready', k \in ready' :
          j.priority = k.priority /\ k.seq < j.seq =>
              j.seq - k.seq =< CASE j.priority >= 100 -> 16
                                 [] j.priority \in 50 .. 99 -> 8
                                 [] j.priority \in 10 .. 49 -> 2
                                 [] OTHER -> 0]_vars

(* "Within a priority the earlier seq has the smaller score": jobs of one  *)
(* priority come out in the order they were pushed.                        *)
FifoWithinPriority ==
    [][\A j \in ready \ ready', k \in ready' :
          j.priority = k.priority => j.seq < k.seq]_vars
=============================================================================
